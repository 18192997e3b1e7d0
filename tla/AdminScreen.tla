---------------------------- MODULE AdminScreen ----------------------------
(***************************************************************************)
(* The page /admin: load the roster and the orphaned cabals, create a KOL, *)
(* approve one, nominate somebody for an orphaned cabal.  Each action that *)
(* succeeds loads the roster again before its buttons are enabled.         *)
(*                                                                         *)
(* A response holds what the server had when it answered, and its delivery *)
(* is a step of its own.  The token in the field is right or wrong.  What  *)
(* the routes do beyond the rows of kol is modelled in Accounts and Cabal. *)
(***************************************************************************)
EXTENDS Integers, FiniteSets

CONSTANTS
    Applicants,    \* KOLs, in the roster or not yet
    OrphanCabals,  \* cabals that may be orphaned
    NoForm         \* no nomination form is open

ASSUME AdminScreenAssumption == NoForm \notin OrphanCabals

VARIABLES
    screen,        \* the state of the component
    jobs,          \* its handlers that are running
    kolRows,       \* the server: pending and approved KOLs
    orphaned,      \* the server: orphaned cabals
    \* History:
    settledHere,   \* KOLs that the server told this page are approved
    threw          \* a handler was cut off by the network since the last roster

adminVars == <<screen, jobs, kolRows, orphaned, settledHere, threw>>

Roster0 == [pending : SUBSET Applicants, approved : SUBSET Applicants]
NotLoaded == [pending |-> {}, approved |-> {}]
NoReply == [status |-> "none", kols |-> NotLoaded, orphans |-> {}]
Refusal == [NoReply EXCEPT !.status = "refused"]

AdminTypeOK ==
    /\ screen \in [token : BOOLEAN, busy : BOOLEAN, typed : BOOLEAN, message : BOOLEAN,
                   loaded : BOOLEAN, rows : Roster0, listed : BOOLEAN, orphans : SUBSET OrphanCabals,
                   reassign : OrphanCabals \cup {NoForm}, confirmed : BOOLEAN]
    /\ jobs \subseteq [does : {"load", "create", "approve", "nominate"}, at : {"act", "roster", "cabals"},
                       token : BOOLEAN, of : SUBSET (Applicants \cup OrphanCabals),
                       reply : [status : {"none", "ok", "refused"}, kols : Roster0,
                                orphans : SUBSET OrphanCabals]]
    /\ kolRows \in Roster0 /\ orphaned \subseteq OrphanCabals
    /\ settledHere \subseteq Applicants /\ threw \in BOOLEAN

-----------------------------------------------------------------------------
(* The server.                                                             *)

Answered(j, r) == jobs' = (jobs \ {j}) \cup {[j EXCEPT !.reply = r]}

\* GET /api/admin/kol and GET /api/admin/cabal.
AnswerRead(j) ==
    /\ j.at # "act" /\ j.token
    /\ Answered(j, IF j.at = "roster" THEN [NoReply EXCEPT !.status = "ok", !.kols = kolRows]
                                      ELSE [NoReply EXCEPT !.status = "ok", !.orphans = orphaned])
    /\ UNCHANGED <<kolRows, settledHere>>

AnswerOk(j) == Answered(j, [NoReply EXCEPT !.status = "ok"])

\* The row is written, and its line in the audit is not: a 500.
AnswerCutOff(j) == Answered(j, Refusal)

\* createKol: an approved row, if the handle is free.
AnswerCreate(j) ==
    /\ j.at = "act" /\ j.does = "create" /\ j.token
    /\ j.of \cap (kolRows.pending \cup kolRows.approved) = {}
    /\ kolRows' = [kolRows EXCEPT !.approved = @ \cup j.of]
    /\ AnswerOk(j) \/ AnswerCutOff(j)
    /\ UNCHANGED settledHere

\* approveKol: of a pending row.
AnswerApprove(j) ==
    /\ j.at = "act" /\ j.does = "approve" /\ j.token /\ j.of \subseteq kolRows.pending
    /\ kolRows' = [pending |-> kolRows.pending \ j.of, approved |-> kolRows.approved \cup j.of]
    /\ \/ settledHere' = settledHere \cup j.of /\ AnswerOk(j)
       \/ UNCHANGED settledHere /\ AnswerCutOff(j)

\* nominate: the cabal stays orphaned until it is claimed.
AnswerNominate(j) ==
    /\ j.at = "act" /\ j.does = "nominate" /\ j.token /\ j.of \subseteq orphaned
    /\ AnswerOk(j) /\ UNCHANGED <<kolRows, settledHere>>

AnswerRefusal(j) == Answered(j, Refusal) /\ UNCHANGED <<kolRows, settledHere>>

Answer0(j) ==
    /\ j \in jobs /\ j.reply.status = "none"
    /\ \/ AnswerRead(j) \/ AnswerCreate(j) \/ AnswerApprove(j)
       \/ AnswerNominate(j) \/ AnswerRefusal(j)
    /\ UNCHANGED <<screen, orphaned, threw>>

\* External: somebody registers, or a cabal becomes orphaned or is claimed.
Elsewhere ==
    /\ \/ \E k \in Applicants \ (kolRows.pending \cup kolRows.approved) :
              kolRows' = [kolRows EXCEPT !.pending = @ \cup {k}] /\ UNCHANGED orphaned
       \/ \E c \in OrphanCabals :
              /\ orphaned' = IF c \in orphaned THEN orphaned \ {c} ELSE orphaned \cup {c}
              /\ UNCHANGED kolRows
    /\ UNCHANGED <<screen, jobs, settledHere, threw>>

-----------------------------------------------------------------------------
(* The page.                                                               *)

\* Mutant: nothing is disabled while a handler runs.
NotDisabled(s) == TRUE

\* disabled={token === "" || busy}; the token is typed.
NotBusy(s) == ~s.busy

\* setBusy(true), and the request, with the token of the field.
StartJob(does, at, of) ==
    /\ NotBusy(screen)
    /\ screen' = [screen EXCEPT !.busy = TRUE]
    /\ jobs' = jobs \cup {[does |-> does, at |-> at, token |-> screen.token, of |-> of, reply |-> NoReply]}
    /\ UNCHANGED <<kolRows, orphaned, settledHere, threw>>

PressLoad == StartJob("load", "roster", {})

PressCreate(k) == screen.typed /\ StartJob("create", "act", {k})

\* The button is on the rows shown pending.
PressApprove(k) == screen.loaded /\ k \in screen.rows.pending /\ StartJob("approve", "act", {k})

PressNominate ==
    screen.reassign # NoForm /\ screen.confirmed /\ StartJob("nominate", "act", {screen.reassign})

\* The fields and the form of a nomination: none is disabled while a handler runs.
Edit ==
    /\ \/ \E right \in BOOLEAN : screen' = [screen EXCEPT !.token = right]
       \/ \E typed \in BOOLEAN : screen' = [screen EXCEPT !.typed = typed]
       \/ \E c \in screen.orphans :
              screen.listed /\ screen' = [screen EXCEPT !.reassign = c, !.confirmed = FALSE]
       \/ screen' = [screen EXCEPT !.reassign = NoForm, !.confirmed = FALSE]
       \/ screen.reassign # NoForm /\ screen' = [screen EXCEPT !.confirmed = ~@]
    /\ UNCHANGED <<jobs, kolRows, orphaned, settledHere, threw>>

\* The handler goes on to another request, with the token it started with.
GoesOn(j, at) ==
    jobs' = (jobs \ {j}) \cup {[j EXCEPT !.at = at, !.reply = NoReply]}

\* Mutant: the roster is not loaded again.
EndsThere(j, at) == jobs' = jobs \ {j}

\* await load().
LoadsAgain(j, at) == GoesOn(j, at)

\* say: a refusal is said, and a roster that is refused is taken off the screen.
DeliverRefusal(j) ==
    /\ j.reply.status = "refused"
    /\ screen' = IF j.at = "cabals" THEN [screen EXCEPT !.listed = FALSE, !.orphans = {}, !.busy = FALSE]
                 ELSE IF j.at = "roster" THEN [screen EXCEPT !.loaded = FALSE, !.rows = NotLoaded,
                                                                   !.message = TRUE, !.busy = FALSE]
                 ELSE [screen EXCEPT !.message = TRUE, !.busy = FALSE]
    /\ jobs' = jobs \ {j} /\ UNCHANGED threw

DeliverAct(j) ==
    /\ j.at = "act" /\ j.reply.status = "ok"
    /\ screen' = [screen EXCEPT !.message = TRUE,
                      !.typed = @ /\ j.does # "create",
                      !.reassign = IF j.does = "nominate" THEN NoForm ELSE @,
                      !.confirmed = @ /\ j.does # "nominate",
                      !.busy = TRUE]
    /\ LoadsAgain(j, "roster") /\ UNCHANGED threw

DeliverRoster(j) ==
    /\ j.at = "roster" /\ j.reply.status = "ok"
    /\ screen' = [screen EXCEPT !.loaded = TRUE, !.rows = j.reply.kols, !.message = FALSE]
    /\ GoesOn(j, "cabals") /\ threw' = FALSE

DeliverOrphans(j) ==
    /\ j.at = "cabals" /\ j.reply.status = "ok"
    /\ screen' = [screen EXCEPT !.listed = TRUE, !.orphans = j.reply.orphans, !.busy = FALSE]
    /\ jobs' = jobs \ {j} /\ UNCHANGED threw

\* No network, before or after the server: the handler throws, and only finally runs.
DeliverNothing(j) ==
    /\ screen' = [screen EXCEPT !.busy = FALSE]
    /\ jobs' = jobs \ {j} /\ threw' = TRUE

Deliver(j) ==
    /\ j \in jobs
    /\ \/ DeliverRefusal(j) \/ DeliverAct(j) \/ DeliverRoster(j) \/ DeliverOrphans(j) \/ DeliverNothing(j)
    /\ UNCHANGED <<kolRows, orphaned, settledHere>>

-----------------------------------------------------------------------------

AdminInit ==
    /\ screen = [token |-> FALSE, busy |-> FALSE, typed |-> FALSE, message |-> FALSE,
                 loaded |-> FALSE, rows |-> NotLoaded, listed |-> FALSE, orphans |-> {},
                 reassign |-> NoForm, confirmed |-> FALSE]
    /\ jobs = {} /\ kolRows = NotLoaded /\ orphaned = {} /\ settledHere = {} /\ threw = FALSE

AdminNext ==
    \/ \E j \in jobs : Answer0(j) \/ Deliver(j)
    \/ Elsewhere \/ Edit \/ PressLoad \/ PressNominate
    \/ \E k \in Applicants : PressCreate(k) \/ PressApprove(k)

AdminSpec == AdminInit /\ [][AdminNext]_adminVars

-----------------------------------------------------------------------------

\* Once its handlers are done, and unless the network cut one off, the page does not
\* offer for approval a KOL that it was told it approved: an answer that was on its way does
\* not put an older roster over a newer one, and at most one handler runs.
AdminRosterIsItsOwn ==
    /\ Cardinality(jobs) <= 1
    /\ jobs = {} /\ ~threw /\ screen.loaded => screen.rows.pending \cap settledHere = {}
=============================================================================
