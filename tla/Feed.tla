-------------------------------- MODULE Feed --------------------------------
(***************************************************************************)
(* The feed of trades: the pages of feed.ts behind GET /api/feed, and the  *)
(* polling client that follows them, FeedLive.                             *)
(*                                                                         *)
(* A trade is its place in the order of (block_time, id), and trades are   *)
(* stored in any order.  A validator is the place of the row it names, or  *)
(* EmptyTag.  The reader's token is accepted: without it the route answers *)
(* 401, which FeedLive takes like any other refusal.                       *)
(***************************************************************************)
EXTENDS Integers, FiniteSetsExt

CONSTANTS
    Places,        \* 1 .. n
    Owners,        \* KOLs
    FeedPage,      \* FEED_PAGE_SIZE
    MaxPages       \* pages one poll asks for at most

ASSUME FeedAssumption ==
    /\ FeedPage \in Nat \ {0} /\ MaxPages \in Nat \ {0}
    /\ Places \subseteq Nat \ {0} /\ IsFiniteSet(Places)

VARIABLES
    inTable,       \* trades stored
    ownedBy,       \* whose they are
    public,        \* approved KOLs
    reader,        \* FeedLive: its cursor, its validator, what it shows, its poll
    answer,        \* the response on its way
    \* History:
    handed,        \* trades the reader was given
    reach,         \* the last place a page of the reader has been read to
    late           \* trades that came, or came back, before that place

feedVars == <<inTable, ownedBy, public, reader, answer, handed, reach, late>>

Start0 == 0          \* no cursor
NoTag1 == -1
EmptyTag == 0
Tags0 == Places \cup {NoTag1, EmptyTag}

NoAnswer == [kind |-> "none", page |-> {}, more |-> FALSE, tag |-> NoTag1]

FeedTypeOK ==
    /\ inTable \subseteq Places /\ ownedBy \in [Places -> Owners] /\ public \subseteq Owners
    /\ reader \in [newest : Places \cup {Start0}, tag : Tags0, shows : SUBSET Places,
                   step : {"waiting", "asked", "probed"}, pages : 0 .. MaxPages, hidden : BOOLEAN]
    /\ answer \in [kind : {"none", "304", "200"}, page : SUBSET Places, more : BOOLEAN, tag : Tags0]
    /\ handed \subseteq Places /\ late \subseteq Places /\ reach \in Places \cup {Start0}

-----------------------------------------------------------------------------
(* feed.ts.                                                                *)

Listed == {p \in inTable : ownedBy[p] \in public}

First(S, n) == {p \in S : Cardinality({q \in S : q <= p}) <= n}
Newest(S, n) == {p \in S : Cardinality({q \in S : q >= p}) <= n}

After(since) == {p \in Listed : p > since}

\* Mutant: the newest rows after a cursor.
NewestPage(since) == Newest(IF since = Start0 THEN Listed ELSE After(since), FeedPage)

\* readFeedPage: the newest rows without a cursor, the oldest after one.
Page(since) == IF since = Start0 THEN Newest(Listed, FeedPage) ELSE First(After(since), FeedPage)

HasMore(since) == since # Start0 /\ Cardinality(After(since)) > FeedPage

\* etagOf: the newest row of the opening page, the oldest of any other.
TagOf(since, page) ==
    IF page = {} THEN EmptyTag ELSE IF since = Start0 THEN Max(page) ELSE Min(page)

\* readFeedValidator: LIMIT 1 of the order the page is selected in.
Validator(since) ==
    TagOf(since, IF since = Start0 THEN Newest(Listed, 1) ELSE First(After(since), 1))

-----------------------------------------------------------------------------
(* What is stored and who is approved.                                     *)

StoreTrade(p) ==
    /\ p \in Places \ inTable
    /\ inTable' = inTable \cup {p}
    /\ late' = IF p <= reach THEN late \cup {p} ELSE late
    /\ UNCHANGED <<ownedBy, public, reader, answer, handed, reach>>

\* A KOL is suspended, or approved again: with rows behind the cursor.
SuspendOwner(k) ==
    /\ k \in public /\ public' = public \ {k}
    /\ UNCHANGED <<inTable, ownedBy, reader, answer, handed, reach, late>>

Reinstate(k) ==
    /\ k \in Owners \ public /\ public' = public \cup {k}
    /\ late' = late \cup {p \in inTable : ownedBy[p] = k /\ p <= reach}
    /\ UNCHANGED <<inTable, ownedBy, reader, answer, handed, reach>>

-----------------------------------------------------------------------------
(* GET /api/feed: the validator first, then the page with its own.         *)

Probe ==
    /\ reader.step = "asked" /\ answer = NoAnswer
    /\ IF Validator(reader.newest) = reader.tag
       THEN /\ answer' = [NoAnswer EXCEPT !.kind = "304", !.tag = reader.tag]
            /\ UNCHANGED reader
       ELSE /\ reader' = [reader EXCEPT !.step = "probed"]
            /\ UNCHANGED answer
    /\ UNCHANGED <<inTable, ownedBy, public, handed, reach, late>>

\* What an opening page leaves out is history.
ReadPage ==
    LET page == Page(reader.newest)
    IN  /\ reader.step = "probed"
        /\ answer' = [kind |-> "200", page |-> page, more |-> HasMore(reader.newest),
                      tag |-> TagOf(reader.newest, page)]
        /\ reach' = IF page = {} THEN reach ELSE Max(page \cup {reach})
        /\ late' = IF reader.newest = Start0 /\ page # {}
                   THEN late \cup {p \in inTable \ page : p < Max(page)} ELSE late
        /\ reader' = [reader EXCEPT !.step = "asked"]
        /\ UNCHANGED <<inTable, ownedBy, public, handed>>

-----------------------------------------------------------------------------
(* FeedLive.                                                               *)

Hide ==
    /\ reader' = [reader EXCEPT !.hidden = ~@]
    /\ UNCHANGED <<inTable, ownedBy, public, answer, handed, reach, late>>

\* The interval: nothing while the tab is hidden or a poll is under way.
Poll ==
    /\ reader.step = "waiting" /\ ~reader.hidden
    /\ reader' = [reader EXCEPT !.step = "asked", !.pages = 1]
    /\ UNCHANGED <<inTable, ownedBy, public, answer, handed, reach, late>>

\* Mutant: the cursor moves to the newest trade there is.
AdvanceToLatest(page) == Max(page \cup Listed)

\* newest.current = body.trades[0], of a page newest first.
Advance(page) == Max(page)

\* 304, an empty page, the last page there is, or the tenth, end the poll.
Receive ==
    /\ answer # NoAnswer
    /\ IF answer.page = {}
       THEN reader' = [reader EXCEPT !.step = "waiting", !.tag = answer.tag, !.pages = 0]
       ELSE LET again == answer.more /\ reader.pages < MaxPages
            IN  reader' = [reader EXCEPT !.newest = Advance(answer.page), !.tag = answer.tag,
                                         !.shows = Newest(answer.page \cup @, FeedPage),
                                         !.step = IF again THEN "asked" ELSE "waiting",
                                         !.pages = IF again THEN @ + 1 ELSE 0]
    /\ handed' = handed \cup answer.page
    /\ answer' = NoAnswer
    /\ UNCHANGED <<inTable, ownedBy, public, reach, late>>

\* A refusal, or a connection that drops; after the headers, the validator is
\* kept and the body is not there.
LoseAnswer ==
    /\ reader.step # "waiting"
    /\ \E tag \in {reader.tag} \cup {answer.tag : a \in {answer} \ {NoAnswer}} :
          reader' = [reader EXCEPT !.step = "waiting", !.tag = tag, !.pages = 0]
    /\ answer' = NoAnswer
    /\ UNCHANGED <<inTable, ownedBy, public, handed, reach, late>>

\* The first page is rendered on the server.
FeedInit ==
    /\ inTable \in SUBSET Places /\ ownedBy \in [Places -> Owners] /\ public = Owners
    /\ LET page == Newest(inTable, FeedPage)
           top == IF page = {} THEN Start0 ELSE Max(page)
       IN  /\ reader = [newest |-> top, tag |-> NoTag1, shows |-> page, step |-> "waiting",
                        pages |-> 0, hidden |-> FALSE]
           /\ handed = page /\ reach = top /\ late = inTable \ page
    /\ answer = NoAnswer

FeedNext ==
    \/ \E p \in Places : StoreTrade(p)
    \/ \E k \in Owners : SuspendOwner(k) \/ Reinstate(k)
    \/ Probe \/ ReadPage \/ Hide \/ Poll \/ Receive \/ LoseAnswer

FeedSpec == FeedInit /\ [][FeedNext]_feedVars

-----------------------------------------------------------------------------
(* Properties.                                                             *)

\* "The client only ever advances to a row it has actually been handed" (AFTER_SQL):
\* nothing between the trades it holds is skipped, except what was stored, or
\* published again, behind a page that had been read.
NothingSkipped ==
    \A p \in Listed : p <= reader.newest /\ p \notin late => p \in handed

\* A quiet answer means that there is nothing to come: a reader at rest holds the
\* validator of its next page only when that page is empty (GET, "a quiet feed").
QuietIsUpToDate ==
    reader.step = "waiting" /\ reader.tag = Validator(reader.newest) => After(reader.newest) = {}
=============================================================================
