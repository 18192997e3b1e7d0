----------------------------- MODULE RateLimit -----------------------------
(***************************************************************************)
(* The limiter of lib/rate-limit.ts, for one bucket.  A request reads the  *)
(* clock of its instance, looks for the caller in what that instance       *)
(* remembers, and asks the database, which counts hits in windows of its   *)
(* own clock; a refusal is remembered to the end of the window of the      *)
(* clock that was read first.                                              *)
(***************************************************************************)
EXTENDS Integers, FiniteSets

CONSTANTS
    Callers,
    Instances,     \* processes of the application
    Window,        \* PUBLIC_WINDOW_SECONDS
    Limit,         \* PUBLIC_LIMITS of the bucket
    MemoMax,       \* MEMO_MAX_ENTRIES
    Retention,     \* DEFAULT_RETENTION_SECONDS
    Drift,         \* how far an instance's clock may be behind the database's
    MaxClock,      \* bound: the last moment
    MaxHits        \* bound: hits of one caller in one window

ASSUME WindowAssumption == Window \in Nat \ {0} /\ Limit \in Nat /\ MemoMax \in Nat \ {0}
ASSUME RetentionAssumption == Retention \in Nat /\ Retention >= Window
ASSUME DriftAssumption == Drift \in Nat /\ MaxClock \in Nat /\ MaxHits \in Nat

VARIABLES
    clock,         \* now() of the database
    hits,          \* rate_limit, by caller and window: the rows that are there
    memo,          \* blockedUntil, by instance and caller; 0 when there is no entry
    asking,        \* the request an instance serves: its caller and the clock it read
    admitted       \* requests let through, by caller and window

limitVars == <<clock, hits, memo, asking, admitted>>

Windows == 0 .. (MaxClock \div Window)
WindowOf(t) == t \div Window

\* Mutants: the other way, and a whole window from now.
EndsBefore(t) == (WindowOf(t) - 1) * Window
EndsLater(t) == t + Window

Ends(t) == (WindowOf(t) + 1) * Window

NoCaller == [who |-> {}, now |-> 0]

LimitTypeOK ==
    /\ clock \in 0 .. MaxClock
    /\ hits \in [Callers \X Windows -> Nat]
    /\ memo \in [Instances -> [Callers -> Nat]]
    /\ asking \in [Instances -> [who : {{}} \cup {{c} : c \in Callers}, now : 0 .. MaxClock]]
    /\ admitted \in [Callers \X Windows -> Nat]

Tick ==
    /\ clock < MaxClock
    /\ clock' = clock + 1
    /\ UNCHANGED <<hits, memo, asking, admitted>>

\* rateLimited up to its question: the entry of a caller whose time has come is
\* dropped, and one who is still blocked is refused without a write.
Arrive(i, c, now) ==
    /\ asking[i] = NoCaller
    /\ now \in 0 .. clock /\ now >= clock - Drift
    /\ ~(now < memo[i][c])
    /\ memo' = [memo EXCEPT ![i][c] = 0]
    /\ asking' = [asking EXCEPT ![i] = [who |-> {c}, now |-> now]]
    /\ UNCHANGED <<clock, hits, admitted>>

\* sweepMemo: the entries that are over, or all of them.
Swept(m, now) ==
    LET size == Cardinality({c \in Callers : m[c] # 0})
        live == [c \in Callers |-> IF m[c] <= now THEN 0 ELSE m[c]]
    IN  IF size < MemoMax THEN m
        ELSE IF Cardinality({c \in Callers : live[c] # 0}) >= MemoMax
             THEN [c \in Callers |-> 0] ELSE live

\* hitLimit and what follows it.
Count(i) ==
    \E c \in asking[i].who :
        LET w == WindowOf(clock)
            now == asking[i].now
        IN  /\ hits[<<c, w>>] < MaxHits
            /\ hits' = [hits EXCEPT ![<<c, w>>] = @ + 1]
            /\ IF hits'[<<c, w>>] > Limit
               THEN /\ memo' = [memo EXCEPT ![i] = [Swept(@, now) EXCEPT ![c] = Ends(now)]]
                    /\ UNCHANGED admitted
               ELSE /\ admitted' = [admitted EXCEPT ![<<c, w>>] = @ + 1]
                    /\ UNCHANGED memo
            /\ asking' = [asking EXCEPT ![i] = NoCaller]
            /\ UNCHANGED clock

\* An instance is recycled, with what it remembers.
Recycle(i) ==
    /\ memo' = [memo EXCEPT ![i] = [c \in Callers |-> 0]]
    /\ asking' = [asking EXCEPT ![i] = NoCaller]
    /\ UNCHANGED <<clock, hits, admitted>>

\* Mutant: nothing is retained.
PruneNow ==
    /\ hits' = [r \in Callers \X Windows |-> IF r[2] * Window < clock THEN 0 ELSE hits[r]]
    /\ UNCHANGED <<clock, memo, asking, admitted>>

\* pruneRateLimit, at any moment.
Prune ==
    /\ hits' = [r \in Callers \X Windows |-> IF r[2] * Window < clock - Retention THEN 0 ELSE hits[r]]
    /\ UNCHANGED <<clock, memo, asking, admitted>>

LimitInit ==
    /\ clock = 0
    /\ hits = [r \in Callers \X Windows |-> 0]
    /\ memo = [i \in Instances |-> [c \in Callers |-> 0]]
    /\ asking = [i \in Instances |-> NoCaller]
    /\ admitted = [r \in Callers \X Windows |-> 0]

LimitNext ==
    \/ Tick \/ Prune
    \/ \E i \in Instances :
          \/ \E c \in Callers, now \in 0 .. MaxClock : Arrive(i, c, now)
          \/ Count(i) \/ Recycle(i)

LimitSpec == LimitInit /\ [][LimitNext]_limitVars

-----------------------------------------------------------------------------
(* Properties.                                                             *)

\* The memo "never creates a refusal": while an instance would refuse a caller
\* without asking, the database has counted that caller over the limit in the
\* window of this moment.  It needs clocks that are not ahead of the database's.
MemoIsOfAFullWindow ==
    \A i \in Instances, c \in Callers :
        clock < memo[i][c] => hits[<<c, WindowOf(clock)>>] > Limit

\* What the public numbers promise: of one caller, as many requests as the limit are let
\* through in one window and no more, whichever instances serve them and forget.
WithinLimit ==
    /\ \A r \in Callers \X Windows : admitted[r] <= Limit
    /\ MemoIsOfAFullWindow
=============================================================================
