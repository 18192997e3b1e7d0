---------------------------- MODULE DerivedView ----------------------------
(***************************************************************************)
(* What the replay promises its readers.  Everything derived from the      *)
(* trades of a position (the position row, its share of each day, what     *)
(* each sell realized) is a function of them; it may lag behind, but then  *)
(* the position is marked dirty, and refreshing it takes all of its        *)
(* trades into account at once.                                            *)
(***************************************************************************)
CONSTANTS Trades, Positions, PositionOf

VARIABLES
    log,     \* each trade: not recorded, recorded without USD, or with it
    dirty,   \* the positions marked for a replay
    view     \* the trades each position's derived rows were computed from

vars == <<log, dirty, view>>

TradeState == {"absent", "unpriced", "priced"}

TradesOf(p) == {t \in Trades : PositionOf[t] = p}

LogOf(p) == [t \in TradesOf(p) |-> log[t]]

Init ==
    /\ log = [t \in Trades |-> "absent"]
    /\ dirty = [p \in Positions |-> FALSE]
    /\ view = [p \in Positions |-> LogOf(p)]

\* A trade is recorded, or gets its price, and its position is marked.
Change(t, state) ==
    /\ \/ log[t] = "absent" /\ state # "absent"
       \/ log[t] = "unpriced" /\ state = "priced"
    /\ log' = [log EXCEPT ![t] = state]
    /\ dirty' = [dirty EXCEPT ![PositionOf[t]] = TRUE]
    /\ UNCHANGED view

\* A mark with nothing new behind it.
Mark(p) ==
    /\ dirty' = [dirty EXCEPT ![p] = TRUE]
    /\ UNCHANGED <<log, view>>

Refresh(p) ==
    /\ dirty[p]
    /\ view' = [view EXCEPT ![p] = LogOf(p)]
    /\ dirty' = [dirty EXCEPT ![p] = FALSE]
    /\ UNCHANGED log

Next ==
    \/ \E t \in Trades, state \in TradeState : Change(t, state)
    \/ \E p \in Positions : Mark(p) \/ Refresh(p)

Spec == Init /\ [][Next]_vars

\* A position that is not dirty is up to date with its trades.
CleanIsCurrent == \A p \in Positions : dirty[p] \/ view[p] = LogOf(p)
=============================================================================
