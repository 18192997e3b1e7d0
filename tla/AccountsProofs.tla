--------------------------- MODULE AccountsProofs ---------------------------
(***************************************************************************)
(* What Cabal and Accounts promise.  Cabal, for any KOLs, cabals, tags and *)
(* number of requests served at once: who decides is alone, the seats stay *)
(* sound, what has ended stays ended, and nobody is led or enrolled but by *)
(* those who may.  Accounts, for any handles, addresses, nonces and        *)
(* requests at once: what the tables claim somebody signed, a decision is  *)
(* recorded once, and the limit on wallets is passed by concurrent         *)
(* requests only.                                                          *)
(***************************************************************************)
EXTENDS Cabal, Accounts, FiniteSetTheorems, TLAPS


-----------------------------------------------------------------------------
(* Cabal: the invariant.                                                   *)

\* What a session has sent is of the shape its action needs.
Shape(r) ==
    /\ r.act \in AsEither \cup AsLeader => r.seen \in Led /\ r.who \in Kols /\ r.whom \in Kols
    /\ r.act \in AsLeader => r.seen.deputyOf = {}
    /\ r.act \in {"crear cabal", "pedir entrar", "reclamar cabal"} => r.who \in Kols
    /\ r.act = "crear cabal" => r.tag \in Tags
    /\ r.act \in {"pedir entrar", "reclamar cabal", "nominar", "disolver cabal"} => r.on \in Cabals
    /\ r.act = "nominar" => r.whom \in Kols

SentOK(s) == session[s].step = "sent" => Shape(session[s])

\* What a session has decided under the lock is still so when it writes.
DecidedOK(s) == LET r == session[s] IN
    r.step = "decided" =>
      /\ r.on \in Cabals /\ r.who \in Kols
      /\ r.act \in AsEither \cup AsLeader \cup {"reclamar cabal"}
      /\ r.act # "reclamar cabal" => r.whom \in Kols
      /\ status[r.on] = "live"
      /\ r.act = "aceptar solicitud" => <<r.on, r.whom>> \in asked
      /\ r.act = "nombrar co-lider" => Cardinality(deputies[r.on]) < 2 /\ r.whom # leader[r.on]
      /\ r.act = "transferir el cabal" => r.who = leader[r.on]
      /\ r.act = "reclamar cabal" => offer[r.on].to = r.who

\* A row that is not there yet has no seats.
AbsentIsEmpty == \A c \in Cabals : status[c] = "absent" => leader[c] = NoOne /\ deputies[c] = {}

SeatsAreFinite == \A c \in Cabals : IsFiniteSet(deputies[c])

IInv ==
    /\ TypeOK
    /\ OneDecides
    /\ \A s \in Sessions : SentOK(s) /\ DecidedOK(s)
    /\ AbsentIsEmpty /\ SeatsAreFinite /\ SeatsAreSound

\* The tables, apart from the sessions.
TablesOK ==
    /\ status \in [Cabals -> {"absent", "live", "dissolved"}]
    /\ tag \in [Cabals -> Tags \cup {NoTag}]
    /\ leader \in [Cabals -> Kols \cup {NoOne}]
    /\ deputies \in [Cabals -> SUBSET Kols]
    /\ member \in [Kols -> Cabals \cup {NoCabal}]
    /\ canSign \subseteq Kols
    /\ asked \subseteq Cabals \X Kols
    /\ offer \in [Cabals -> Offers]
    /\ AbsentIsEmpty /\ SeatsAreFinite /\ SeatsAreSound

\* The sessions, apart from the tables.
SessionsOK ==
    /\ session \in [Sessions -> SessionType]
    /\ proofs \in 0 .. MaxProofs
    /\ OneDecides
    /\ \A s \in Sessions : SentOK(s) /\ DecidedOK(s)

LEMMA TwoParts == IInv <=> TablesOK /\ SessionsOK
  BY DEF IInv, TablesOK, SessionsOK, TypeOK

LEMMA TwoPartsPrimed == IInv' <=> TablesOK' /\ SessionsOK'
  BY DEF IInv, TablesOK, SessionsOK, TypeOK

\* Everything that a decision on c rests on stays.
Kept(c) ==
    /\ status'[c] = status[c] /\ leader'[c] = leader[c] /\ deputies'[c] = deputies[c]
    /\ offer'[c].to = offer[c].to
    /\ \A k \in Kols : <<c, k>> \in asked => <<c, k>> \in asked'

\* It does so for the sessions that have decided, s apart.
KeptForOthers(s) ==
    \A t \in Sessions \ {s} : session[t].step = "decided" => Kept(session[t].on)

-----------------------------------------------------------------------------
(* Sessions.                                                               *)

LEMMA IdleType == Idle \in SessionType /\ Idle.step = "idle"
<1>1. Nothing \in Led
  BY DEF Nothing, Led
<1>2. Idle = [step |-> "idle", act |-> "none", who |-> NoOne, whom |-> NoOne,
              on |-> NoCabal, tag |-> NoTag, seen |-> Nothing]
  BY DEF Idle
<1> QED
  BY <1>1, <1>2 DEF SessionType

\* A decision that nothing touches stands.
LEMMA DecisionStands ==
    ASSUME SessionsOK, NEW t \in Sessions, session'[t] = session[t],
           session[t].step = "decided" => Kept(session[t].on)
    PROVE  SentOK(t)' /\ DecidedOK(t)'
<1>1. SentOK(t)'
  BY DEF SessionsOK, SentOK
<1>2. DecidedOK(t)'
  <2>1. SUFFICES ASSUME session[t].step = "decided" PROVE DecidedOK(t)'
    BY DEF DecidedOK
  <2>2. Kept(session[t].on) /\ DecidedOK(t)
    BY <2>1 DEF SessionsOK
  <2> QED
    BY <2>1, <2>2 DEF DecidedOK, Kept
<1> QED
  BY <1>1, <1>2

\* A session that ends leaves the others alone.
LEMMA EndOK ==
    ASSUME SessionsOK, NEW s \in Sessions, End(s), UNCHANGED proofs, KeptForOthers(s)
    PROVE  SessionsOK'
<1>1. /\ session \in [Sessions -> SessionType] /\ session' = [session EXCEPT ![s] = Idle]
  BY DEF SessionsOK, End
<1>2. /\ session' \in [Sessions -> SessionType] /\ session'[s] = Idle
      /\ \A t \in Sessions \ {s} : session'[t] = session[t]
  BY <1>1, IdleType
<1>3. OneDecides'
  BY <1>2, IdleType DEF SessionsOK, OneDecides
<1>4. ASSUME NEW t \in Sessions PROVE SentOK(t)' /\ DecidedOK(t)'
  <2>1. CASE t = s
    BY <1>2, <2>1, IdleType DEF SentOK, DecidedOK
  <2>2. CASE t # s
    BY <1>2, <2>2, DecisionStands DEF KeptForOthers
  <2> QED
    BY <2>1, <2>2
<1>5. proofs' \in 0 .. MaxProofs
  BY DEF SessionsOK
<1> QED
  BY <1>2, <1>3, <1>4, <1>5 DEF SessionsOK

\* A session that decides about a free cabal is the only one to decide about it.
LEMMA DecideOK ==
    ASSUME SessionsOK, NEW s \in Sessions, NEW c \in Cabals, Free(c), Decide(s, c),
           session[s].step = "sent", UNCHANGED proofs, KeptForOthers(s),
           DecidedOK(s)'
    PROVE  SessionsOK'
<1>1. /\ session \in [Sessions -> SessionType] /\ session[s] \in SessionType
      /\ session' = [session EXCEPT ![s] = [[@ EXCEPT !.step = "decided"] EXCEPT !.on = c]]
  BY DEF SessionsOK, Decide
<1> DEFINE r == [[session[s] EXCEPT !.step = "decided"] EXCEPT !.on = c]
<1>2. r \in SessionType /\ r.step = "decided" /\ r.on = c
  BY <1>1 DEF SessionType
<1> HIDE DEF r
<1>3. /\ session' \in [Sessions -> SessionType] /\ session'[s] = r
      /\ \A t \in Sessions \ {s} : session'[t] = session[t]
  BY <1>1, <1>2 DEF r
<1>4. OneDecides'
  <2>1. \A t \in Sessions \ {s} : ~(session'[t].step = "decided" /\ session'[t].on = c)
    BY <1>3 DEF Free
  <2>2. ASSUME NEW t \in Sessions \ {s}, NEW u \in Sessions \ {s},
               session'[t].step = "decided", session'[u].step = "decided",
               session'[t].on = session'[u].on
        PROVE  t = u
    <3>1. session[t].step = "decided" /\ session[u].step = "decided" /\ session[t].on = session[u].on
      BY <1>3, <2>2
    <3>2. OneDecides
      BY DEF SessionsOK
    <3> QED
      BY <3>1, <3>2 DEF OneDecides
  <2>3. SUFFICES ASSUME NEW t \in Sessions, NEW u \in Sessions,
                        session'[t].step = "decided", session'[u].step = "decided",
                        session'[t].on = session'[u].on
                 PROVE  t = u
    BY DEF OneDecides
  <2>4. CASE t = s
    BY <1>2, <1>3, <2>1, <2>3, <2>4
  <2>5. CASE t # s
    <3>1. u # s
      BY <1>2, <1>3, <2>1, <2>3, <2>5
    <3> QED
      BY <2>2, <2>3, <2>5, <3>1
  <2> QED
    BY <2>4, <2>5
<1>5. ASSUME NEW t \in Sessions PROVE SentOK(t)' /\ DecidedOK(t)'
  <2>1. CASE t = s
    BY <1>2, <1>3, <2>1 DEF SentOK
  <2>2. CASE t # s
    BY <1>3, <2>2, DecisionStands DEF KeptForOthers
  <2> QED
    BY <2>1, <2>2
<1>6. proofs' \in 0 .. MaxProofs
  BY DEF SessionsOK
<1> QED
  BY <1>3, <1>4, <1>5, <1>6 DEF SessionsOK

\* What a session that has decided writes in its own cabal's rows is nobody else's.
LEMMA OwnRowsOnly ==
    ASSUME SessionsOK, NEW s \in Sessions, session[s].step = "decided",
           \A c \in Cabals \ {session[s].on} : Kept(c)
    PROVE  KeptForOthers(s)
<1> SUFFICES ASSUME NEW t \in Sessions \ {s}, session[t].step = "decided"
             PROVE  Kept(session[t].on)
  BY DEF KeptForOthers
<1>1. session[t].on \in Cabals /\ session[t].on # session[s].on
  BY DEF SessionsOK, OneDecides, DecidedOK
<1> QED
  BY <1>1

\* What is written in the rows of a free cabal is no decision's.
LEMMA FreeRowsOnly ==
    ASSUME SessionsOK, NEW s \in Sessions, NEW d \in Cabals, Free(d),
           \A c \in Cabals \ {d} : Kept(c)
    PROVE  KeptForOthers(s)
<1> SUFFICES ASSUME NEW t \in Sessions \ {s}, session[t].step = "decided"
             PROVE  Kept(session[t].on)
  BY DEF KeptForOthers
<1>1. session[t].on \in Cabals /\ session[t].on # d
  BY DEF SessionsOK, DecidedOK, Free
<1> QED
  BY <1>1

\* Tables that nobody writes keep everything.
LEMMA NothingWritten ==
    ASSUME UNCHANGED <<status, tag, leader, deputies, member, canSign, asked, offer>>
    PROVE  /\ \A c \in Cabals : Kept(c)
           /\ TablesOK => TablesOK'
  BY DEF Kept, TablesOK, AbsentIsEmpty, SeatsAreFinite, SeatsAreSound

\* A request that is sent changes no table.
LEMMA SendOK ==
    ASSUME IInv, NEW s \in Sessions, NEW r \in SessionType, Send(s, r), r.step = "sent", Shape(r)
    PROVE  IInv'
<1>1. TablesOK /\ SessionsOK
  BY TwoParts
<1>2. session' = [session EXCEPT ![s] = r] /\ proofs' = proofs + 1 /\ proofs < MaxProofs
  BY DEF Send
<1>3. TablesOK' /\ \A c \in Cabals : Kept(c)
  BY <1>1, NothingWritten DEF Send
<1>4. /\ session' \in [Sessions -> SessionType] /\ session'[s] = r
      /\ \A t \in Sessions \ {s} : session'[t] = session[t]
  BY <1>1, <1>2 DEF SessionsOK
<1>5. OneDecides'
  BY <1>1, <1>4 DEF SessionsOK, OneDecides
<1>6. ASSUME NEW t \in Sessions PROVE SentOK(t)' /\ DecidedOK(t)'
  <2>1. CASE t = s
    BY <1>4, <2>1 DEF SentOK, DecidedOK
  <2>2. CASE t # s
    <3>1. session[t].step = "decided" => session[t].on \in Cabals
      BY <1>1 DEF SessionsOK, DecidedOK
    <3> QED
      BY <1>1, <1>3, <1>4, <2>2, <3>1, DecisionStands
  <2> QED
    BY <2>1, <2>2
<1>7. proofs' \in 0 .. MaxProofs
  <2>1. proofs \in 0 .. MaxProofs
    BY <1>1 DEF SessionsOK
  <2> QED
    BY <1>2, <2>1, BoundAssumption
<1> QED
  BY <1>3, <1>4, <1>5, <1>6, <1>7, TwoPartsPrimed DEF SessionsOK

-----------------------------------------------------------------------------
(* What is sent.                                                           *)

LEMMA AskAsLeaderOK == ASSUME IInv, NEW s \in Sessions, AskAsLeader(s) PROVE IInv'
<1>1. PICK k \in canSign, x \in Kols, act \in AsEither \cup AsLeader :
         LET leads == {c \in Cabals : status[c] = "live" /\ leader[c] = k}
             deputyOf == {c \in Cabals : status[c] = "live" /\ act \in AsEither /\ k \in deputies[c]}
         IN  Send(s, [Idle EXCEPT !.step = "sent", !.act = act, !.who = k, !.whom = x,
                                  !.seen = [leads |-> leads, deputyOf |-> deputyOf]])
  BY DEF AskAsLeader
<1> DEFINE leads == {c \in Cabals : status[c] = "live" /\ leader[c] = k}
           deputyOf == {c \in Cabals : status[c] = "live" /\ act \in AsEither /\ k \in deputies[c]}
<1>2. PICK seen : seen = [leads |-> leads, deputyOf |-> deputyOf]
  OBVIOUS
<1>3. seen \in Led /\ (act \in AsLeader => seen.deputyOf = {})
  BY <1>2 DEF Led, AsLeader, AsEither
<1>4. Send(s, [Idle EXCEPT !.step = "sent", !.act = act, !.who = k, !.whom = x, !.seen = seen])
  BY <1>1, <1>2
<1> HIDE DEF leads, deputyOf
<1>5. PICK r : r = [Idle EXCEPT !.step = "sent", !.act = act, !.who = k, !.whom = x, !.seen = seen]
  OBVIOUS
<1>6. Send(s, r)
  BY <1>4, <1>5
<1>7. r = [step |-> "sent", act |-> act, who |-> k, whom |-> x,
            on |-> NoCabal, tag |-> NoTag, seen |-> seen]
  BY <1>5 DEF Idle
<1>8. k \in Kols
  BY DEF IInv, TypeOK
<1>9. r \in SessionType
  BY <1>3, <1>8, <1>7 DEF SessionType
<1>10. r.step = "sent" /\ Shape(r)
  BY <1>3, <1>8, <1>7 DEF Shape, AsEither, AsLeader
<1> QED
  BY <1>6, <1>9, <1>10, SendOK

LEMMA AskOnTagOK ==
    ASSUME IInv, NEW s \in Sessions,
           AskCreate(s) \/ AskJoin(s) \/ AskClaim(s) \/ AskDissolve(s) \/ AskNominate(s)
    PROVE  IInv'
<1>1. /\ canSign \subseteq Kols /\ tag \in [Cabals -> Tags \cup {NoTag}]
      /\ \A c \in Cabals : Snapshot(c) \in Joined
  BY DEF IInv, TypeOK, Snapshot, Joined
<1>2. Nothing \in Led
  BY DEF Nothing, Led
<1>3. CASE AskCreate(s)
  <2>1. PICK k \in canSign, t \in Tags :
           Send(s, [Idle EXCEPT !.step = "sent", !.act = "crear cabal", !.who = k, !.tag = t])
    BY <1>3 DEF AskCreate
  <2>2. PICK r : r = [Idle EXCEPT !.step = "sent", !.act = "crear cabal", !.who = k, !.tag = t]
    OBVIOUS
  <2>3. Send(s, r) /\ k \in Kols
    BY <1>1, <2>1, <2>2
  <2>4. r = [step |-> "sent", act |-> "crear cabal", who |-> k, whom |-> NoOne,
              on |-> NoCabal, tag |-> t, seen |-> Nothing]
    BY <2>2 DEF Idle
  <2>5. r \in SessionType
    BY <1>2, <2>3, <2>4 DEF SessionType, ByTag
  <2>6. r.step = "sent" /\ Shape(r)
    BY <2>3, <2>4 DEF Shape, AsEither, AsLeader
  <2> QED
    BY <2>3, <2>5, <2>6, SendOK
<1>4. CASE AskJoin(s)
  <2>1. PICK k \in canSign, c \in Cabals :
           Send(s, [Idle EXCEPT !.step = "sent", !.act = "pedir entrar", !.who = k, !.on = c])
    BY <1>4 DEF AskJoin
  <2>2. PICK r : r = [Idle EXCEPT !.step = "sent", !.act = "pedir entrar", !.who = k, !.on = c]
    OBVIOUS
  <2>3. Send(s, r) /\ k \in Kols
    BY <1>1, <2>1, <2>2
  <2>4. r = [step |-> "sent", act |-> "pedir entrar", who |-> k, whom |-> NoOne,
              on |-> c, tag |-> NoTag, seen |-> Nothing]
    BY <2>2 DEF Idle
  <2>5. r \in SessionType
    BY <1>2, <2>3, <2>4 DEF SessionType, ByTag
  <2>6. r.step = "sent" /\ Shape(r)
    BY <2>3, <2>4 DEF Shape, AsEither, AsLeader
  <2> QED
    BY <2>3, <2>5, <2>6, SendOK
<1>5. CASE AskClaim(s)
  <2>1. PICK k \in canSign, c \in Cabals :
           Send(s, [Idle EXCEPT !.step = "sent", !.act = "reclamar cabal", !.who = k,
                                !.on = c, !.tag = tag[c], !.seen = Snapshot(c)])
    BY <1>5 DEF AskClaim
  <2>2. PICK r : r = [Idle EXCEPT !.step = "sent", !.act = "reclamar cabal", !.who = k, !.on = c,
                                    !.tag = tag[c], !.seen = Snapshot(c)]
    OBVIOUS
  <2>3. Send(s, r) /\ k \in Kols /\ tag[c] \in Tags \cup {NoTag} /\ Snapshot(c) \in Joined
    BY <1>1, <2>1, <2>2
  <2>4. r = [step |-> "sent", act |-> "reclamar cabal", who |-> k, whom |-> NoOne,
              on |-> c, tag |-> tag[c], seen |-> Snapshot(c)]
    BY <2>2 DEF Idle
  <2>5. r \in SessionType
    BY <2>3, <2>4 DEF SessionType, ByTag
  <2>6. r.step = "sent" /\ Shape(r)
    BY <2>3, <2>4 DEF Shape, AsEither, AsLeader
  <2> QED
    BY <2>3, <2>5, <2>6, SendOK
<1>6. CASE AskDissolve(s)
  <2>1. PICK k \in canSign, c \in Cabals :
           Send(s, [Idle EXCEPT !.step = "sent", !.act = "disolver cabal", !.who = k,
                                !.on = c, !.tag = tag[c]])
    BY <1>6 DEF AskDissolve
  <2>2. PICK r : r = [Idle EXCEPT !.step = "sent", !.act = "disolver cabal", !.who = k, !.on = c,
                                    !.tag = tag[c]]
    OBVIOUS
  <2>3. Send(s, r) /\ k \in Kols /\ tag[c] \in Tags \cup {NoTag}
    BY <1>1, <2>1, <2>2
  <2>4. r = [step |-> "sent", act |-> "disolver cabal", who |-> k, whom |-> NoOne,
              on |-> c, tag |-> tag[c], seen |-> Nothing]
    BY <2>2 DEF Idle
  <2>5. r \in SessionType
    BY <1>2, <2>3, <2>4 DEF SessionType, ByTag
  <2>6. r.step = "sent" /\ Shape(r)
    BY <2>3, <2>4 DEF Shape, AsEither, AsLeader
  <2> QED
    BY <2>3, <2>5, <2>6, SendOK
<1>7. CASE AskNominate(s)
  <2>1. PICK c \in Cabals, x \in Kols :
           Send(s, [Idle EXCEPT !.step = "sent", !.act = "nominar", !.whom = x,
                                !.on = c, !.seen = Snapshot(c)])
    BY <1>7 DEF AskNominate
  <2>2. PICK r : r = [Idle EXCEPT !.step = "sent", !.act = "nominar", !.whom = x, !.on = c,
                                    !.seen = Snapshot(c)]
    OBVIOUS
  <2>3. Send(s, r) /\ Snapshot(c) \in Joined
    BY <1>1, <2>1, <2>2
  <2>4. r = [step |-> "sent", act |-> "nominar", who |-> NoOne, whom |-> x, on |-> c,
              tag |-> NoTag, seen |-> Snapshot(c)]
    BY <2>2 DEF Idle
  <2>5. r \in SessionType
    BY <2>3, <2>4 DEF SessionType, ByTag
  <2>6. r.step = "sent" /\ Shape(r)
    BY <2>3, <2>4 DEF Shape, AsEither, AsLeader
  <2> QED
    BY <2>3, <2>5, <2>6, SendOK
<1> QED
  BY <1>3, <1>4, <1>5, <1>6, <1>7

-----------------------------------------------------------------------------
(* What is decided.                                                        *)

\* What Allowed says of each action, under the lock of a cabal that is led.
LEMMA LockAsLeaderOK == ASSUME IInv, NEW s \in Sessions, LockAsLeader(s) PROVE IInv'
<1>1. TablesOK /\ SessionsOK
  BY TwoParts
<1>2. TablesOK' /\ \A c \in Cabals : Kept(c)
  BY <1>1, NothingWritten DEF LockAsLeader
<1>3. KeptForOthers(s)
  BY <1>1, <1>2 DEF KeptForOthers, SessionsOK, DecidedOK
<1>4. CASE End(s)
  BY <1>1, <1>2, <1>3, <1>4, EndOK, TwoPartsPrimed DEF LockAsLeader
<1>5. ASSUME ~End(s) PROVE SessionsOK'
  <2> DEFINE r == session[s]
             found == r.seen.leads \cup r.seen.deputyOf
  <2>1. /\ r.step = "sent" /\ r.act \in AsEither \cup AsLeader
        /\ r.seen \in Led /\ r.who \in Kols /\ r.whom \in Kols
        /\ r.act \in AsLeader => r.seen.deputyOf = {}
    BY <1>1 DEF LockAsLeader, SessionsOK, SentOK, Shape
  <2>2. PICK c \in found : /\ StillLeads(c, r) /\ Free(c)
                           /\ Allowed(r.act, c, r.who, r.whom) /\ Decide(s, c)
    BY <1>5 DEF LockAsLeader
  <2>3. c \in Cabals
    BY <2>1, <2>2 DEF Led
  <2>4. r.act \in AsLeader => leader[c] = r.who
    BY <2>1, <2>2 DEF StillLeads
  <2>5. status[c] = "live"
    BY <2>2 DEF StillLeads
  <2>6. /\ session'[s].act = r.act /\ session'[s].who = r.who /\ session'[s].whom = r.whom
        /\ session'[s].on = c
    <3>1. session \in [Sessions -> SessionType]
      BY <1>1 DEF SessionsOK
    <3>2. session' = [session EXCEPT ![s] = [[@ EXCEPT !.step = "decided"] EXCEPT !.on = c]]
      BY <2>2 DEF Decide
    <3> QED
      BY <3>1, <3>2 DEF SessionType
  <2>7. r.act = "aceptar solicitud" => <<c, r.whom>> \in asked
    BY <2>2 DEF Allowed, Applied
  <2>8. r.act = "nombrar co-lider" => Cardinality(deputies[c]) < 2 /\ r.whom # leader[c]
    BY <2>2, <2>4 DEF Allowed, AsLeader
  <2>9. r.act = "transferir el cabal" => r.who = leader[c]
    BY <2>4 DEF AsLeader
  <2>10. DecidedOK(s)'
    <3>1. /\ status' = status /\ leader' = leader /\ deputies' = deputies
          /\ asked' = asked /\ offer' = offer
      BY DEF LockAsLeader
    <3>2. r.act # "reclamar cabal"
      BY <2>1 DEF AsEither, AsLeader
    <3> HIDE DEF r
    <3> QED
      BY <2>1, <2>3, <2>5, <2>6, <2>7, <2>8, <2>9, <3>1, <3>2 DEF DecidedOK
  <2> QED
    BY <1>1, <1>3, <2>1, <2>2, <2>3, <2>10, DecideOK DEF LockAsLeader
<1> QED
  BY <1>1, <1>2, <1>3, <1>4, <1>5, EndOK, TwoPartsPrimed

\* The claim is decided for whom the offer names; an offer that has expired ends here.
LEMMA LockClaimOK == ASSUME IInv, NEW s \in Sessions, LockClaim(s) PROVE IInv'
<1> DEFINE r == session[s]
           c == session[s].on
<1>1. TablesOK /\ SessionsOK
  BY TwoParts
<1>2. /\ r.step = "sent" /\ r.act = "reclamar cabal" /\ Free(c)
      /\ c \in Cabals /\ r.who \in Kols
  BY <1>1 DEF LockClaim, Sent, SessionsOK, SentOK, Shape
<1>3. CASE offer' = [offer EXCEPT ![c] = NoOffer] /\ End(s)
  <2>1. /\ UNCHANGED <<status, tag, leader, deputies, member, canSign, asked, proofs>>
        /\ NoOffer \in Offers
    BY DEF LockClaim, NoOffer, Offers
  <2>2. TablesOK'
    BY <1>1, <1>2, <1>3, <2>1 DEF TablesOK, AbsentIsEmpty, SeatsAreFinite, SeatsAreSound
  <2>3. \A d \in Cabals \ {c} : Kept(d)
    BY <1>1, <1>2, <1>3, <2>1 DEF TablesOK, Kept
  <2> QED
    BY <1>1, <1>2, <1>3, <2>1, <2>2, <2>3, FreeRowsOnly, EndOK, TwoPartsPrimed
<1>4. CASE UNCHANGED offer
  <2>1. UNCHANGED <<status, tag, leader, deputies, member, canSign, asked, offer>> /\ UNCHANGED proofs
    BY <1>4 DEF LockClaim
  <2>2. TablesOK' /\ \A d \in Cabals : Kept(d)
    BY <1>1, <2>1, NothingWritten
  <2>3. KeptForOthers(s)
    BY <1>1, <2>2 DEF KeptForOthers, SessionsOK, DecidedOK
  <2>4. CASE End(s)
    BY <1>1, <2>1, <2>2, <2>3, <2>4, EndOK, TwoPartsPrimed
  <2>5. ASSUME ~End(s) PROVE SessionsOK'
    <3>1. /\ offer[c].to = r.who /\ status[c] = "live" /\ Decide(s, c)
      BY <2>5 DEF LockClaim, Orphaned
    <3>2. session \in [Sessions -> SessionType]
      BY <1>1 DEF SessionsOK
    <3>3. session' = [session EXCEPT ![s] = [[@ EXCEPT !.step = "decided"] EXCEPT !.on = c]]
      BY <3>1 DEF Decide
    <3>4. session'[s].act = "reclamar cabal" /\ session'[s].who = r.who /\ session'[s].on = c
      BY <1>2, <3>2, <3>3 DEF SessionType
    <3>5. DecidedOK(s)'
      BY <1>2, <2>1, <3>1, <3>4 DEF DecidedOK
    <3> QED
      BY <1>1, <1>2, <2>1, <2>3, <3>1, <3>5, DecideOK
  <2> QED
    BY <2>2, <2>4, <2>5, TwoPartsPrimed
<1> QED
  BY <1>3, <1>4 DEF LockClaim

-----------------------------------------------------------------------------
(* What is written.                                                        *)

\* A session that has decided writes in the rows of its cabal and ends.
LEMMA WriteOK ==
    ASSUME IInv, NEW s \in Sessions, session[s].step = "decided", End(s), UNCHANGED proofs,
           TablesOK', \A d \in Cabals \ {session[s].on} : Kept(d)
    PROVE  IInv'
<1>1. TablesOK /\ SessionsOK
  BY TwoParts
<1>2. KeptForOthers(s)
  BY <1>1, OwnRowsOnly
<1> QED
  BY <1>1, <1>2, EndOK, TwoPartsPrimed

\* A session that takes a free cabal and writes in one statement ends as well.
LEMMA WriteFreeOK ==
    ASSUME IInv, NEW s \in Sessions, NEW c \in Cabals, Free(c), End(s), UNCHANGED proofs,
           TablesOK', \A d \in Cabals \ {c} : Kept(d)
    PROVE  IInv'
<1>1. TablesOK /\ SessionsOK
  BY TwoParts
<1>2. KeptForOthers(s)
  BY <1>1, FreeRowsOnly
<1> QED
  BY <1>1, <1>2, EndOK, TwoPartsPrimed

\* What no session does leaves the sessions as they are.
LEMMA BesideOK ==
    ASSUME IInv, UNCHANGED <<session, proofs>>, TablesOK', \A d \in Cabals : Kept(d)
    PROVE  IInv'
<1>1. TablesOK /\ SessionsOK
  BY TwoParts
<1>2. OneDecides'
  BY <1>1 DEF SessionsOK, OneDecides
<1>3. ASSUME NEW t \in Sessions PROVE SentOK(t)' /\ DecidedOK(t)'
  <2>1. session[t].step = "decided" => session[t].on \in Cabals
    BY <1>1 DEF SessionsOK, DecidedOK
  <2> QED
    BY <1>1, <2>1, DecisionStands
<1> QED
  BY <1>1, <1>2, <1>3, TwoPartsPrimed DEF SessionsOK

\* The seats are as sound as they were when no seat changes.
LEMMA SameSeats ==
    ASSUME TablesOK, UNCHANGED <<status, leader, deputies>>,
           tag' \in [Cabals -> Tags \cup {NoTag}],
           member' \in [Kols -> Cabals \cup {NoCabal}],
           canSign' \subseteq Kols, asked' \subseteq Cabals \X Kols, offer' \in [Cabals -> Offers]
    PROVE  TablesOK'
  BY DEF TablesOK, AbsentIsEmpty, SeatsAreFinite, SeatsAreSound

\* A deputy less.
LEMMA FewerDeputies ==
    ASSUME TablesOK, NEW c \in Cabals, NEW x, deputies' = [deputies EXCEPT ![c] = @ \ {x}]
    PROVE  /\ deputies' \in [Cabals -> SUBSET Kols]
           /\ x \notin deputies'[c]
           /\ \A d \in Cabals : deputies'[d] \subseteq deputies[d]
           /\ \A d \in Cabals \ {c} : deputies'[d] = deputies[d]
           /\ \A d \in Cabals : IsFiniteSet(deputies'[d]) /\ Cardinality(deputies'[d]) <= 2
<1>1. deputies \in [Cabals -> SUBSET Kols]
  BY DEF TablesOK
<1>2. /\ deputies' \in [Cabals -> SUBSET Kols]
      /\ x \notin deputies'[c]
      /\ \A d \in Cabals : deputies'[d] \subseteq deputies[d]
      /\ \A d \in Cabals \ {c} : deputies'[d] = deputies[d]
  BY <1>1
<1>3. ASSUME NEW d \in Cabals PROVE IsFiniteSet(deputies'[d]) /\ Cardinality(deputies'[d]) <= 2
  <2>1. IsFiniteSet(deputies[d]) /\ Cardinality(deputies[d]) <= 2
    BY DEF TablesOK, SeatsAreFinite, SeatsAreSound
  <2>2. /\ IsFiniteSet(deputies'[d]) /\ Cardinality(deputies'[d]) <= Cardinality(deputies[d])
    BY <1>2, <2>1, FS_Subset
  <2>3. Cardinality(deputies'[d]) \in Nat /\ Cardinality(deputies[d]) \in Nat
    BY <2>1, <2>2, FS_CardinalityType
  <2> QED
    BY <2>1, <2>2, <2>3
<1> QED
  BY <1>2, <1>3

\* A new leader who is no deputy of the cabal any more.
LEMMA NewLeader ==
    ASSUME TablesOK, NEW c \in Cabals, NEW x \in Kols, status[c] = "live",
           deputies' = [deputies EXCEPT ![c] = @ \ {x}],
           leader' = [leader EXCEPT ![c] = x], UNCHANGED <<status, tag, canSign, asked>>,
           member' \in [Kols -> Cabals \cup {NoCabal}], offer' \in [Cabals -> Offers]
    PROVE  TablesOK'
<1>1. /\ status' = status /\ leader \in [Cabals -> Kols \cup {NoOne}]
      /\ leader' \in [Cabals -> Kols \cup {NoOne}] /\ leader'[c] = x
      /\ \A d \in Cabals \ {c} : leader'[d] = leader[d]
  BY DEF TablesOK
<1>2. AbsentIsEmpty' /\ SeatsAreFinite'
  BY <1>1, FewerDeputies DEF TablesOK, AbsentIsEmpty, SeatsAreFinite
<1>3. SeatsAreSound'
  <2> SUFFICES ASSUME NEW d \in Cabals
               PROVE  /\ Cardinality(deputies'[d]) <= 2
                      /\ leader'[d] \notin deputies'[d]
                      /\ \A e \in Cabals \ {d} : deputies'[d] \cap deputies'[e] = {}
    BY DEF SeatsAreSound
  <2>1. leader'[d] \notin deputies'[d]
    BY <1>1, FewerDeputies DEF TablesOK, SeatsAreSound
  <2>2. ASSUME NEW e \in Cabals \ {d} PROVE deputies'[d] \cap deputies'[e] = {}
    <3>1. deputies[d] \cap deputies[e] = {}
      BY DEF TablesOK, SeatsAreSound
    <3> QED
      BY <3>1, FewerDeputies
  <2> QED
    BY <2>1, <2>2, FewerDeputies
<1> QED
  BY <1>1, <1>2, <1>3, FewerDeputies DEF TablesOK

\* Accept and Reject answer a request that is pending in their own cabal.
LEMMA AnswerOK == ASSUME IInv, NEW s \in Sessions, Accept(s) \/ Reject(s) PROVE IInv'
<1> DEFINE c == session[s].on
           x == session[s].whom
<1>1. TablesOK /\ SessionsOK
  BY TwoParts
<1>2. session[s].step = "decided" /\ c \in Cabals /\ x \in Kols
  BY <1>1 DEF Accept, Reject, Decided, SessionsOK, DecidedOK
<1>3. /\ asked' = asked \ {<<c, x>>} /\ (member' = member \/ member' = [member EXCEPT ![x] = c])
      /\ End(s) /\ UNCHANGED <<status, tag, leader, deputies, canSign, offer, proofs>>
  BY DEF Accept, Reject
<1>4. TablesOK'
  BY <1>1, <1>2, <1>3, SameSeats DEF TablesOK
<1>5. \A d \in Cabals \ {c} : Kept(d)
  BY <1>3 DEF Kept
<1> QED
  BY <1>2, <1>3, <1>4, <1>5, WriteOK

\* Expel and Revoke take a seat.
LEMMA FewerOK == ASSUME IInv, NEW s \in Sessions, Expel(s) \/ Revoke(s) PROVE IInv'
<1> DEFINE c == session[s].on
           x == session[s].whom
<1>1. TablesOK /\ SessionsOK
  BY TwoParts
<1>2. session[s].step = "decided" /\ c \in Cabals /\ x \in Kols /\ status[c] = "live"
  BY <1>1 DEF Expel, Revoke, Decided, SessionsOK, DecidedOK
<1>3. /\ deputies' = [deputies EXCEPT ![c] = @ \ {x}]
      /\ member' = member \/ member' = [member EXCEPT ![x] = NoCabal]
      /\ End(s) /\ UNCHANGED <<status, tag, leader, canSign, asked, offer, proofs>>
  BY DEF Expel, Revoke
<1>4. TablesOK'
  <2>1. member' \in [Kols -> Cabals \cup {NoCabal}]
    BY <1>1, <1>3 DEF TablesOK
  <2>2. AbsentIsEmpty' /\ SeatsAreFinite'
    BY <1>1, <1>2, <1>3, FewerDeputies DEF TablesOK, AbsentIsEmpty, SeatsAreFinite
  <2>3. SeatsAreSound'
    BY <1>1, <1>2, <1>3, FewerDeputies DEF TablesOK, SeatsAreSound
  <2> QED
    BY <1>1, <1>2, <1>3, <2>1, <2>2, <2>3, FewerDeputies DEF TablesOK
<1>5. \A d \in Cabals \ {c} : Kept(d)
  BY <1>1, <1>2, <1>3, FewerDeputies DEF Kept
<1> QED
  BY <1>2, <1>3, <1>4, <1>5, WriteOK

LEMMA TransferOK == ASSUME IInv, NEW s \in Sessions, Transfer(s) PROVE IInv'
<1> DEFINE c == session[s].on
           x == session[s].whom
<1>1. TablesOK /\ SessionsOK
  BY TwoParts
<1>2. session[s].step = "decided" /\ c \in Cabals /\ x \in Kols /\ status[c] = "live"
  BY <1>1 DEF Transfer, Decided, SessionsOK, DecidedOK
<1>3. /\ deputies' = [deputies EXCEPT ![c] = @ \ {x}] /\ leader' = [leader EXCEPT ![c] = x]
      /\ End(s) /\ UNCHANGED <<status, tag, member, canSign, asked, offer, proofs>>
  BY DEF Transfer
<1>4. member' \in [Kols -> Cabals \cup {NoCabal}] /\ offer' \in [Cabals -> Offers]
  BY <1>1, <1>3 DEF TablesOK
<1>5. TablesOK'
  BY <1>1, <1>2, <1>3, <1>4, NewLeader
<1>6. \A d \in Cabals \ {c} : Kept(d)
  BY <1>1, <1>2, <1>3, FewerDeputies DEF Kept, TablesOK
<1> QED
  BY <1>2, <1>3, <1>5, <1>6, WriteOK

LEMMA ClaimOK == ASSUME IInv, NEW s \in Sessions, Claim(s) PROVE IInv'
<1> DEFINE c == session[s].on
           k == session[s].who
<1>1. TablesOK /\ SessionsOK
  BY TwoParts
<1>2. session[s].step = "decided" /\ c \in Cabals /\ k \in Kols /\ status[c] = "live"
  BY <1>1 DEF Claim, Decided, SessionsOK, DecidedOK
<1>3. /\ deputies' = [deputies EXCEPT ![c] = @ \ {k}] /\ leader' = [leader EXCEPT ![c] = k]
      /\ member' = [member EXCEPT ![k] = c] /\ offer' = [offer EXCEPT ![c] = NoOffer]
      /\ End(s) /\ UNCHANGED <<status, tag, canSign, asked, proofs>>
  BY DEF Claim
<1>4. member' \in [Kols -> Cabals \cup {NoCabal}] /\ offer' \in [Cabals -> Offers]
  BY <1>1, <1>2, <1>3 DEF TablesOK, NoOffer, Offers
<1>5. TablesOK'
  BY <1>1, <1>2, <1>3, <1>4, NewLeader
<1>6. \A d \in Cabals \ {c} : Kept(d)
  BY <1>1, <1>2, <1>3, FewerDeputies DEF Kept, TablesOK
<1> QED
  BY <1>2, <1>3, <1>5, <1>6, WriteOK

LEMMA AppointOK == ASSUME IInv, NEW s \in Sessions, Appoint(s) PROVE IInv'
<1> DEFINE c == session[s].on
           x == session[s].whom
<1>1. TablesOK /\ SessionsOK
  BY TwoParts
<1>2. /\ session[s].step = "decided" /\ c \in Cabals /\ x \in Kols /\ status[c] = "live"
      /\ Cardinality(deputies[c]) < 2 /\ x # leader[c]
  BY <1>1 DEF Appoint, Decided, SessionsOK, DecidedOK
<1>3. End(s) /\ UNCHANGED <<status, tag, leader, member, canSign, asked, offer, proofs>>
  BY DEF Appoint
<1>4. CASE deputies' = deputies
  <2>1. TablesOK' /\ \A d \in Cabals \ {c} : Kept(d)
    BY <1>1, <1>3, <1>4, SameSeats DEF TablesOK, Kept
  <2> QED
    BY <1>2, <1>3, <2>1, WriteOK
<1>5. CASE /\ deputies' = [deputies EXCEPT ![c] = @ \cup {x}]
           /\ \A d \in Cabals : x \notin deputies[d]
  <2>1. /\ deputies' \in [Cabals -> SUBSET Kols]
        /\ deputies'[c] = deputies[c] \cup {x}
        /\ \A d \in Cabals \ {c} : deputies'[d] = deputies[d]
    BY <1>1, <1>2, <1>5 DEF TablesOK
  <2>2. IsFiniteSet(deputies'[c]) /\ Cardinality(deputies'[c]) <= 2
    <3>1. IsFiniteSet(deputies[c]) /\ x \notin deputies[c]
      BY <1>1, <1>2, <1>5 DEF TablesOK, SeatsAreFinite
    <3>2. /\ IsFiniteSet(deputies'[c]) /\ Cardinality(deputies[c]) \in Nat
          /\ Cardinality(deputies'[c]) = Cardinality(deputies[c]) + 1
      BY <2>1, <3>1, FS_AddElement, FS_CardinalityType
    <3> QED
      BY <1>2, <3>2
  <2>3. AbsentIsEmpty' /\ SeatsAreFinite'
    BY <1>1, <1>2, <1>3, <2>1, <2>2 DEF TablesOK, AbsentIsEmpty, SeatsAreFinite
  <2>4. SeatsAreSound'
    <3> SUFFICES ASSUME NEW d \in Cabals
                 PROVE  /\ Cardinality(deputies'[d]) <= 2
                        /\ leader'[d] \notin deputies'[d]
                        /\ \A e \in Cabals \ {d} : deputies'[d] \cap deputies'[e] = {}
      BY DEF SeatsAreSound
    <3>1. /\ Cardinality(deputies[d]) <= 2 /\ leader[d] \notin deputies[d]
          /\ \A e \in Cabals \ {d} : deputies[d] \cap deputies[e] = {}
      BY <1>1 DEF TablesOK, SeatsAreSound
    <3>2. Cardinality(deputies'[d]) <= 2 /\ leader'[d] \notin deputies'[d]
      BY <1>2, <1>3, <2>1, <2>2, <3>1
    <3>3. ASSUME NEW e \in Cabals \ {d} PROVE deputies'[d] \cap deputies'[e] = {}
      BY <1>2, <1>5, <2>1, <3>1
    <3> QED
      BY <3>2, <3>3
  <2>5. TablesOK'
    BY <1>1, <1>3, <2>1, <2>3, <2>4 DEF TablesOK
  <2>6. \A d \in Cabals \ {c} : Kept(d)
    BY <1>3, <2>1 DEF Kept
  <2> QED
    BY <1>2, <1>3, <2>5, <2>6, WriteOK
<1> QED
  BY <1>4, <1>5 DEF Appoint

LEMMA CreateOK == ASSUME IInv, NEW s \in Sessions, Create(s) PROVE IInv'
<1> DEFINE k == session[s].who
           t == session[s].tag
<1>1. TablesOK /\ SessionsOK
  BY TwoParts
<1>2. k \in Kols /\ t \in Tags
  BY <1>1 DEF Create, Sent, SessionsOK, SentOK, Shape
<1>3. End(s) /\ UNCHANGED <<deputies, canSign, asked, offer, proofs>>
  BY DEF Create
<1>4. PICK c \in Cabals :
         /\ status[c] = "absent"
         /\ \/ UNCHANGED <<status, tag, leader, member>>
            \/ /\ status' = [status EXCEPT ![c] = "live"] /\ tag' = [tag EXCEPT ![c] = t]
               /\ leader' = [leader EXCEPT ![c] = k] /\ member' = [member EXCEPT ![k] = c]
  BY DEF Create
<1>5. Free(c)
  BY <1>1, <1>4 DEF Free, SessionsOK, DecidedOK
<1>6. deputies[c] = {} /\ leader[c] = NoOne
  BY <1>1, <1>4 DEF TablesOK, AbsentIsEmpty
<1>7. TablesOK' /\ \A d \in Cabals \ {c} : Kept(d)
  <2>1. CASE UNCHANGED <<status, tag, leader, member>>
    BY <1>1, <1>3, <2>1, SameSeats DEF TablesOK, Kept
  <2>2. CASE /\ status' = [status EXCEPT ![c] = "live"] /\ tag' = [tag EXCEPT ![c] = t]
             /\ leader' = [leader EXCEPT ![c] = k] /\ member' = [member EXCEPT ![k] = c]
    <3>1. AbsentIsEmpty' /\ SeatsAreFinite'
      BY <1>1, <1>3, <2>2 DEF TablesOK, AbsentIsEmpty, SeatsAreFinite
    <3>2. SeatsAreSound'
      BY <1>1, <1>3, <1>6, <2>2 DEF TablesOK, SeatsAreSound
    <3> QED
      BY <1>1, <1>2, <1>3, <1>4, <2>2, <3>1, <3>2 DEF TablesOK, Kept
  <2> QED
    BY <1>4, <2>1, <2>2
<1> QED
  BY <1>3, <1>5, <1>7, WriteFreeOK

\* Join, Dissolve and Nominate write in the row of a cabal that is free.
LEMMA OnFreeOK ==
    ASSUME IInv, NEW s \in Sessions, Join(s) \/ Dissolve(s) \/ Nominate(s)
    PROVE  IInv'
<1> DEFINE c == session[s].on
           r == session[s]
<1>1. TablesOK /\ SessionsOK
  BY TwoParts
<1>2. c \in Cabals /\ Free(c) /\ End(s) /\ UNCHANGED proofs
  BY <1>1 DEF Join, Dissolve, Nominate, Sent, SessionsOK, SentOK, Shape
<1>3. TablesOK' /\ \A d \in Cabals \ {c} : Kept(d)
  <2>1. CASE Join(s)
    <3>1. r.who \in Kols
      BY <1>1, <2>1 DEF Join, Sent, SessionsOK, SentOK, Shape
    <3>2. asked' = asked \cup {<<c, r.who>>}
          /\ UNCHANGED <<status, tag, leader, deputies, member, canSign, offer>>
      BY <2>1 DEF Join
    <3>3. TablesOK'
      BY <1>1, <1>2, <3>1, <3>2, SameSeats DEF TablesOK
    <3> QED
      BY <3>2, <3>3 DEF Kept
  <2>2. CASE Dissolve(s)
    <3>1. /\ status' = status \/ (status[c] = "live" /\ status' = [status EXCEPT ![c] = "dissolved"])
          /\ UNCHANGED <<tag, leader, deputies, member, canSign, asked, offer>>
      BY <2>2 DEF Dissolve
    <3>2. AbsentIsEmpty' /\ SeatsAreFinite' /\ SeatsAreSound'
      BY <1>1, <1>2, <3>1 DEF TablesOK, AbsentIsEmpty, SeatsAreFinite, SeatsAreSound
    <3> QED
      BY <1>1, <1>2, <3>1, <3>2 DEF TablesOK, Kept
  <2>3. CASE Nominate(s)
    <3>1. r.whom \in Kols
      BY <1>1, <2>3 DEF Nominate, Sent, SessionsOK, SentOK, Shape
    <3>2. /\ offer' = offer \/ offer' = [offer EXCEPT ![c] = [to |-> r.whom, expired |-> FALSE]]
          /\ UNCHANGED <<status, tag, leader, deputies, member, canSign, asked>>
      BY <2>3 DEF Nominate
    <3>3. [to |-> r.whom, expired |-> FALSE] \in Offers
      BY <3>1 DEF Offers
    <3>4. offer' \in [Cabals -> Offers]
      BY <1>1, <3>2, <3>3 DEF TablesOK
    <3>5. TablesOK'
      BY <1>1, <3>2, <3>4, SameSeats DEF TablesOK
    <3>6. ASSUME NEW d \in Cabals \ {c} PROVE offer'[d] = offer[d]
      BY <1>1, <3>2 DEF TablesOK
    <3> QED
      BY <3>2, <3>5, <3>6 DEF Kept
  <2> QED
    BY <2>1, <2>2, <2>3
<1> QED
  BY <1>2, <1>3, WriteFreeOK

LEMMA FailOK == ASSUME IInv, NEW s \in Sessions, Fail(s) PROVE IInv'
<1>1. TablesOK /\ SessionsOK
  BY TwoParts
<1>2. /\ UNCHANGED <<status, tag, leader, deputies, member, canSign, asked, offer>>
      /\ End(s) /\ UNCHANGED proofs
  BY DEF Fail
<1>3. TablesOK' /\ \A c \in Cabals : Kept(c)
  BY <1>1, <1>2, NothingWritten
<1>4. KeptForOthers(s)
  BY <1>1, <1>3 DEF KeptForOthers, SessionsOK, DecidedOK
<1> QED
  BY <1>1, <1>2, <1>3, <1>4, EndOK, TwoPartsPrimed

\* Wallets come and go, offers expire and tags are released beside every decision.
LEMMA OutsideOK ==
    ASSUME IInv, \/ \E k \in Kols : WithdrawWallet(k) \/ AddWallet(k)
                 \/ \E c \in Cabals : Expire(c) \/ ReleaseTag(c)
    PROVE  IInv'
<1>1. TablesOK
  BY TwoParts
<1>2. ASSUME NEW k \in Kols, WithdrawWallet(k) \/ AddWallet(k) PROVE IInv'
  <2>1. /\ canSign' \subseteq Kols
        /\ UNCHANGED <<status, tag, leader, deputies, member, asked, offer, session, proofs>>
    BY <1>1, <1>2 DEF WithdrawWallet, AddWallet, TablesOK
  <2>2. TablesOK' /\ \A d \in Cabals : Kept(d)
    BY <1>1, <2>1, SameSeats DEF TablesOK, Kept
  <2> QED
    BY <2>1, <2>2, BesideOK
<1>3. ASSUME NEW c \in Cabals, Expire(c) PROVE IInv'
  <2>1. /\ offer' = [offer EXCEPT ![c].expired = TRUE]
        /\ UNCHANGED <<status, tag, leader, deputies, member, canSign, asked, session, proofs>>
    BY <1>3 DEF Expire
  <2>2. offer \in [Cabals -> Offers] /\ offer' \in [Cabals -> Offers]
    BY <1>1, <2>1 DEF TablesOK, Offers
  <2>3. \A d \in Cabals : offer'[d].to = offer[d].to
    BY <2>1, <2>2 DEF Offers
  <2>4. TablesOK' /\ \A d \in Cabals : Kept(d)
    BY <1>1, <2>1, <2>2, <2>3, SameSeats DEF TablesOK, Kept
  <2> QED
    BY <2>1, <2>4, BesideOK
<1>4. ASSUME NEW c \in Cabals, ReleaseTag(c) PROVE IInv'
  <2>1. /\ tag' = [tag EXCEPT ![c] = NoTag]
        /\ UNCHANGED <<status, leader, deputies, member, canSign, asked, offer, session, proofs>>
    BY <1>4 DEF ReleaseTag
  <2>2. TablesOK' /\ \A d \in Cabals : Kept(d)
    BY <1>1, <2>1, SameSeats DEF TablesOK, Kept
  <2> QED
    BY <2>1, <2>2, BesideOK
<1> QED
  BY <1>2, <1>3, <1>4

-----------------------------------------------------------------------------
(* The invariant is one, and what it says.                                 *)

LEMMA SeatsStep == IInv /\ [Next]_vars => IInv'
<1> SUFFICES ASSUME IInv, [Next]_vars PROVE IInv'
  OBVIOUS
<1>1. CASE UNCHANGED vars
  <2>1. TablesOK' /\ \A d \in Cabals : Kept(d)
    BY <1>1, TwoParts, NothingWritten DEF vars
  <2> QED
    BY <1>1, <2>1, BesideOK DEF vars
<1>2. ASSUME NEW s \in Sessions,
             \/ AskAsLeader(s) \/ LockAsLeader(s)
             \/ Accept(s) \/ Reject(s) \/ Expel(s) \/ Transfer(s) \/ Appoint(s) \/ Revoke(s)
             \/ AskCreate(s) \/ Create(s) \/ AskJoin(s) \/ Join(s)
             \/ AskClaim(s) \/ LockClaim(s) \/ Claim(s)
             \/ AskDissolve(s) \/ Dissolve(s) \/ AskNominate(s) \/ Nominate(s)
             \/ Fail(s)
      PROVE  IInv'
  BY <1>2, AskAsLeaderOK, AskOnTagOK, LockAsLeaderOK, LockClaimOK, AnswerOK, FewerOK,
     TransferOK, ClaimOK, AppointOK, CreateOK, OnFreeOK, FailOK
<1> QED
  BY <1>1, <1>2, OutsideOK DEF Next

LEMMA SeatsBegin == Init => IInv
<1> SUFFICES ASSUME Init PROVE IInv
  OBVIOUS
<1>1. PICK c \in Cabals, t \in Tags, l \in Kols \cup {NoOne} :
         /\ status = [d \in Cabals |-> IF d = c THEN "live" ELSE "absent"]
         /\ tag = [d \in Cabals |-> IF d = c THEN t ELSE NoTag]
         /\ leader = [d \in Cabals |-> IF d = c THEN l ELSE NoOne]
         /\ deputies = [d \in Cabals |-> {}]
         /\ member \in [Kols -> {c, NoCabal}]
         /\ canSign = Kols
         /\ asked = {}
         /\ offer = [d \in Cabals |-> NoOffer]
         /\ session = [s \in Sessions |-> Idle]
         /\ proofs = 0
  BY DEF Init
<1>2. TypeOK
  BY <1>1, IdleType, BoundAssumption DEF TypeOK, NoOffer, Offers
<1>3. OneDecides /\ \A s \in Sessions : SentOK(s) /\ DecidedOK(s)
  BY <1>1, IdleType DEF OneDecides, SentOK, DecidedOK
<1>4. AbsentIsEmpty /\ SeatsAreFinite /\ SeatsAreSound
  BY <1>1, FS_EmptySet DEF AbsentIsEmpty, SeatsAreFinite, SeatsAreSound
<1> QED
  BY <1>2, <1>3, <1>4 DEF IInv

LEMMA SeatsInductive == Spec => []IInv
  BY SeatsBegin, SeatsStep, PTL DEF Spec

\* No cabal has three deputies, its own leader as one, or another's deputy
\* (migrations/020), for any KOLs, cabals and number of requests at once.
THEOREM SeatsStaySound == Spec => []SeatsAreSound
<1>1. IInv => SeatsAreSound
  BY DEF IInv
<1> QED
  BY <1>1, SeatsInductive, PTL

\* However many requests are being served, one at a time decides about a cabal
\* (the FOR UPDATE of cabal-actions.ts).
THEOREM OneAtATime == Spec => []OneDecides
<1>1. IInv => OneDecides
  BY DEF IInv
<1> QED
  BY <1>1, SeatsInductive, PTL

\* Only these actions write in a seat or a membership.
LEMMA WhoWrites ==
    ASSUME Next
    PROVE  \/ UNCHANGED <<status, leader, deputies, member>>
           \/ \E s \in Sessions : \/ Accept(s) \/ Expel(s) \/ Transfer(s) \/ Appoint(s) \/ Revoke(s)
                                  \/ Create(s) \/ Claim(s) \/ Dissolve(s)
<1>1. ASSUME NEW s \in Sessions,
             \/ AskAsLeader(s) \/ LockAsLeader(s) \/ Reject(s)
             \/ AskCreate(s) \/ AskJoin(s) \/ Join(s) \/ AskClaim(s) \/ LockClaim(s)
             \/ AskDissolve(s) \/ AskNominate(s) \/ Nominate(s) \/ Fail(s)
      PROVE  UNCHANGED <<status, leader, deputies, member>>
  BY <1>1 DEF AskAsLeader, LockAsLeader, Reject, AskCreate, AskJoin, Join, AskClaim, LockClaim,
              AskDissolve, AskNominate, Nominate, Fail, Send
<1>2. ASSUME NEW k \in Kols, WithdrawWallet(k) \/ AddWallet(k)
      PROVE  UNCHANGED <<status, leader, deputies, member>>
  BY <1>2 DEF WithdrawWallet, AddWallet
<1>3. ASSUME NEW c \in Cabals, Expire(c) \/ ReleaseTag(c)
      PROVE  UNCHANGED <<status, leader, deputies, member>>
  BY <1>3 DEF Expire, ReleaseTag
<1> QED
  BY <1>1, <1>2, <1>3 DEF Next

\* What a session that writes knows: its cabal is live, under its lock.
LEMMA Writing ==
    ASSUME IInv, NEW s \in Sessions,
           Accept(s) \/ Expel(s) \/ Transfer(s) \/ Appoint(s) \/ Revoke(s) \/ Claim(s)
    PROVE  /\ session[s].on \in Cabals /\ session[s].who \in Kols
           /\ status[session[s].on] = "live" /\ UNCHANGED status
           /\ DecidedOK(s) /\ session[s].step = "decided"
<1>1. session[s].step = "decided" /\ UNCHANGED status
  BY DEF Accept, Expel, Transfer, Appoint, Revoke, Claim, Decided
<1>2. DecidedOK(s)
  BY DEF IInv
<1> QED
  BY <1>1, <1>2 DEF DecidedOK

\* A dissolved cabal gets no leader, no deputy and no member, whatever was sent or
\* decided before it ended (dissolveCabal).
THEOREM DissolvedStaysDissolved == Spec => DissolvedIsFinal
<1> DEFINE Final == \A c \in Cabals : Ended(c) =>
                       /\ Ended(c)'
                       /\ leader'[c] = leader[c]
                       /\ deputies'[c] \subseteq deputies[c]
                       /\ \A k \in Kols : member'[k] = c => member[k] = c
<1>1. IInv /\ Next => Final
  <2> SUFFICES ASSUME IInv, Next, NEW c \in Cabals, status[c] = "dissolved"
               PROVE  /\ status'[c] = "dissolved"
                      /\ leader'[c] = leader[c]
                      /\ deputies'[c] \subseteq deputies[c]
                      /\ \A k \in Kols : member'[k] = c => member[k] = c
    BY DEF Ended
  <2>1. /\ status \in [Cabals -> {"absent", "live", "dissolved"}]
        /\ leader \in [Cabals -> Kols \cup {NoOne}] /\ deputies \in [Cabals -> SUBSET Kols]
        /\ member \in [Kols -> Cabals \cup {NoCabal}]
    BY DEF IInv, TypeOK
  <2>2. CASE UNCHANGED <<status, leader, deputies, member>>
    BY <2>2
  <2>3. ASSUME NEW s \in Sessions,
               Accept(s) \/ Expel(s) \/ Transfer(s) \/ Appoint(s) \/ Revoke(s) \/ Claim(s)
        PROVE  /\ status'[c] = "dissolved"
               /\ leader'[c] = leader[c]
               /\ deputies'[c] \subseteq deputies[c]
               /\ \A k \in Kols : member'[k] = c => member[k] = c
    <3>1. session[s].on # c /\ UNCHANGED status /\ session[s].on \in Cabals
      BY <2>3, Writing
    <3>2. /\ \/ leader' = leader
             \/ \E x : leader' = [leader EXCEPT ![session[s].on] = x]
          /\ \/ deputies' = deputies
             \/ \E S : deputies' = [deputies EXCEPT ![session[s].on] = S]
          /\ \/ member' = member
             \/ \E k, d : d \in {session[s].on, NoCabal} /\ member' = [member EXCEPT ![k] = d]
      BY <2>3 DEF Accept, Expel, Transfer, Appoint, Revoke, Claim
    <3> QED
      BY <2>1, <3>1, <3>2, KolAssumption
  <2>4. ASSUME NEW s \in Sessions, Create(s)
        PROVE  /\ status'[c] = "dissolved"
               /\ leader'[c] = leader[c]
               /\ deputies'[c] \subseteq deputies[c]
               /\ \A k \in Kols : member'[k] = c => member[k] = c
    <3>1. PICK d \in Cabals :
             /\ status[d] = "absent"
             /\ \/ UNCHANGED <<status, leader, member>>
                \/ /\ status' = [status EXCEPT ![d] = "live"]
                   /\ leader' = [leader EXCEPT ![d] = session[s].who]
                   /\ member' = [member EXCEPT ![session[s].who] = d]
      BY <2>4 DEF Create
    <3>2. UNCHANGED deputies /\ d # c
      BY <2>4, <3>1 DEF Create
    <3> QED
      BY <2>1, <3>1, <3>2
  <2>5. ASSUME NEW s \in Sessions, Dissolve(s)
        PROVE  status'[c] = "dissolved" /\ UNCHANGED <<leader, deputies, member>>
    BY <2>1, <2>5 DEF Dissolve
  <2> QED
    BY <2>2, <2>3, <2>4, <2>5, WhoWrites
<1>2. IInv /\ [Next]_vars => [Final]_vars
  BY <1>1
<1> QED
  BY <1>2, SeatsInductive, PTL DEF Spec, DissolvedIsFinal

\* A cabal that is led changes hands by its leader's transfer or by the claim of
\* the KOL its offer names, at the moment it is written (transfer, claimCabal).
THEOREM LeadershipIsHandedOn == Spec => LeaderIsHandedOn
<1> DEFINE Handed == \A c \in Cabals : leader[c] # NoOne /\ leader'[c] # leader[c] => HandedOn(c)
<1>1. IInv /\ Next => Handed
  <2> SUFFICES ASSUME IInv, Next, NEW c \in Cabals, leader[c] # NoOne, leader'[c] # leader[c]
               PROVE  HandedOn(c)
    OBVIOUS
  <2>1. leader \in [Cabals -> Kols \cup {NoOne}] /\ offer \in [Cabals -> Offers] /\ AbsentIsEmpty
    BY DEF IInv, TypeOK
  <2>2. ASSUME NEW s \in Sessions, Transfer(s) PROVE HandedOn(c)
    <3>1. leader' = [leader EXCEPT ![session[s].on] = session[s].whom]
      BY <2>2 DEF Transfer
    <3>2. session[s].on = c /\ Decided(s, "transferir el cabal")
      BY <2>1, <2>2, <3>1 DEF Transfer
    <3>3. session[s].who = leader[c]
      BY <2>2, <3>2, Writing DEF DecidedOK, Decided
    <3> QED
      BY <3>2, <3>3 DEF HandedOn
  <2>3. ASSUME NEW s \in Sessions, Claim(s) PROVE HandedOn(c)
    <3>1. /\ leader' = [leader EXCEPT ![session[s].on] = session[s].who]
          /\ offer' = [offer EXCEPT ![session[s].on] = NoOffer]
      BY <2>3 DEF Claim
    <3>2. session[s].on = c /\ leader'[c] = session[s].who /\ offer'[c] = NoOffer
      BY <2>1, <3>1
    <3>3. offer[c].to = session[s].who
      BY <2>3, <3>2, Writing DEF DecidedOK, Claim, Decided
    <3> QED
      BY <3>2, <3>3 DEF HandedOn
  <2>4. ASSUME NEW s \in Sessions, Create(s) PROVE FALSE
    <3>1. PICK d \in Cabals : /\ status[d] = "absent"
                              /\ \/ UNCHANGED leader
                                 \/ leader' = [leader EXCEPT ![d] = session[s].who]
      BY <2>4 DEF Create
    <3> QED
      BY <2>1, <3>1 DEF AbsentIsEmpty
  <2>5. ASSUME NEW s \in Sessions, Accept(s) \/ Expel(s) \/ Appoint(s) \/ Revoke(s) \/ Dissolve(s)
        PROVE  UNCHANGED leader
    BY <2>5 DEF Accept, Expel, Appoint, Revoke, Dissolve
  <2> QED
    BY <2>2, <2>3, <2>4, <2>5, WhoWrites
<1>2. IInv /\ [Next]_vars => [Handed]_vars
  BY <1>1 DEF vars
<1> QED
  BY <1>2, SeatsInductive, PTL DEF Spec, LeaderIsHandedOn

\* A KOL becomes a member by a request of theirs that is still pending when it is
\* accepted, or by what they signed themselves (decideRequest, createCabal, claimCabal).
THEOREM NobodyJoinsUnasked == Spec => NobodyIsEnrolled
<1> DEFINE Asked == \A k \in Kols, c \in Cabals : member'[k] = c /\ member[k] # c =>
                       \/ <<c, k>> \in asked
                       \/ \E s \in Sessions : session[s].step # "idle" /\ session[s].who = k
<1>1. IInv /\ Next => Asked
  <2> SUFFICES ASSUME IInv, Next, NEW k \in Kols, NEW c \in Cabals, member'[k] = c, member[k] # c
               PROVE  \/ <<c, k>> \in asked
                      \/ \E s \in Sessions : session[s].step # "idle" /\ session[s].who = k
    OBVIOUS
  <2>1. member \in [Kols -> Cabals \cup {NoCabal}]
    BY DEF IInv, TypeOK
  <2>2. ASSUME NEW s \in Sessions, Accept(s) PROVE <<c, k>> \in asked
    <3>1. member' = [member EXCEPT ![session[s].whom] = session[s].on]
      BY <2>2 DEF Accept
    <3>2. session[s].whom = k /\ session[s].on = c
      BY <2>1, <3>1
    <3> QED
      BY <2>2, <3>2, Writing DEF DecidedOK, Accept, Decided
  <2>3. ASSUME NEW s \in Sessions, Create(s) \/ Claim(s)
        PROVE  session[s].step # "idle" /\ session[s].who = k
    <3>1. session[s].step # "idle"
      BY <2>3 DEF Create, Claim, Sent, Decided
    <3>2. member' = member \/ \E d : member' = [member EXCEPT ![session[s].who] = d]
      BY <2>3 DEF Create, Claim
    <3> QED
      BY <2>1, <3>1, <3>2
  <2>4. ASSUME NEW s \in Sessions, Expel(s) PROVE FALSE
    <3>1. member' = [member EXCEPT ![session[s].whom] = NoCabal]
      BY <2>4 DEF Expel
    <3> QED
      BY <2>1, <3>1, KolAssumption
  <2>5. ASSUME NEW s \in Sessions, Transfer(s) \/ Appoint(s) \/ Revoke(s) \/ Dissolve(s)
        PROVE  UNCHANGED member
    BY <2>5 DEF Transfer, Appoint, Revoke, Dissolve
  <2> QED
    BY <2>2, <2>3, <2>4, <2>5, WhoWrites
<1>2. IInv /\ [Next]_vars => [Asked]_vars
  BY <1>1 DEF vars
<1> QED
  BY <1>2, SeatsInductive, PTL DEF Spec, NobodyIsEnrolled


-----------------------------------------------------------------------------
(* Accounts: the invariant.                                                *)

WalletType == [owner : Handles \cup {Nobody}, active : BOOLEAN, verified : BOOLEAN, vouched : BOOLEAN]

NonceType == [of : Addresses \cup {Nobody}, act : Acts, state : {"free", "issued", "used", "expired"}]

Steps == {"free", "burn", "create", "code", "session", "record", "approve",
          "mark", "find", "insert", "unverify", "signer", "retire", "dead"}

RequestType ==
    [op : {"none", "register", "create", "approve", "tweet", "paste", "validate", "withdraw"},
     step : Steps,
     kol : Handles \cup {Nobody}, addrs : SUBSET Addresses,
     left : SUBSET Nonces, status : {"pending", "approved"}]

\* A signature for a is there, spent or among those still to be.
Proven(a, act, left) ==
    \E n \in signed : nonce[n].of = a /\ nonce[n].act = act /\ (n \in left \/ nonce[n].state = "used")

\* A wallet of k was proved for a registration.
Enrolled(k) == \E a \in Addresses : wallet[a].owner = k /\ SignedFor(a, {"alta de perfil"})

\* What a handler relies on at the statement it has come to.
RequestOK(r) ==
    /\ r.op \in {"register", "create", "approve", "tweet", "paste"} => r.kol \in Handles
    /\ r.op = "register" => r.status = "pending"
    /\ r.op \in {"approve", "create"} => r.step \notin {"code", "session", "unverify"}
    /\ r.op = "register" /\ r.step \in {"burn", "create"} => r.addrs # {}
    /\ r.op = "register" /\ r.step = "burn" => \A a \in r.addrs : Proven(a, "alta de perfil", r.left)
    /\ r.op = "register" /\ r.step = "create" => \A a \in r.addrs : Proven(a, "alta de perfil", {})
    /\ r.op = "register" /\ r.step \in {"code", "session"} => Enrolled(r.kol)
    /\ r.op = "withdraw" /\ r.step = "burn" => \A a \in r.addrs : Proven(a, "retirar wallet", r.left)
    /\ r.op = "withdraw" /\ r.step \in {"signer", "retire"} =>
          \A a \in r.addrs : Proven(a, "retirar wallet", {})
    /\ r.op = "paste" => kol[r.kol] # "absent"
    /\ r.step # "free" => starts >= 1

WalletOK(a) ==
    wallet[a].owner # Nobody =>
        /\ kol[wallet[a].owner] # "absent"
        /\ wallet[a].verified /\ ~wallet[a].vouched =>
              SignedFor(a, {"alta de perfil", "agregar wallet"}) \/ HalfPasted(a)
        /\ ~wallet[a].active => SignedFor(a, {"retirar wallet"})

\* An approval is recorded, or one request and no other is about to, or died before.
DecisionOK(k) ==
    /\ kol[k] # "approved" => recorded[k] = 0 /\ Unrecorded(k) = {}
    /\ kol[k] = "approved" => \/ recorded[k] = 1 /\ Unrecorded(k) = {}
                              \/ recorded[k] = 0 /\ \E p \in Requests : Unrecorded(k) = {p}

AInv ==
    /\ AccountsTypeOK
    /\ \A n \in signed : nonce[n].state # "free"
    /\ \A p \in Requests : RequestOK(request[p])
    /\ \A a \in Addresses : WalletOK(a)
    /\ \A k \in Handles : login[k] # "none" => Enrolled(k)
    /\ \A k \in Handles : DecisionOK(k)
    /\ WalletsAreBounded

-----------------------------------------------------------------------------
(* Frames.                                                                 *)

Types(ko, co, tw, wa, no, si, lo, rc, st) ==
    /\ ko \in [Handles -> {"absent", "pending", "approved"}]
    /\ co \subseteq Handles /\ tw \subseteq Handles
    /\ wa \in [Addresses -> WalletType]
    /\ no \in [Nonces -> NonceType]
    /\ si \subseteq Nonces
    /\ lo \in [Handles -> {"none", "open", "closed"}]
    /\ rc \in [Handles -> 0 .. MaxStarts]
    /\ st \in 0 .. MaxStarts

LEMMA TypeIs ==
    AccountsTypeOK <=> /\ Types(kol, code, tweeted, wallet, nonce, signed, login, recorded, starts)
                       /\ request \in [Requests -> RequestType]
  BY DEF AccountsTypeOK, Types, WalletType, NonceType, RequestType, Steps

LEMMA TypeIsPrimed ==
    AccountsTypeOK' <=>
       /\ Types(kol', code', tweeted', wallet', nonce', signed', login', recorded', starts')
       /\ request' \in [Requests -> RequestType]
  BY DEF AccountsTypeOK, Types, WalletType, NonceType, RequestType, Steps

LEMMA TypesNow ==
    ASSUME AInv
    PROVE  /\ Types(kol, code, tweeted, wallet, nonce, signed, login, recorded, starts)
           /\ request \in [Requests -> RequestType]
           /\ nonce \in [Nonces -> NonceType] /\ signed \subseteq Nonces
           /\ wallet \in [Addresses -> WalletType] /\ code \subseteq Handles
           /\ starts \in Int /\ starts >= 0 /\ starts <= MaxStarts /\ MaxStarts \in Int
<1>1. /\ Types(kol, code, tweeted, wallet, nonce, signed, login, recorded, starts)
      /\ request \in [Requests -> RequestType]
  BY TypeIs DEF AInv
<1>2. starts \in 0 .. MaxStarts /\ MaxStarts \in Nat
  BY <1>1, AccountsBounds DEF Types
<1>3. starts \in Int /\ starts >= 0 /\ starts <= MaxStarts /\ MaxStarts \in Int
  BY <1>2
<1> QED
  BY <1>1, <1>3 DEF Types

LEMMA Counting == \A x \in Int : x <= x /\ (x >= 0 => x + 1 >= 1)
  OBVIOUS

\* What no step takes back: signatures, spent nonces, owners, registrations.
Grows ==
    /\ signed \subseteq signed' /\ starts <= starts'
    /\ \A n \in signed : /\ nonce'[n].of = nonce[n].of /\ nonce'[n].act = nonce[n].act
                         /\ nonce[n].state = "used" => nonce'[n].state = "used"
    /\ \A n \in signed' : nonce'[n].state # "free"
    /\ \A a \in Addresses : wallet[a].owner # Nobody => wallet'[a].owner = wallet[a].owner
    /\ \A k \in Handles : kol[k] # "absent" => kol'[k] # "absent"

LEMMA SignaturesStay ==
    ASSUME Grows
    PROVE  /\ \A a, acts : SignedFor(a, acts) => SignedFor(a, acts)'
           /\ \A a, act, left : Proven(a, act, left) => Proven(a, act, left)'
           /\ \A k \in Handles : Enrolled(k) => Enrolled(k)'
<1>1. ASSUME NEW a, NEW acts, SignedFor(a, acts) PROVE SignedFor(a, acts)'
  BY <1>1 DEF SignedFor, Grows
<1>2. ASSUME NEW a, NEW act, NEW left, Proven(a, act, left) PROVE Proven(a, act, left)'
  BY <1>2 DEF Proven, Grows
<1>3. ASSUME NEW k \in Handles, Enrolled(k) PROVE Enrolled(k)'
  <2>1. PICK a \in Addresses : wallet[a].owner = k /\ SignedFor(a, {"alta de perfil"})
    BY <1>3 DEF Enrolled
  <2>2. wallet'[a].owner = k
    BY <2>1, NobodyAssumption DEF Grows
  <2> QED
    BY <1>1, <2>1, <2>2 DEF Enrolled
<1> QED
  BY <1>1, <1>2, <1>3

\* A request that a step does not touch relies on what it relied on.
LEMMA RequestStays ==
    ASSUME Grows, NEW r \in RequestType, RequestOK(r), starts \in Int, starts' \in Int
    PROVE  RequestOK(r)'
<1>1. /\ r.op = "register" /\ r.step = "burn" => \A a \in r.addrs : Proven(a, "alta de perfil", r.left)'
      /\ r.op = "register" /\ r.step = "create" => \A a \in r.addrs : Proven(a, "alta de perfil", {})'
      /\ r.op = "withdraw" /\ r.step = "burn" => \A a \in r.addrs : Proven(a, "retirar wallet", r.left)'
      /\ r.op = "withdraw" /\ r.step \in {"signer", "retire"} =>
            \A a \in r.addrs : Proven(a, "retirar wallet", {})'
  BY SignaturesStay DEF RequestOK
<1>2. r.op = "register" /\ r.step \in {"code", "session"} => Enrolled(r.kol)'
  BY SignaturesStay DEF RequestOK
<1>3. r.op = "paste" => kol'[r.kol] # "absent"
  BY DEF RequestOK, Grows
<1>4. r.step # "free" => starts' >= 1
  <2>1. r.step # "free" => starts >= 1
    BY Zenon DEF RequestOK
  <2>2. starts <= starts'
    BY Zenon DEF Grows
  <2> QED
    BY <2>1, <2>2
<1>5. /\ r.op \in {"register", "create", "approve", "tweet", "paste"} => r.kol \in Handles
      /\ r.op = "register" => r.status = "pending"
      /\ r.op \in {"approve", "create"} => r.step \notin {"code", "session", "unverify"}
      /\ r.op = "register" /\ r.step \in {"burn", "create"} => r.addrs # {}
  BY DEF RequestOK
<1> QED
  BY <1>1, <1>2, <1>3, <1>4, <1>5, Zenon DEF RequestOK

Half(r) == r.op = "paste" /\ r.step \in {"unverify", "dead"}

\* A wallet that a step does not touch stands as it stood.
LEMMA WalletStays ==
    ASSUME AInv, Grows, NEW a \in Addresses, wallet'[a] = wallet[a],
           HalfPasted(a) => HalfPasted(a)'
    PROVE  WalletOK(a)'
<1>1. WalletOK(a) /\ wallet[a].owner \in Handles \cup {Nobody}
  BY TypeIs DEF AInv, Types, WalletType
<1>2. wallet[a].owner # Nobody => kol'[wallet[a].owner] # "absent"
  BY <1>1 DEF WalletOK, Grows
<1>3. /\ SignedFor(a, {"alta de perfil", "agregar wallet"})
            => SignedFor(a, {"alta de perfil", "agregar wallet"})'
      /\ SignedFor(a, {"retirar wallet"}) => SignedFor(a, {"retirar wallet"})'
  BY SignaturesStay
<1> QED
  BY <1>1, <1>2, <1>3 DEF WalletOK

\* One request goes on, and what it leaves is in order.
LEMMA OneRequest ==
    ASSUME AInv, NEW p \in Requests, NEW q \in RequestType, request' = [request EXCEPT ![p] = q],
           Types(kol', code', tweeted', wallet', nonce', signed', login', recorded', starts'),
           Grows, RequestOK(q)',
           \A a \in Addresses : wallet'[a] = wallet[a] \/ WalletOK(a)',
           Half(request[p]) => \/ Half(q) /\ q.addrs = request[p].addrs
                               \/ \A a \in request[p].addrs : WalletOK(a)',
           \A k \in Handles : login'[k] # "none" => login[k] # "none" \/ Enrolled(k)',
           \A k \in Handles : DecisionOK(k)', WalletsAreBounded'
    PROVE  AInv'
<1>1. request \in [Requests -> RequestType] /\ starts \in Int /\ starts' \in Int
  BY TypeIs DEF AInv, Types
<1>2. AccountsTypeOK'
  <2>1. request' \in [Requests -> RequestType]
    BY <1>1
  <2> QED
    BY <2>1, TypeIsPrimed
<1>3. \A s \in Requests : request'[s] = IF s = p THEN q ELSE request[s]
  BY <1>1
<1>4. ASSUME NEW s \in Requests PROVE RequestOK(request[s])'
  <2>1. CASE s = p
    <3>1. request'[s] = q
      BY <1>3, <2>1
    <3> QED
      BY <3>1 DEF RequestOK
  <2>2. CASE s # p
    <3>1. PICK r \in RequestType : r = request[s]
      BY <1>1
    <3>2. RequestOK(r)'
      BY <1>1, <3>1, RequestStays DEF AInv
    <3>3. request'[s] = r
      BY <1>3, <2>2, <3>1
    <3> QED
      BY <3>2, <3>3 DEF RequestOK
  <2> QED
    BY <2>1, <2>2
<1>5. ASSUME NEW a \in Addresses PROVE WalletOK(a)'
  <2>1. CASE wallet'[a] = wallet[a] /\ ~WalletOK(a)'
    <3>1. ASSUME HalfPasted(a) PROVE HalfPasted(a)'
      <4>1. PICK s \in Requests : Half(request[s]) /\ a \in request[s].addrs
        BY <3>1 DEF HalfPasted, Half
      <4>2. Half(request'[s]) /\ a \in request'[s].addrs
        BY <1>3, <2>1, <4>1
      <4> QED
        BY <4>2 DEF HalfPasted, Half
    <3> QED
      BY <2>1, <3>1, WalletStays
  <2>2. CASE wallet'[a] # wallet[a] \/ WalletOK(a)'
    BY <2>2
  <2> QED
    BY <2>1, <2>2
<1>6. \A k \in Handles : login'[k] # "none" => Enrolled(k)'
  BY SignaturesStay DEF AInv
<1>7. \A n \in signed' : nonce'[n].state # "free"
  BY DEF Grows
<1> QED
  BY <1>2, <1>4, <1>5, <1>6, <1>7 DEF AInv

\* A request that does not enter or leave what is unrecorded disturbs no decision.
Deciding(r) ==
    /\ r.op = "approve" \/ (r.op = "create" /\ r.status = "approved")
    /\ r.step \in {"record", "dead"}

LEMMA DecisionsStay ==
    ASSUME AInv, NEW p \in Requests, NEW q \in RequestType, request' = [request EXCEPT ![p] = q],
           Deciding(q) <=> Deciding(request[p]), Deciding(q) => q.kol = request[p].kol,
           UNCHANGED recorded,
           \A k \in Handles : kol'[k] = "approved" <=> kol[k] = "approved"
    PROVE  \A k \in Handles : DecisionOK(k)'
<1> SUFFICES ASSUME NEW k \in Handles PROVE DecisionOK(k)'
  OBVIOUS
<1>1. request \in [Requests -> RequestType]
  BY TypeIs DEF AInv
<1>2. \A s \in Requests : request'[s] = IF s = p THEN q ELSE request[s]
  BY <1>1
<1>3. /\ Unrecorded(k) = {s \in Requests : request[s].kol = k /\ Deciding(request[s])}
      /\ Unrecorded(k)' = {s \in Requests : request'[s].kol = k /\ Deciding(request'[s])}
  BY DEF Unrecorded, Deciding
<1>4. \A s \in Requests : (request'[s].kol = k /\ Deciding(request'[s]))
                          <=> (request[s].kol = k /\ Deciding(request[s]))
  BY <1>2
<1>5. Unrecorded(k)' = Unrecorded(k)
  BY <1>3, <1>4
<1> QED
  BY <1>5 DEF AInv, DecisionOK

\* Fewer wallets and fewer pastes stay within the bound.
LEMMA BoundStays ==
    ASSUME AInv, \A k \in Handles : Owned(k)' \subseteq Owned(k) /\ Pasting(k)' \subseteq Pasting(k)
    PROVE  WalletsAreBounded'
<1> SUFFICES ASSUME NEW k \in Handles
             PROVE  Cardinality(Owned(k)') + Cardinality(Pasting(k)')
                       <= MaxWallets + Cardinality(Requests) - 1
  BY DEF WalletsAreBounded
<1>1. /\ IsFiniteSet(Owned(k)) /\ IsFiniteSet(Pasting(k)) /\ IsFiniteSet(Owned(k)') /\ IsFiniteSet(Pasting(k)')
      /\ IsFiniteSet(Requests)
  <2>1. /\ Owned(k) \subseteq Addresses /\ Owned(k)' \subseteq Addresses
        /\ Pasting(k) \subseteq Requests /\ Pasting(k)' \subseteq Requests
    BY DEF Owned, Pasting
  <2> QED
    BY <2>1, AccountsBounds, FS_Subset
<1>2. /\ Cardinality(Owned(k)') <= Cardinality(Owned(k)) /\ Cardinality(Pasting(k)') <= Cardinality(Pasting(k))
  BY <1>1, FS_Subset
<1>3. /\ Cardinality(Owned(k)) \in Nat /\ Cardinality(Owned(k)') \in Nat /\ Cardinality(Pasting(k)) \in Nat
      /\ Cardinality(Pasting(k)') \in Nat /\ Cardinality(Requests) \in Nat
  BY <1>1, FS_CardinalityType
<1>4. Cardinality(Owned(k)) + Cardinality(Pasting(k)) <= MaxWallets + Cardinality(Requests) - 1
  BY DEF AInv, WalletsAreBounded
<1> QED
  BY <1>2, <1>3, <1>4, AccountsBounds

\* A request that is at no paste, or stays at its own, adds no paste.
AtPaste(r) == r.op = "paste" /\ r.step \in {"find", "insert"}

LEMMA PastesStay ==
    ASSUME AInv, NEW p \in Requests, NEW q \in RequestType, request' = [request EXCEPT ![p] = q],
           AtPaste(q) => AtPaste(request[p]) /\ q.kol = request[p].kol,
           \A a \in Addresses : /\ wallet'[a].owner = wallet[a].owner
                                /\ wallet'[a].active => wallet[a].active
    PROVE  WalletsAreBounded'
<1>1. \A s \in Requests : request'[s] = IF s = p THEN q ELSE request[s]
  BY TypeIs DEF AInv
<1>2. ASSUME NEW k \in Handles
      PROVE  Owned(k)' \subseteq Owned(k) /\ Pasting(k)' \subseteq Pasting(k)
  <2>1. Owned(k)' \subseteq Owned(k)
    BY DEF Owned
  <2>2. Pasting(k)' \subseteq Pasting(k)
    BY <1>1 DEF Pasting, At, AtPaste
  <2> QED
    BY <2>1, <2>2
<1> QED
  BY <1>2, BoundStays

\* Only a request changes.
LEMMA OnlyRequest ==
    ASSUME AInv, NEW p \in Requests, NEW q \in RequestType, request' = [request EXCEPT ![p] = q],
           UNCHANGED <<kol, code, tweeted, wallet, nonce, signed, login, recorded>>,
           starts' \in starts .. MaxStarts,
           RequestOK(q)', Half(request[p]) => Half(q) /\ q.addrs = request[p].addrs,
           Deciding(q) <=> Deciding(request[p]), Deciding(q) => q.kol = request[p].kol,
           WalletsAreBounded'
    PROVE  AInv'
<1>1. Types(kol, code, tweeted, wallet, nonce, signed, login, recorded, starts)
  BY TypeIs DEF AInv
<1>2. Types(kol', code', tweeted', wallet', nonce', signed', login', recorded', starts')
  BY <1>1 DEF Types
<1>3. Grows
  <2>1. starts <= starts'
    BY <1>1 DEF Types
  <2> QED
    BY <2>1 DEF AInv, Grows
<1>4. \A k \in Handles : DecisionOK(k)'
  BY DecisionsStay
<1> QED
  BY <1>2, <1>3, <1>4, OneRequest

LEMMA NoRequestType == NoRequest \in RequestType /\ NoRequest.op = "none" /\ NoRequest.step = "free"
  BY DEF NoRequest, RequestType, Steps

\* A handler ends.
LEMMA DoneOK ==
    ASSUME AInv, NEW p \in Requests, Done(p),
           UNCHANGED <<kol, code, tweeted, wallet, nonce, signed, login, recorded, starts>>,
           ~Half(request[p]), ~Deciding(request[p])
    PROVE  AInv'
<1>1. request' = [request EXCEPT ![p] = NoRequest]
  BY DEF Done
<1>2. RequestOK(NoRequest)' /\ ~Half(NoRequest) /\ ~Deciding(NoRequest) /\ ~AtPaste(NoRequest)
  BY NoRequestType DEF RequestOK, Half, Deciding, AtPaste
<1>3. WalletsAreBounded'
  BY <1>1, <1>2, NoRequestType, PastesStay
<1>4. starts' \in starts .. MaxStarts
  BY TypeIs, AccountsBounds DEF AInv, Types
<1> QED
  BY <1>1, <1>2, <1>3, <1>4, NoRequestType, OnlyRequest

\* A handler goes on to its next statement.
LEMMA GoType ==
    ASSUME AInv, NEW p \in Requests, NEW step \in Steps, Go(p, step)
    PROVE  \E q \in RequestType :
              /\ request' = [request EXCEPT ![p] = q]
              /\ q.step = step /\ q.op = request[p].op /\ q.kol = request[p].kol
              /\ q.addrs = request[p].addrs /\ q.left = request[p].left /\ q.status = request[p].status
<1>1. request \in [Requests -> RequestType] /\ request' = [request EXCEPT ![p].step = step]
  BY TypesNow DEF Go
<1>2. PICK q : q = [request[p] EXCEPT !.step = step]
  OBVIOUS
<1>3. /\ q \in RequestType /\ q.step = step /\ q.op = request[p].op /\ q.kol = request[p].kol
      /\ q.addrs = request[p].addrs /\ q.left = request[p].left /\ q.status = request[p].status
  BY <1>1, <1>2 DEF RequestType, Steps
<1>4. request' = [request EXCEPT ![p] = q]
  BY <1>1, <1>2
<1> QED
  BY <1>3, <1>4

-----------------------------------------------------------------------------
(* Requests that start.                                                    *)

LEMMA StartOK ==
    ASSUME AInv, NEW p \in Requests, NEW r \in RequestType, Start(p, r), r.step # "free",
           RequestOK(r)', ~Deciding(r), ~AtPaste(r)
    PROVE  AInv'
<1>1. /\ request[p].step = "free" /\ starts < MaxStarts /\ request' = [request EXCEPT ![p] = r]
      /\ starts' = starts + 1
      /\ UNCHANGED <<kol, code, tweeted, wallet, nonce, signed, login, recorded>>
  BY DEF Start
<1>2. starts' \in starts .. MaxStarts
  BY <1>1, TypeIs, AccountsBounds DEF AInv, Types
<1>3. ~Half(request[p]) /\ ~Deciding(request[p])
  BY <1>1 DEF Half, Deciding
<1>4. WalletsAreBounded'
  BY <1>1, PastesStay
<1> QED
  BY <1>1, <1>2, <1>3, <1>4, OnlyRequest

\* What a request that starts relies on, once it has.
LEMMA StartedOK ==
    ASSUME AInv, NEW p \in Requests, NEW r \in RequestType, Start(p, r), r.step # "free",
           r.op \in {"register", "create", "approve", "tweet"} => r.kol \in Handles,
           r.op = "register" => r.status = "pending" /\ r.step = "burn" /\ r.addrs # {}
                                /\ \A a \in r.addrs : Proven(a, "alta de perfil", r.left),
           r.op \in {"approve", "create"} => r.step \in {"approve", "create"},
           r.op = "withdraw" => r.step = "burn" /\ \A a \in r.addrs : Proven(a, "retirar wallet", r.left),
           r.op # "paste"
    PROVE  AInv'
<1>1. /\ starts' = starts + 1
      /\ UNCHANGED <<kol, code, tweeted, wallet, nonce, signed, login, recorded>>
  BY DEF Start
<1>2. starts' >= 1
  <2>1. starts' = starts + 1
    BY <1>1
  <2>2. starts \in Int /\ starts >= 0
    BY TypesNow
  <2>3. starts + 1 >= 1
    BY <2>2, Counting, Zenon
  <2> QED
    BY <2>1, <2>3, Zenon
<1>3. \A a, act : Proven(a, act, r.left) => Proven(a, act, r.left)'
  BY <1>1 DEF Proven
<1>4. RequestOK(r)'
  BY <1>2, <1>3 DEF RequestOK
<1>5. ~Deciding(r) /\ ~AtPaste(r)
  BY DEF Deciding, AtPaste
<1> QED
  BY <1>4, <1>5, StartOK

LEMMA RegisterOK == ASSUME AInv, NEW p \in Requests, Register(p) PROVE AInv'
<1>1. PICK k \in Handles, A \in SUBSET Addresses, N \in SUBSET signed :
         /\ A # {}
         /\ \A a \in A : \E n \in N : Proves(n, a, "alta de perfil")
         /\ Start(p, [NoRequest EXCEPT !.op = "register", !.step = "burn", !.kol = k, !.addrs = A, !.left = N])
  BY DEF Register
<1>2. PICK r : r = [NoRequest EXCEPT !.op = "register", !.step = "burn", !.kol = k, !.addrs = A, !.left = N]
  OBVIOUS
<1>3. N \subseteq Nonces
  BY TypeIs DEF AInv, Types
<1>4. /\ r \in RequestType /\ r.op = "register" /\ r.step = "burn" /\ r.kol = k /\ r.addrs = A /\ r.left = N
      /\ r.status = "pending"
  BY <1>2, <1>3 DEF NoRequest, RequestType, Steps
<1>5. \A a \in A : Proven(a, "alta de perfil", N)
  BY <1>1 DEF Proves, Proven
<1>6. \A a \in r.addrs : Proven(a, "alta de perfil", r.left)
  BY <1>4, <1>5
<1>7. Start(p, r)
  BY <1>1, <1>2
<1> QED
  BY <1>1, <1>4, <1>6, <1>7, StartedOK

LEMMA CreateByAdminOK == ASSUME AInv, NEW p \in Requests, CreateByAdmin(p) PROVE AInv'
<1>1. PICK k \in Handles, a \in Addresses, s \in {"pending", "approved"} :
         Start(p, [NoRequest EXCEPT !.op = "create", !.step = "create", !.kol = k, !.addrs = {a}, !.status = s])
  BY DEF CreateByAdmin
<1>2. PICK r : r = [NoRequest EXCEPT !.op = "create", !.step = "create", !.kol = k, !.addrs = {a}, !.status = s]
  OBVIOUS
<1>3. r \in RequestType /\ r.op = "create" /\ r.step = "create" /\ r.kol = k
  BY <1>2 DEF NoRequest, RequestType, Steps
<1>4. Start(p, r)
  BY <1>1, <1>2
<1> QED
  BY <1>3, <1>4, StartedOK

LEMMA ApproveOK == ASSUME AInv, NEW p \in Requests, Approve(p) PROVE AInv'
<1>1. PICK k \in Handles : Start(p, [NoRequest EXCEPT !.op = "approve", !.step = "approve", !.kol = k])
  BY DEF Approve
<1>2. PICK r : r = [NoRequest EXCEPT !.op = "approve", !.step = "approve", !.kol = k]
  OBVIOUS
<1>3. r \in RequestType /\ r.op = "approve" /\ r.step = "approve" /\ r.kol = k
  BY <1>2 DEF NoRequest, RequestType, Steps
<1>4. Start(p, r)
  BY <1>1, <1>2
<1> QED
  BY <1>3, <1>4, StartedOK

LEMMA CheckTweetOK == ASSUME AInv, NEW p \in Requests, CheckTweet(p) PROVE AInv'
<1>1. PICK k \in code : Start(p, [NoRequest EXCEPT !.op = "tweet", !.step = "mark", !.kol = k])
  BY DEF CheckTweet
<1>2. k \in Handles
  BY <1>1, TypeIs DEF AInv, Types
<1>3. PICK r : r = [NoRequest EXCEPT !.op = "tweet", !.step = "mark", !.kol = k]
  OBVIOUS
<1>4. r \in RequestType /\ r.op = "tweet" /\ r.step = "mark" /\ r.kol = k
  BY <1>2, <1>3 DEF NoRequest, RequestType, Steps
<1>5. Start(p, r)
  BY <1>1, <1>3
<1> QED
  BY <1>2, <1>4, <1>5, StartedOK

LEMMA ValidateOK == ASSUME AInv, NEW p \in Requests, Validate(p) PROVE AInv'
<1>1. PICK k \in Handles, n \in Nonces : \E a \in Owned(k) :
         Start(p, [NoRequest EXCEPT !.op = "validate", !.step = "burn", !.kol = k, !.addrs = {a}, !.left = {n}])
  BY DEF Validate
<1>2. PICK a \in Owned(k) :
         Start(p, [NoRequest EXCEPT !.op = "validate", !.step = "burn", !.kol = k, !.addrs = {a}, !.left = {n}])
  BY <1>1
<1>3. PICK r : r = [NoRequest EXCEPT !.op = "validate", !.step = "burn", !.kol = k, !.addrs = {a}, !.left = {n}]
  OBVIOUS
<1>4. a \in Addresses
  BY DEF Owned
<1>5. r \in RequestType /\ r.op = "validate" /\ r.step = "burn"
  BY <1>3, <1>4 DEF NoRequest, RequestType, Steps
<1>6. Start(p, r)
  BY <1>2, <1>3
<1> QED
  BY <1>5, <1>6, StartedOK

LEMMA WithdrawOK == ASSUME AInv, NEW p \in Requests, Withdraw(p) PROVE AInv'
<1>1. PICK n \in Nonces, a \in Addresses :
         /\ Proves(n, a, "retirar wallet")
         /\ Start(p, [NoRequest EXCEPT !.op = "withdraw", !.step = "burn", !.addrs = {a}, !.left = {n}])
  BY DEF Withdraw
<1>2. PICK r : r = [NoRequest EXCEPT !.op = "withdraw", !.step = "burn", !.addrs = {a}, !.left = {n}]
  OBVIOUS
<1>3. r \in RequestType /\ r.op = "withdraw" /\ r.step = "burn" /\ r.addrs = {a} /\ r.left = {n}
  BY <1>2 DEF NoRequest, RequestType, Steps
<1>4. Proven(a, "retirar wallet", {n})
  BY <1>1 DEF Proves, Proven
<1>5. \A b \in r.addrs : Proven(b, "retirar wallet", r.left)
  BY <1>3, <1>4
<1>6. Start(p, r)
  BY <1>1, <1>2
<1> QED
  BY <1>3, <1>5, <1>6, StartedOK

-----------------------------------------------------------------------------
(* Nonces.                                                                 *)

\* No request changes.
LEMMA NoHandler ==
    ASSUME AInv, Grows, UNCHANGED <<kol, code, tweeted, wallet, request, recorded, starts>>,
           nonce' \in [Nonces -> NonceType], signed' \subseteq Nonces,
           login' \in [Handles -> {"none", "open", "closed"}],
           \A k \in Handles : login'[k] # "none" => login[k] # "none"
    PROVE  AInv'
<1>1. AccountsTypeOK'
  BY TypeIs, TypeIsPrimed DEF AInv, Types
<1>2. ASSUME NEW p \in Requests PROVE RequestOK(request[p])'
  <2>1. PICK r \in RequestType : r = request[p]
    BY TypeIs DEF AInv
  <2>2. RequestOK(r)'
    BY <2>1, RequestStays, TypeIs DEF AInv, Types
  <2> QED
    BY <2>1, <2>2 DEF RequestOK
<1>3. ASSUME NEW a \in Addresses PROVE WalletOK(a)'
  <2>1. HalfPasted(a) => HalfPasted(a)'
    BY DEF HalfPasted
  <2> QED
    BY <2>1, WalletStays
<1>4. \A k \in Handles : login'[k] # "none" => Enrolled(k)'
  BY SignaturesStay DEF AInv
<1>5. \A k \in Handles : DecisionOK(k)'
  BY DEF AInv, DecisionOK, Unrecorded
<1>6. WalletsAreBounded'
  <2>1. \A k \in Handles : Owned(k)' \subseteq Owned(k) /\ Pasting(k)' \subseteq Pasting(k)
    BY DEF Owned, Pasting, At
  <2> QED
    BY <2>1, BoundStays
<1>7. \A n \in signed' : nonce'[n].state # "free"
  BY DEF Grows
<1> QED
  BY <1>1, <1>2, <1>3, <1>4, <1>5, <1>6, <1>7 DEF AInv

LEMMA IssueNonceOK ==
    ASSUME AInv, NEW n \in Nonces, NEW a \in Addresses, NEW act \in Acts, IssueNonce(n, a, act) PROVE AInv'
<1>1. /\ nonce[n].state = "free" /\ nonce' = [nonce EXCEPT ![n] = [of |-> a, act |-> act, state |-> "issued"]]
      /\ UNCHANGED <<kol, code, tweeted, wallet, signed, login, request, recorded, starts>>
  BY DEF IssueNonce
<1>2. nonce \in [Nonces -> NonceType] /\ signed \subseteq Nonces /\ starts \in Int
      /\ login \in [Handles -> {"none", "open", "closed"}]
  BY TypeIs DEF AInv, Types
<1>3. nonce' \in [Nonces -> NonceType]
  BY <1>1, <1>2 DEF NonceType
<1>4. n \notin signed
  BY <1>1 DEF AInv
<1>5. Grows
  BY <1>1, <1>2, <1>4 DEF AInv, Grows
<1> QED
  BY <1>1, <1>2, <1>3, <1>5, NoHandler

LEMMA SignOK == ASSUME AInv, NEW n \in Nonces, Sign(n) PROVE AInv'
<1>1. /\ nonce[n].state # "free" /\ signed' = signed \cup {n}
      /\ UNCHANGED <<kol, code, tweeted, wallet, nonce, login, request, recorded, starts>>
  BY DEF Sign
<1>2. nonce \in [Nonces -> NonceType] /\ signed' \subseteq Nonces /\ starts \in Int
      /\ login \in [Handles -> {"none", "open", "closed"}]
  BY <1>1, TypeIs DEF AInv, Types
<1>3. Grows
  BY <1>1, <1>2 DEF AInv, Grows
<1> QED
  BY <1>1, <1>2, <1>3, NoHandler

LEMMA ExpireNonceOK == ASSUME AInv, NEW n \in Nonces, ExpireNonce(n) PROVE AInv'
<1>1. /\ nonce[n].state = "issued" /\ nonce' = [nonce EXCEPT ![n].state = "expired"]
      /\ UNCHANGED <<kol, code, tweeted, wallet, signed, login, request, recorded, starts>>
  BY DEF ExpireNonce
<1>2. nonce \in [Nonces -> NonceType] /\ signed \subseteq Nonces /\ starts \in Int
      /\ login \in [Handles -> {"none", "open", "closed"}]
  BY TypeIs DEF AInv, Types
<1>3. nonce' \in [Nonces -> NonceType]
  BY <1>1, <1>2 DEF NonceType
<1>4. Grows
  BY <1>1, <1>2 DEF AInv, Grows, NonceType
<1> QED
  BY <1>1, <1>2, <1>3, <1>4, NoHandler

LEMMA CloseSessionOK == ASSUME AInv, NEW k \in Handles, CloseSession(k) PROVE AInv'
<1>1. /\ login[k] = "open" /\ login' = [login EXCEPT ![k] = "closed"]
      /\ UNCHANGED <<kol, code, tweeted, wallet, nonce, signed, request, recorded, starts>>
  BY DEF CloseSession
<1>2. nonce \in [Nonces -> NonceType] /\ signed \subseteq Nonces /\ starts \in Int
      /\ login \in [Handles -> {"none", "open", "closed"}]
  BY TypeIs DEF AInv, Types
<1>3. login' \in [Handles -> {"none", "open", "closed"}] /\ \A j \in Handles : login'[j] # "none" => login[j] # "none"
  BY <1>1, <1>2
<1>4. Grows
  BY <1>1, <1>2 DEF AInv, Grows
<1> QED
  BY <1>1, <1>2, <1>3, <1>4, NoHandler

LEMMA BurnOK ==
    ASSUME AInv, NEW p \in Requests, NEW op, NEW act, NEW next, Burn(p, op, act, next),
           <<op, act, next>> \in {<<"register", "alta de perfil", "create">>,
                                  <<"validate", "agregar wallet", "mark">>,
                                  <<"withdraw", "retirar wallet", "signer">>}
    PROVE  AInv'
<1>1. PICK n \in request[p].left :
        /\ At(p, op, "burn")
        /\ IF \E a \in request[p].addrs : Burns(n, a, act)
           THEN /\ nonce' = [nonce EXCEPT ![n].state = "used"]
                /\ request' = [request EXCEPT ![p].left = @ \ {n},
                                              ![p].step = IF request[p].left = {n} THEN next ELSE "burn"]
           ELSE Done(p) /\ UNCHANGED nonce
        /\ UNCHANGED <<kol, code, tweeted, wallet, signed, login, recorded, starts>>
  BY DEF Burn
<1>2. /\ op \in {"register", "validate", "withdraw"}
      /\ op = "register" => act = "alta de perfil" /\ next = "create"
      /\ op = "validate" => act = "agregar wallet" /\ next = "mark"
      /\ op = "withdraw" => act = "retirar wallet" /\ next = "signer"
  OBVIOUS
<1>3. /\ request[p].op = op /\ request[p].step = "burn"
      /\ UNCHANGED <<kol, code, tweeted, wallet, signed, login, recorded, starts>>
  BY <1>1 DEF At
<1>4. ~Half(request[p]) /\ ~Deciding(request[p])
  BY <1>3 DEF Half, Deciding
<1>5. CASE ~\E a \in request[p].addrs : Burns(n, a, act)
  BY <1>1, <1>3, <1>4, <1>5, DoneOK
<1>6. CASE \E a \in request[p].addrs : Burns(n, a, act)
  <2>1. PICK r \in RequestType : r = request[p]
    BY TypeIs DEF AInv
  <2>2. PICK q : q = [r EXCEPT !.left = @ \ {n}, !.step = IF r.left = {n} THEN next ELSE "burn"]
    OBVIOUS
  <2>3. /\ q \in RequestType /\ q.op = op /\ q.kol = r.kol /\ q.addrs = r.addrs /\ q.status = r.status
        /\ q.left = r.left \ {n} /\ q.step = IF r.left = {n} THEN next ELSE "burn"
    BY <1>2, <1>3, <2>1, <2>2 DEF RequestType, Steps
  <2>4. request' = [request EXCEPT ![p] = q]
    BY <1>1, <1>6, <2>1, <2>2, TypeIs DEF AInv, RequestType
  <2>5. nonce' = [nonce EXCEPT ![n].state = "used"] /\ n \in Nonces
    BY <1>1, <1>6, TypeIs DEF AInv, RequestType
  <2>6. /\ nonce \in [Nonces -> NonceType] /\ signed \subseteq Nonces /\ starts \in Int
        /\ Types(kol, code, tweeted, wallet, nonce, signed, login, recorded, starts)
    BY TypesNow
  <2>7. nonce' \in [Nonces -> NonceType]
    BY <2>5, <2>6 DEF NonceType
  <2>8. Types(kol', code', tweeted', wallet', nonce', signed', login', recorded', starts')
    BY <1>3, <2>6, <2>7 DEF Types
  <2>9. Grows
    <3>1. \A m \in signed : /\ nonce'[m].of = nonce[m].of /\ nonce'[m].act = nonce[m].act
                            /\ nonce[m].state = "used" => nonce'[m].state = "used"
                            /\ nonce[m].state # "free" /\ nonce'[m].state # "free"
      <4> SUFFICES ASSUME NEW m \in signed
                   PROVE  /\ nonce'[m].of = nonce[m].of /\ nonce'[m].act = nonce[m].act
                          /\ nonce[m].state = "used" => nonce'[m].state = "used"
                          /\ nonce[m].state # "free" /\ nonce'[m].state # "free"
        OBVIOUS
      <4>1. m \in Nonces /\ nonce[m].state # "free" /\ nonce[m] \in NonceType
        BY <2>6 DEF AInv
      <4>2. nonce'[m] = IF m = n THEN [nonce[m] EXCEPT !.state = "used"] ELSE nonce[m]
        BY <2>5, <2>6, <4>1
      <4> QED
        BY <4>1, <4>2 DEF NonceType
    <3>2. signed' = signed /\ starts' = starts /\ wallet' = wallet /\ kol' = kol
      BY <1>3
    <3>3. starts <= starts
      BY <2>6, Counting, Zenon
    <3> QED
      BY <3>1, <3>2, <3>3 DEF Grows
  <2>10. ASSUME NEW a, NEW ac, Proven(a, ac, r.left) PROVE Proven(a, ac, q.left)'
    <3>1. PICK m \in signed : nonce[m].of = a /\ nonce[m].act = ac /\ (m \in r.left \/ nonce[m].state = "used")
      BY <2>10 DEF Proven
    <3>2. nonce'[m].of = a /\ nonce'[m].act = ac /\ m \in signed'
      BY <2>9, <3>1 DEF Grows
    <3>3. m \in q.left \/ nonce'[m].state = "used"
      <4>1. CASE m = n
        BY <2>5, <2>6, <4>1 DEF NonceType
      <4>2. CASE m # n
        BY <2>3, <2>9, <3>1, <4>2 DEF Grows
      <4> QED
        BY <4>1, <4>2
    <3> QED
      BY <3>2, <3>3 DEF Proven
  <2>11. r.left = {n} => q.left = {}
    BY <2>3
  <2>12. RequestOK(r) /\ r.op = op /\ r.step = "burn" /\ starts' = starts
    BY <1>3, <2>1 DEF AInv
  <2>13. \A a \in q.addrs : (op = "register" => Proven(a, "alta de perfil", r.left))
                            /\ (op = "withdraw" => Proven(a, "retirar wallet", r.left))
    BY <2>3, <2>12 DEF RequestOK
  <2>14. \A a \in q.addrs : (op = "register" => Proven(a, "alta de perfil", q.left)')
                            /\ (op = "withdraw" => Proven(a, "retirar wallet", q.left)')
    BY <2>10, <2>13
  <2>15. /\ op = "register" => q.kol \in Handles /\ q.status = "pending" /\ q.addrs # {}
         /\ starts >= 1
    BY <2>3, <2>12 DEF RequestOK
  <2>16. RequestOK(q)'
    <3>1. CASE r.left = {n}
      <4>1. q.step = next /\ q.left = {}
        BY <2>3, <2>11, <3>1
      <4> QED
        BY <1>2, <2>3, <2>12, <2>14, <2>15, <4>1 DEF RequestOK
    <3>2. CASE r.left # {n}
      <4>1. q.step = "burn"
        BY <2>3, <3>2
      <4> QED
        BY <1>2, <2>3, <2>12, <2>14, <2>15, <4>1 DEF RequestOK
    <3> QED
      BY <3>1, <3>2
  <2>17. ~Deciding(q) /\ ~AtPaste(q)
    BY <1>2, <2>3 DEF Deciding, AtPaste
  <2>18. WalletsAreBounded'
    BY <1>3, <2>3, <2>4, <2>17, PastesStay
  <2>19. \A k \in Handles : DecisionOK(k)'
    BY <1>3, <1>4, <2>3, <2>4, <2>17, DecisionsStay
  <2> QED
    BY <1>3, <1>4, <2>3, <2>4, <2>8, <2>9, <2>16, <2>18, <2>19, OneRequest
<1> QED
  BY <1>5, <1>6

-----------------------------------------------------------------------------
(* Registration.                                                           *)

\* What a request relies on, by name.
LEMMA ReliesOn ==
    ASSUME AInv, NEW p \in Requests
    PROVE  LET r == request[p] IN
           /\ r \in RequestType
           /\ r.op \in {"register", "create", "approve", "tweet", "paste"} => r.kol \in Handles
           /\ r.op = "register" => r.status = "pending"
           /\ r.op \in {"approve", "create"} => r.step \notin {"code", "session", "unverify"}
           /\ r.op = "register" /\ r.step \in {"burn", "create"} => r.addrs # {}
           /\ r.op = "register" /\ r.step = "create" => \A a \in r.addrs : Proven(a, "alta de perfil", {})
           /\ r.op = "register" /\ r.step \in {"code", "session"} => Enrolled(r.kol)
           /\ r.op = "withdraw" /\ r.step \in {"signer", "retire"} =>
                 \A a \in r.addrs : Proven(a, "retirar wallet", {})
           /\ r.op = "paste" => kol[r.kol] # "absent"
           /\ r.step # "free" => starts >= 1
  BY TypesNow, Zenon DEF AInv, RequestOK

LEMMA ProvenIsSigned ==
    \A a, acts : \A act \in acts : Proven(a, act, {}) => SignedFor(a, acts)
  BY DEF Proven, SignedFor

\* Nothing but the request and tables that no property but the type looks at.
LEMMA GrowsIfKept ==
    ASSUME AInv, UNCHANGED <<kol, wallet, nonce, signed, starts>>
    PROVE  Grows
<1>1. starts \in Int
  BY TypesNow
<1>2. starts <= starts'
  BY <1>1
<1> QED
  BY <1>2 DEF AInv, Grows

LEMMA GiveCodeOK == ASSUME AInv, NEW p \in Requests, GiveCode(p) PROVE AInv'
<1>1. /\ request[p].op = "register" /\ request[p].step = "code"
      /\ code' = code \cup {request[p].kol} /\ request' = [request EXCEPT ![p].step = "session"]
      /\ UNCHANGED <<kol, tweeted, wallet, nonce, signed, login, recorded, starts>>
  BY DEF GiveCode, At, Go
<1>2. Go(p, "session") /\ "session" \in Steps
  BY DEF GiveCode, Steps
<1>3. PICK q \in RequestType :
         /\ request' = [request EXCEPT ![p] = q]
         /\ q.step = "session" /\ q.op = request[p].op /\ q.kol = request[p].kol
         /\ q.addrs = request[p].addrs /\ q.left = request[p].left /\ q.status = request[p].status
  BY <1>2, GoType
<1>4. request[p].kol \in Handles /\ Enrolled(request[p].kol) /\ request[p].status = "pending" /\ starts >= 1
  BY <1>1, ReliesOn
<1>5. Grows
  BY <1>1, GrowsIfKept
<1>6. Enrolled(q.kol)'
  BY <1>3, <1>4, <1>5, SignaturesStay
<1>7. RequestOK(q)'
  BY <1>1, <1>3, <1>4, <1>6 DEF RequestOK
<1>8. Types(kol', code', tweeted', wallet', nonce', signed', login', recorded', starts')
  BY <1>1, <1>4, TypesNow DEF Types
<1>9. ~Half(request[p]) /\ ~Deciding(request[p]) /\ ~Deciding(q) /\ ~AtPaste(q)
  BY <1>1, <1>3 DEF Half, Deciding, AtPaste
<1>10. WalletsAreBounded'
  BY <1>1, <1>3, <1>9, PastesStay
<1>11. \A k \in Handles : DecisionOK(k)'
  BY <1>1, <1>3, <1>9, DecisionsStay
<1> QED
  BY <1>1, <1>3, <1>5, <1>7, <1>8, <1>9, <1>10, <1>11, OneRequest

LEMMA OpenSessionOK == ASSUME AInv, NEW p \in Requests, OpenSession(p) PROVE AInv'
<1>1. /\ request[p].op = "register" /\ request[p].step = "session"
      /\ login' = [login EXCEPT ![request[p].kol] = "open"] /\ request' = [request EXCEPT ![p] = NoRequest]
      /\ UNCHANGED <<kol, code, tweeted, wallet, nonce, signed, recorded, starts>>
  BY DEF OpenSession, At, Done
<1>2. PICK j \in Handles : j = request[p].kol /\ Enrolled(j)
  BY <1>1, ReliesOn
<1>3. Grows
  BY <1>1, GrowsIfKept
<1>4. Enrolled(j)'
  BY <1>2, <1>3, SignaturesStay
<1>5. login \in [Handles -> {"none", "open", "closed"}]
  BY TypesNow DEF Types
<1>5a. login' \in [Handles -> {"none", "open", "closed"}]
  BY <1>1, <1>5
<1>6. Types(kol', code', tweeted', wallet', nonce', signed', login', recorded', starts')
  BY <1>1, <1>5a, TypesNow DEF Types
<1>7. ASSUME NEW k \in Handles, login'[k] # "none" PROVE login[k] # "none" \/ Enrolled(k)'
  BY <1>1, <1>2, <1>4, <1>5, <1>7
<1>8. /\ RequestOK(NoRequest)' /\ ~Half(request[p]) /\ ~Deciding(request[p])
      /\ ~Deciding(NoRequest) /\ ~AtPaste(NoRequest)
  BY <1>1, NoRequestType DEF RequestOK, Half, Deciding, AtPaste
<1>9. WalletsAreBounded'
  BY <1>1, <1>8, NoRequestType, PastesStay
<1>10. \A k \in Handles : DecisionOK(k)'
  BY <1>1, <1>8, NoRequestType, DecisionsStay
<1> QED
  BY <1>1, <1>3, <1>6, <1>7, <1>8, <1>9, <1>10, NoRequestType, OneRequest

LEMMA MarkTweetOK == ASSUME AInv, NEW p \in Requests, MarkTweet(p) PROVE AInv'
<1>1. /\ request[p].op = "tweet" /\ request[p].step = "mark"
      /\ tweeted' = tweeted \cup {request[p].kol} /\ request' = [request EXCEPT ![p] = NoRequest]
      /\ UNCHANGED <<kol, code, wallet, nonce, signed, login, recorded, starts>>
  BY DEF MarkTweet, At, Done
<1>2. request[p].kol \in Handles
  BY <1>1, ReliesOn
<1>3. Grows
  BY <1>1, GrowsIfKept
<1>4. Types(kol', code', tweeted', wallet', nonce', signed', login', recorded', starts')
  BY <1>1, <1>2, TypesNow DEF Types
<1>5. /\ RequestOK(NoRequest)' /\ ~Half(request[p]) /\ ~Deciding(request[p])
      /\ ~Deciding(NoRequest) /\ ~AtPaste(NoRequest)
  BY <1>1, NoRequestType DEF RequestOK, Half, Deciding, AtPaste
<1>6. WalletsAreBounded'
  BY <1>1, <1>5, NoRequestType, PastesStay
<1>7. \A k \in Handles : DecisionOK(k)'
  BY <1>1, <1>5, NoRequestType, DecisionsStay
<1> QED
  BY <1>1, <1>3, <1>4, <1>5, <1>6, <1>7, NoRequestType, OneRequest

LEMMA DieOK == ASSUME AInv, NEW p \in Requests, Die(p) PROVE AInv'
<1>1. /\ request[p].step \in {"code", "session", "record", "unverify"}
      /\ request' = [request EXCEPT ![p].step = "dead"]
      /\ UNCHANGED <<kol, code, tweeted, wallet, nonce, signed, login, recorded, starts>>
  BY DEF Die, Go
<1>2. Go(p, "dead") /\ "dead" \in Steps
  BY DEF Die, Steps
<1>3. PICK q \in RequestType :
         /\ request' = [request EXCEPT ![p] = q]
         /\ q.step = "dead" /\ q.op = request[p].op /\ q.kol = request[p].kol
         /\ q.addrs = request[p].addrs /\ q.left = request[p].left /\ q.status = request[p].status
  BY <1>2, GoType
<1>4. /\ q.op \in {"register", "create", "approve", "tweet", "paste"} => q.kol \in Handles
      /\ q.op = "register" => q.status = "pending"
      /\ q.op \in {"approve", "create"} => request[p].step = "record"
      /\ q.op = "paste" => kol[q.kol] # "absent"
      /\ starts >= 1
  BY <1>1, <1>3, ReliesOn
<1>5. RequestOK(q)'
  BY <1>1, <1>3, <1>4 DEF RequestOK
<1>6. /\ Half(request[p]) => Half(q) /\ q.addrs = request[p].addrs
      /\ Deciding(q) <=> Deciding(request[p])
      /\ ~AtPaste(q)
  BY <1>1, <1>3, <1>4 DEF Half, Deciding, AtPaste
<1>7. starts' \in starts .. MaxStarts
  BY <1>1, TypesNow
<1>8. WalletsAreBounded'
  BY <1>1, <1>3, <1>6, PastesStay
<1> QED
  BY <1>1, <1>3, <1>5, <1>6, <1>7, <1>8, OnlyRequest

-----------------------------------------------------------------------------
(* Decisions.                                                              *)

LEMMA UnrecordedIs ==
    ASSUME AInv, NEW p \in Requests, NEW q \in RequestType, request' = [request EXCEPT ![p] = q],
           NEW k \in Handles
    PROVE  /\ \A s : s \in Unrecorded(k) <=> s \in Requests /\ request[s].kol = k /\ Deciding(request[s])
           /\ \A s : s \in Unrecorded(k)' <=>
                 s \in Requests /\ IF s = p THEN q.kol = k /\ Deciding(q) ELSE s \in Unrecorded(k)
<1>1. \A s : s \in Unrecorded(k) <=> s \in Requests /\ request[s].kol = k /\ Deciding(request[s])
  BY DEF Unrecorded, Deciding
<1>2. \A s : s \in Unrecorded(k)' <=> s \in Requests /\ request'[s].kol = k /\ Deciding(request'[s])
  BY DEF Unrecorded, Deciding
<1>3. \A s \in Requests : request'[s] = IF s = p THEN q ELSE request[s]
  BY TypesNow
<1> QED
  BY <1>1, <1>2, <1>3

\* A KOL becomes approved, and the one request that made it so is to record it.
LEMMA ApprovalOK ==
    ASSUME AInv, NEW p \in Requests, NEW q \in RequestType, request' = [request EXCEPT ![p] = q],
           NEW k \in Handles, kol' = [kol EXCEPT ![k] = "approved"], kol[k] # "approved",
           ~Deciding(request[p]), Deciding(q), q.kol = k, UNCHANGED recorded
    PROVE  \A j \in Handles : DecisionOK(j)'
<1> SUFFICES ASSUME NEW j \in Handles PROVE DecisionOK(j)'
  OBVIOUS
<1>1. kol'[j] = IF j = k THEN "approved" ELSE kol[j]
  BY TypesNow DEF Types
<1>2. /\ \A s : s \in Unrecorded(j) <=> s \in Requests /\ request[s].kol = j /\ Deciding(request[s])
      /\ \A s : s \in Unrecorded(j)' <=>
            s \in Requests /\ IF s = p THEN q.kol = j /\ Deciding(q) ELSE s \in Unrecorded(j)
  BY UnrecordedIs
<1>3. DecisionOK(j)
  BY DEF AInv
<1>4. CASE j = k
  <2>1. recorded[j] = 0 /\ Unrecorded(j) = {}
    BY <1>3, <1>4 DEF DecisionOK
  <2>2. Unrecorded(j)' = {p}
    BY <1>2, <1>4, <2>1
  <2> QED
    BY <1>1, <1>4, <2>1, <2>2 DEF DecisionOK
<1>5. CASE j # k
  <2>1. Unrecorded(j)' = Unrecorded(j)
    BY <1>2, <1>5
  <2> QED
    BY <1>1, <1>3, <1>5, <2>1 DEF DecisionOK
<1> QED
  BY <1>4, <1>5

LEMMA ApproveKolOK == ASSUME AInv, NEW p \in Requests, ApproveKol(p) PROVE AInv'
<1>1. /\ request[p].op = "approve" /\ request[p].step = "approve"
      /\ IF kol[request[p].kol] = "pending"
         THEN kol' = [kol EXCEPT ![request[p].kol] = "approved"] /\ Go(p, "record")
         ELSE Done(p) /\ UNCHANGED kol
      /\ UNCHANGED <<code, tweeted, wallet, nonce, signed, login, recorded, starts>>
  BY DEF ApproveKol, At
<1>2. ~Half(request[p]) /\ ~Deciding(request[p])
  BY <1>1 DEF Half, Deciding
<1>3. CASE kol[request[p].kol] # "pending"
  BY <1>1, <1>2, <1>3, DoneOK
<1>4. CASE kol[request[p].kol] = "pending"
  <2>1. PICK k : k = request[p].kol
    OBVIOUS
  <2>2. k \in Handles /\ starts >= 1
    BY <1>1, <2>1, ReliesOn
  <2>3. Go(p, "record") /\ "record" \in Steps
    BY <1>1, <1>4 DEF Steps
  <2>4. kol' = [kol EXCEPT ![k] = "approved"] /\ kol[k] = "pending"
    BY <1>1, <1>4, <2>1
  <2>5. PICK q \in RequestType :
           /\ request' = [request EXCEPT ![p] = q]
           /\ q.step = "record" /\ q.op = request[p].op /\ q.kol = request[p].kol
           /\ q.addrs = request[p].addrs /\ q.left = request[p].left /\ q.status = request[p].status
    BY <2>3, GoType
  <2>6. kol \in [Handles -> {"absent", "pending", "approved"}] /\ starts \in Int
    BY TypesNow DEF Types
  <2>7. kol' \in [Handles -> {"absent", "pending", "approved"}] /\ \A j \in Handles : kol[j] # "absent" => kol'[j] # "absent"
    BY <2>4, <2>6
  <2>8. Types(kol', code', tweeted', wallet', nonce', signed', login', recorded', starts')
    BY <1>1, <2>7, TypesNow DEF Types
  <2>9. starts <= starts'
    BY <1>1, <2>6
  <2>10. Grows
    BY <1>1, <2>7, <2>9 DEF AInv, Grows
  <2>11. RequestOK(q)'
    BY <1>1, <2>1, <2>2, <2>5 DEF RequestOK
  <2>12. Deciding(q) /\ ~AtPaste(q) /\ q.kol = k
    BY <1>1, <2>1, <2>5 DEF Deciding, AtPaste
  <2>13. \A j \in Handles : DecisionOK(j)'
    BY <1>1, <1>2, <2>2, <2>4, <2>5, <2>12, ApprovalOK
  <2>14. WalletsAreBounded'
    BY <1>1, <2>5, <2>12, PastesStay
  <2> QED
    BY <1>1, <1>2, <2>5, <2>8, <2>10, <2>11, <2>13, <2>14, OneRequest
<1> QED
  BY <1>3, <1>4

LEMMA RecordDecisionOK == ASSUME AInv, NEW p \in Requests, RecordDecision(p) PROVE AInv'
<1>1. /\ request[p].op \in {"create", "approve"} /\ request[p].step = "record"
      /\ recorded' = IF request[p].op = "approve" \/ request[p].status = "approved"
                     THEN [recorded EXCEPT ![request[p].kol] = @ + 1] ELSE recorded
      /\ request' = [request EXCEPT ![p] = NoRequest]
      /\ UNCHANGED <<kol, code, tweeted, wallet, nonce, signed, login, starts>>
  BY DEF RecordDecision, Done
<1>2. PICK k : k = request[p].kol
  OBVIOUS
<1>3. k \in Handles /\ starts >= 1
  BY <1>1, <1>2, ReliesOn
<1>4. /\ ~Half(request[p]) /\ ~Deciding(NoRequest) /\ ~AtPaste(NoRequest) /\ RequestOK(NoRequest)'
      /\ Deciding(request[p]) <=> (request[p].op = "approve" \/ request[p].status = "approved")
  BY <1>1, NoRequestType DEF Half, Deciding, AtPaste, RequestOK
<1>5. Grows
  BY <1>1, GrowsIfKept
<1>6. WalletsAreBounded'
  BY <1>1, <1>4, NoRequestType, PastesStay
<1>7. recorded' \in [Handles -> 0 .. MaxStarts] /\ \A j \in Handles : DecisionOK(j)'
  <2>1. recorded \in [Handles -> 0 .. MaxStarts]
    BY TypesNow DEF Types
  <2>2. CASE ~Deciding(request[p])
    <3>1. UNCHANGED recorded
      BY <1>1, <1>4, <2>2
    <3>2. \A j \in Handles : DecisionOK(j)'
      BY <1>1, <1>4, <2>2, <3>1, NoRequestType, DecisionsStay
    <3> QED
      BY <2>1, <3>1, <3>2
  <2>3. CASE Deciding(request[p])
    <3>1. recorded' = [recorded EXCEPT ![k] = @ + 1]
      BY <1>1, <1>2, <1>4, <2>3
    <3>2. \A j \in Handles : DecisionOK(j)
      BY DEF AInv
    <3>3. ASSUME NEW j \in Handles
          PROVE  /\ \A s : s \in Unrecorded(j) <=> s \in Requests /\ request[s].kol = j /\ Deciding(request[s])
                 /\ \A s : s \in Unrecorded(j)' <=>
                       s \in Requests /\ IF s = p THEN NoRequest.kol = j /\ Deciding(NoRequest)
                                         ELSE s \in Unrecorded(j)
      BY <1>1, NoRequestType, UnrecordedIs
    <3>4. p \in Unrecorded(k)
      BY <1>2, <1>3, <2>3, <3>3
    <3>5. kol[k] = "approved" /\ recorded[k] = 0 /\ \E s \in Requests : Unrecorded(k) = {s}
      BY <1>3, <3>2, <3>4 DEF DecisionOK
    <3>6. Unrecorded(k) = {p}
      BY <3>4, <3>5
    <3>7. Unrecorded(k)' = {}
      BY <1>3, <1>4, <3>3, <3>6
    <3>8. recorded'[k] = 1 /\ \A j \in Handles : j # k => recorded'[j] = recorded[j]
      BY <1>3, <2>1, <3>1, <3>5
    <3>9. 1 \in 0 .. MaxStarts
      BY <1>3, TypesNow
    <3>10. recorded' \in [Handles -> 0 .. MaxStarts]
      <4>1. recorded' = [recorded EXCEPT ![k] = 1]
        BY <1>3, <2>1, <3>1, <3>5
      <4> QED
        BY <2>1, <3>9, <4>1
    <3>11. ASSUME NEW j \in Handles PROVE DecisionOK(j)'
      <4>1. CASE j = k
        BY <1>1, <3>5, <3>7, <3>8, <4>1 DEF DecisionOK
      <4>2. CASE j # k
        <5>1. Unrecorded(j)' = Unrecorded(j)
          BY <1>2, <1>4, <3>3, <4>2
        <5> QED
          BY <1>1, <3>2, <3>8, <4>2, <5>1 DEF DecisionOK
      <4> QED
        BY <4>1, <4>2
    <3> QED
      BY <3>10, <3>11
  <2> QED
    BY <2>2, <2>3
<1>8. Types(kol', code', tweeted', wallet', nonce', signed', login', recorded', starts')
  BY <1>1, <1>7, TypesNow DEF Types
<1> QED
  BY <1>1, <1>4, <1>5, <1>6, <1>7, <1>8, NoRequestType, OneRequest

-----------------------------------------------------------------------------
(* Wallets.                                                                *)

LEMMA CreateKolOK == ASSUME AInv, NEW p \in Requests, CreateKol(p) PROVE AInv'
<1> DEFINE refused == \/ Cardinality(request[p].addrs) > MaxAtOnce
                      \/ kol[request[p].kol] # "absent"
                      \/ \E a \in request[p].addrs : wallet[a].owner # Nobody
<1>1. /\ request[p].op \in {"register", "create"} /\ request[p].step = "create"
      /\ refused => Done(p) /\ UNCHANGED <<kol, wallet>>
      /\ ~refused =>
            /\ kol' = [kol EXCEPT ![request[p].kol] = request[p].status]
            /\ wallet' = [a \in Addresses |->
                  IF a \in request[p].addrs
                  THEN [owner |-> request[p].kol, active |-> TRUE, verified |-> TRUE,
                        vouched |-> request[p].op = "create"]
                  ELSE wallet[a]]
            /\ Go(p, IF request[p].op = "register" THEN "code" ELSE "record")
      /\ UNCHANGED <<code, tweeted, nonce, signed, login, recorded, starts>>
  BY DEF CreateKol
<1>2. ~Half(request[p]) /\ ~Deciding(request[p]) /\ ~AtPaste(request[p])
  BY <1>1 DEF Half, Deciding, AtPaste
<1>3. CASE refused
  BY <1>1, <1>2, <1>3, DoneOK
<1>4. CASE ~refused
  <2>1. PICK r \in RequestType : r = request[p]
    BY TypesNow
  <2>2. PICK k : k = r.kol
    OBVIOUS
  <2>3. /\ r.op \in {"register", "create"} /\ r.step = "create" /\ k \in Handles /\ starts >= 1
        /\ r.op = "register" => /\ r.status = "pending" /\ r.addrs # {}
                                /\ \A a \in r.addrs : Proven(a, "alta de perfil", {})
    BY <1>1, <2>1, <2>2, ReliesOn
  <2>4. PICK step : step = IF r.op = "register" THEN "code" ELSE "record"
    OBVIOUS
  <2>5. /\ step \in Steps /\ Go(p, step) /\ r.addrs \subseteq Addresses /\ r.status \in {"pending", "approved"}
    <3>1. step \in Steps
      BY <2>4 DEF Steps
    <3>2. Go(p, step)
      BY <1>1, <1>4, <2>1, <2>4
    <3>3. r.addrs \subseteq Addresses /\ r.status \in {"pending", "approved"}
      BY DEF RequestType
    <3> QED
      BY <3>1, <3>2, <3>3
  <2>6. PICK q \in RequestType :
           /\ request' = [request EXCEPT ![p] = q]
           /\ q.step = step /\ q.op = r.op /\ q.kol = k /\ q.addrs = r.addrs /\ q.left = r.left
           /\ q.status = r.status
    BY <2>1, <2>2, <2>5, GoType
  <2>7. /\ Cardinality(r.addrs) <= MaxAtOnce \/ ~(Cardinality(r.addrs) \in Nat)
        /\ kol[k] = "absent" /\ \A a \in r.addrs : wallet[a].owner = Nobody
        /\ kol' = [kol EXCEPT ![k] = r.status]
    BY <1>1, <1>4, <2>1, <2>2, AccountsBounds
  <2>8. /\ wallet' = [a \in Addresses |->
               IF a \in r.addrs
               THEN [owner |-> k, active |-> TRUE, verified |-> TRUE, vouched |-> r.op = "create"]
               ELSE wallet[a]]
        /\ UNCHANGED <<code, tweeted, nonce, signed, login, recorded, starts>>
    BY <1>1, <1>4, <2>1, <2>2
  <2>9. /\ kol \in [Handles -> {"absent", "pending", "approved"}] /\ wallet \in [Addresses -> WalletType]
        /\ starts \in Int
    BY TypesNow DEF Types
  <2>10. kol' \in [Handles -> {"absent", "pending", "approved"}]
         /\ \A j \in Handles : kol'[j] = IF j = k THEN r.status ELSE kol[j]
    BY <2>3, <2>5, <2>7, <2>9
  <2>11. wallet' \in [Addresses -> WalletType]
    BY <2>3, <2>8, <2>9 DEF WalletType
  <2>12. \A a \in Addresses :
            wallet'[a] = IF a \in r.addrs
                         THEN [owner |-> k, active |-> TRUE, verified |-> TRUE, vouched |-> r.op = "create"]
                         ELSE wallet[a]
    BY <2>8
  <2>13. Types(kol', code', tweeted', wallet', nonce', signed', login', recorded', starts')
    BY <2>8, <2>10, <2>11, TypesNow DEF Types
  <2>14. Grows
    <3>1. \A a \in Addresses : wallet[a].owner # Nobody => wallet'[a].owner = wallet[a].owner
      BY <2>7, <2>12
    <3>2. \A j \in Handles : kol[j] # "absent" => kol'[j] # "absent"
      BY <2>7, <2>10
    <3>3. starts <= starts' /\ signed' = signed /\ nonce' = nonce
      BY <2>8, <2>9
    <3> QED
      BY <3>1, <3>2, <3>3 DEF AInv, Grows
  <2>15. r.op = "register" => \A a \in r.addrs : SignedFor(a, {"alta de perfil"})'
                                                 /\ SignedFor(a, {"alta de perfil", "agregar wallet"})'
    <3>1. r.op = "register" => \A a \in r.addrs : SignedFor(a, {"alta de perfil"})
                                                  /\ SignedFor(a, {"alta de perfil", "agregar wallet"})
      BY <2>3, ProvenIsSigned
    <3> QED
      BY <2>14, <3>1, SignaturesStay
  <2>16. ASSUME NEW a \in r.addrs PROVE WalletOK(a)'
    <3>1. /\ a \in Addresses /\ wallet'[a].owner = k /\ wallet'[a].active = TRUE
          /\ wallet'[a].vouched = (r.op = "create")
      BY <2>5, <2>12
    <3>2. kol'[k] # "absent"
      BY <2>3, <2>5, <2>10
    <3>3. ~wallet'[a].vouched => SignedFor(a, {"alta de perfil", "agregar wallet"})'
      BY <2>3, <2>15, <3>1
    <3> QED
      BY <3>1, <3>2, <3>3 DEF WalletOK
  <2>17. \A a \in Addresses : wallet'[a] = wallet[a] \/ WalletOK(a)'
    BY <2>12, <2>16
  <2>18. r.op = "register" => Enrolled(k)'
    <3>1. ASSUME r.op = "register" PROVE Enrolled(k)'
      <4>1. PICK a \in r.addrs : SignedFor(a, {"alta de perfil"})'
        BY <2>3, <2>15, <3>1
      <4>2. a \in Addresses /\ wallet'[a].owner = k
        BY <2>5, <2>12
      <4> QED
        BY <4>1, <4>2 DEF Enrolled
    <3> QED
      BY <3>1
  <2>19. RequestOK(q)'
    BY <2>3, <2>4, <2>6, <2>8, <2>18 DEF RequestOK
  <2>20. ~AtPaste(q)
    BY <2>3, <2>6 DEF AtPaste
  <2>21. \A j \in Handles : DecisionOK(j)'
    <3>1. CASE r.op = "create" /\ r.status = "approved"
      <4>1. Deciding(q) /\ kol' = [kol EXCEPT ![k] = "approved"] /\ UNCHANGED recorded
        BY <2>4, <2>6, <2>7, <2>8, <3>1 DEF Deciding
      <4> QED
        BY <1>2, <2>3, <2>6, <2>7, <4>1, ApprovalOK
    <3>2. CASE ~(r.op = "create" /\ r.status = "approved")
      <4>1. r.status = "pending" /\ ~Deciding(q)
        BY <2>3, <2>5, <2>6, <3>2 DEF Deciding
      <4>2. \A j \in Handles : kol'[j] = "approved" <=> kol[j] = "approved"
        BY <2>7, <2>10, <4>1
      <4> QED
        BY <1>2, <2>6, <2>8, <4>1, <4>2, DecisionsStay
    <3> QED
      BY <3>1, <3>2
  <2>22. WalletsAreBounded'
    <3> SUFFICES ASSUME NEW j \in Handles
                 PROVE  Cardinality(Owned(j)') + Cardinality(Pasting(j)')
                           <= MaxWallets + Cardinality(Requests) - 1
      BY DEF WalletsAreBounded
    <3>1. \A s \in Requests : request'[s] = IF s = p THEN q ELSE request[s]
      BY <2>6, TypesNow
    <3>2. Pasting(j)' \subseteq Pasting(j)
      BY <2>20, <3>1 DEF Pasting, At, AtPaste
    <3>3. /\ Pasting(j) \subseteq Requests /\ IsFiniteSet(Pasting(j)) /\ IsFiniteSet(Requests)
          /\ IsFiniteSet(Pasting(j)') /\ Cardinality(Pasting(j)') <= Cardinality(Pasting(j))
      <4>1. Pasting(j) \subseteq Requests
        BY DEF Pasting
      <4> QED
        BY <3>2, <4>1, AccountsBounds, FS_Subset
    <3>4. CASE j = k
      <4>1. Owned(j)' = r.addrs
        <5>1. \A a \in Addresses : wallet[a].owner # k
          BY <2>3, <2>7, NobodyAssumption DEF AInv, WalletOK
        <5> QED
          BY <2>5, <2>12, <3>4, <5>1 DEF Owned
      <4>2. Pasting(j) = {}
        BY <2>7, <3>4, ReliesOn DEF Pasting, At
      <4>3. Pasting(j)' = {} /\ Cardinality(Pasting(j)') = 0
        BY <3>2, <4>2, FS_EmptySet
      <4>4. IsFiniteSet(r.addrs) /\ Cardinality(r.addrs) \in Nat
        BY <2>5, AccountsBounds, FS_Subset, FS_CardinalityType
      <4>5. Cardinality(Requests) \in Nat /\ Cardinality(Requests) # 0
        BY <3>3, FS_CardinalityType, FS_EmptySet
      <4>6. Cardinality(r.addrs) <= MaxAtOnce
        BY <2>7, <4>4
      <4> QED
        BY <4>1, <4>3, <4>4, <4>5, <4>6, AccountsBounds
    <3>5. CASE j # k
      <4>1. Owned(j)' = Owned(j)
        BY <2>7, <2>12, <3>5, NobodyAssumption DEF Owned
      <4>2. Cardinality(Owned(j)) + Cardinality(Pasting(j)) <= MaxWallets + Cardinality(Requests) - 1
        BY DEF AInv, WalletsAreBounded
      <4>3. IsFiniteSet(Owned(j))
        <5>1. Owned(j) \subseteq Addresses
          BY DEF Owned
        <5> QED
          BY <5>1, AccountsBounds, FS_Subset
      <4>4. /\ Cardinality(Owned(j)) \in Nat /\ Cardinality(Pasting(j)) \in Nat
            /\ Cardinality(Pasting(j)') \in Nat /\ Cardinality(Requests) \in Nat
        BY <3>3, <4>3, FS_CardinalityType
      <4> QED
        BY <3>3, <4>1, <4>2, <4>4, AccountsBounds
    <3> QED
      BY <3>4, <3>5
  <2>23. login' = login
    BY <2>8
  <2> QED
    BY <1>2, <2>1, <2>6, <2>13, <2>14, <2>17, <2>19, <2>21, <2>22, <2>23, OneRequest
<1> QED
  BY <1>3, <1>4

\* One who pastes had fewer wallets than the limit, and all who paste are requests.
LEMMA PasteOK == ASSUME AInv, NEW p \in Requests, Paste(p) PROVE AInv'
<1>1. PICK k \in Handles, a \in Addresses :
         /\ SignedIn(k) /\ Cardinality(Owned(k)) < MaxWallets
         /\ Start(p, [NoRequest EXCEPT !.op = "paste", !.step = "find", !.kol = k, !.addrs = {a}])
  BY DEF Paste
<1>2. PICK r : r = [NoRequest EXCEPT !.op = "paste", !.step = "find", !.kol = k, !.addrs = {a}]
  OBVIOUS
<1>3. r \in RequestType /\ r.op = "paste" /\ r.step = "find" /\ r.kol = k
  BY <1>2 DEF NoRequest, RequestType, Steps
<1>4. /\ request[p].step = "free" /\ starts < MaxStarts /\ request' = [request EXCEPT ![p] = r]
      /\ starts' = starts + 1
      /\ UNCHANGED <<kol, code, tweeted, wallet, nonce, signed, login, recorded>>
  BY <1>1, <1>2 DEF Start
<1>5. starts' \in starts .. MaxStarts
  BY <1>4, TypesNow
<1>6. starts' >= 1
  <2>1. starts' = starts + 1
    BY <1>4
  <2>2. starts + 1 >= 1
    BY TypesNow, Counting, Zenon
  <2> QED
    BY <2>1, <2>2, Zenon
<1>7. kol[k] # "absent" /\ kol' = kol
  <2>1. Enrolled(k)
    BY <1>1 DEF AInv, SignedIn
  <2>2. PICK b \in Addresses : wallet[b].owner = k
    BY <2>1 DEF Enrolled
  <2>3. k # Nobody /\ WalletOK(b)
    BY NobodyAssumption DEF AInv
  <2> QED
    BY <1>4, <2>2, <2>3 DEF WalletOK
<1>8. RequestOK(r)'
  BY <1>3, <1>6, <1>7 DEF RequestOK
<1>9. ~Half(request[p]) /\ ~Deciding(request[p]) /\ ~Deciding(r)
  BY <1>3, <1>4 DEF Half, Deciding
<1>10. WalletsAreBounded'
  <2> SUFFICES ASSUME NEW j \in Handles
               PROVE  Cardinality(Owned(j)') + Cardinality(Pasting(j)')
                         <= MaxWallets + Cardinality(Requests) - 1
    BY DEF WalletsAreBounded
  <2>1. Owned(j)' = Owned(j) /\ Owned(j) \subseteq Addresses
    BY <1>4 DEF Owned
  <2>2. Pasting(j)' \subseteq Requests /\ Pasting(j) \subseteq Requests
    BY DEF Pasting
  <2>3. /\ Cardinality(Owned(j)) \in Nat /\ Cardinality(Pasting(j)) \in Nat
        /\ Cardinality(Pasting(j)') \in Nat /\ Cardinality(Requests) \in Nat
        /\ Cardinality(Pasting(j)') <= Cardinality(Requests)
    BY <2>1, <2>2, AccountsBounds, FS_Subset, FS_CardinalityType
  <2>4. CASE j = k
    <3>1. Cardinality(Owned(j)) < MaxWallets
      BY <1>1, <2>4
    <3> QED
      BY <2>1, <2>3, <3>1, AccountsBounds
  <2>5. CASE j # k
    <3>1. \A s \in Requests : request'[s] = IF s = p THEN r ELSE request[s]
      BY <1>4, TypesNow
    <3>2. Pasting(j)' \subseteq Pasting(j)
      BY <1>3, <2>5, <3>1 DEF Pasting, At
    <3>3. Cardinality(Pasting(j)') <= Cardinality(Pasting(j))
      BY <2>2, <3>2, AccountsBounds, FS_Subset
    <3>4. Cardinality(Owned(j)) + Cardinality(Pasting(j)) <= MaxWallets + Cardinality(Requests) - 1
      BY DEF AInv, WalletsAreBounded
    <3> QED
      BY <2>1, <2>3, <3>3, <3>4, AccountsBounds
  <2> QED
    BY <2>4, <2>5
<1> QED
  BY <1>3, <1>4, <1>5, <1>8, <1>9, <1>10, OnlyRequest

LEMMA FindWalletOK == ASSUME AInv, NEW p \in Requests, FindWallet(p) PROVE AInv'
<1>1. /\ request[p].op = "paste" /\ request[p].step = "find"
      /\ Done(p) \/ Go(p, "insert")
      /\ UNCHANGED <<kol, code, tweeted, wallet, nonce, signed, login, recorded, starts>>
  BY DEF FindWallet, At
<1>2. ~Half(request[p]) /\ ~Deciding(request[p]) /\ AtPaste(request[p])
  BY <1>1 DEF Half, Deciding, AtPaste
<1>3. CASE Done(p)
  BY <1>1, <1>2, <1>3, DoneOK
<1>4. CASE Go(p, "insert")
  <2>1. "insert" \in Steps
    BY DEF Steps
  <2>2. PICK q \in RequestType :
           /\ request' = [request EXCEPT ![p] = q]
           /\ q.step = "insert" /\ q.op = request[p].op /\ q.kol = request[p].kol
    BY <1>4, <2>1, GoType
  <2>3. request[p].kol \in Handles /\ kol[request[p].kol] # "absent" /\ starts >= 1
    BY <1>1, ReliesOn
  <2>4. kol' = kol /\ starts' = starts
    BY <1>1
  <2>5. q.kol \in Handles /\ kol'[q.kol] # "absent" /\ starts' >= 1 /\ q.op = "paste"
    BY <1>1, <2>2, <2>3, <2>4
  <2>6. RequestOK(q)'
    BY <2>2, <2>5 DEF RequestOK
  <2>7. ~Deciding(q)
    BY <2>5 DEF Deciding
  <2>8. WalletsAreBounded'
    BY <1>1, <1>2, <2>2, PastesStay
  <2>9. starts' \in starts .. MaxStarts
    BY <2>4, TypesNow
  <2> QED
    BY <1>1, <1>2, <2>2, <2>6, <2>7, <2>8, <2>9, OnlyRequest
<1> QED
  BY <1>1, <1>3, <1>4

LEMMA InsertWalletOK == ASSUME AInv, NEW p \in Requests, InsertWallet(p) PROVE AInv'
<1>1. PICK a \in request[p].addrs :
         IF wallet[a].owner # Nobody
         THEN Done(p) /\ UNCHANGED wallet
         ELSE /\ wallet' = [wallet EXCEPT ![a] = [owner |-> request[p].kol, active |-> TRUE,
                                                 verified |-> TRUE, vouched |-> FALSE]]
              /\ Go(p, "unverify")
  BY DEF InsertWallet
<1>2. /\ request[p].op = "paste" /\ request[p].step = "insert"
      /\ UNCHANGED <<kol, code, tweeted, nonce, signed, login, recorded, starts>>
  BY DEF InsertWallet, At
<1>3. ~Half(request[p]) /\ ~Deciding(request[p]) /\ AtPaste(request[p])
  BY <1>2 DEF Half, Deciding, AtPaste
<1>4. CASE wallet[a].owner # Nobody
  BY <1>1, <1>2, <1>3, <1>4, DoneOK
<1>5. CASE wallet[a].owner = Nobody
  <2>1. PICK k \in Handles : k = request[p].kol /\ kol[k] # "absent" /\ starts >= 1
    BY <1>2, ReliesOn
  <2>2. /\ wallet' = [wallet EXCEPT ![a] = [owner |-> k, active |-> TRUE, verified |-> TRUE, vouched |-> FALSE]]
        /\ Go(p, "unverify") /\ "unverify" \in Steps
    BY <1>1, <1>5, <2>1 DEF Steps
  <2>3. PICK q \in RequestType :
           /\ request' = [request EXCEPT ![p] = q]
           /\ q.step = "unverify" /\ q.op = request[p].op /\ q.kol = request[p].kol
           /\ q.addrs = request[p].addrs
    BY <2>2, GoType
  <2>4. a \in Addresses /\ wallet \in [Addresses -> WalletType] /\ starts \in Int
    BY TypesNow DEF RequestType
  <2>5. wallet' \in [Addresses -> WalletType]
    BY <2>2, <2>4 DEF WalletType
  <2>6. \A b \in Addresses :
           wallet'[b] = IF b = a THEN [owner |-> k, active |-> TRUE, verified |-> TRUE, vouched |-> FALSE]
                        ELSE wallet[b]
    BY <2>2, <2>4
  <2>7. Types(kol', code', tweeted', wallet', nonce', signed', login', recorded', starts')
    BY <1>2, <2>5, TypesNow DEF Types
  <2>8. Grows
    <3>1. \A b \in Addresses : wallet[b].owner # Nobody => wallet'[b].owner = wallet[b].owner
      BY <1>5, <2>6
    <3>2. starts <= starts' /\ signed' = signed /\ nonce' = nonce /\ kol' = kol
      BY <1>2, <2>4
    <3> QED
      BY <3>1, <3>2 DEF AInv, Grows
  <2>9. HalfPasted(a)'
    <3>1. request'[p] = q
      BY <2>3, TypesNow
    <3> QED
      BY <1>2, <2>3, <3>1 DEF HalfPasted
  <2>10. WalletOK(a)'
    <3>1. wallet'[a].owner = k /\ wallet'[a].active = TRUE /\ kol' = kol
      BY <1>2, <2>4, <2>6
    <3> QED
      BY <2>1, <2>9, <3>1 DEF WalletOK
  <2>11. \A b \in Addresses : wallet'[b] = wallet[b] \/ WalletOK(b)'
    BY <2>6, <2>10
  <2>12. RequestOK(q)'
    <3>1. kol' = kol /\ starts' = starts /\ q.op = "paste" /\ q.kol = k
      BY <1>2, <2>1, <2>3
    <3> QED
      BY <2>1, <2>3, <3>1 DEF RequestOK
  <2>13. ~Deciding(q)
    BY <1>2, <2>3 DEF Deciding
  <2>14. \A j \in Handles : DecisionOK(j)'
    BY <1>2, <1>3, <2>3, <2>13, DecisionsStay
  <2>15. WalletsAreBounded'
    <3> SUFFICES ASSUME NEW j \in Handles
                 PROVE  Cardinality(Owned(j)') + Cardinality(Pasting(j)')
                           <= MaxWallets + Cardinality(Requests) - 1
      BY DEF WalletsAreBounded
    <3>1. \A s \in Requests : request'[s] = IF s = p THEN q ELSE request[s]
      BY <2>3, TypesNow
    <3>2. Owned(j) \subseteq Addresses /\ Pasting(j) \subseteq Requests
      BY DEF Owned, Pasting
    <3>3. IsFiniteSet(Owned(j)) /\ IsFiniteSet(Pasting(j))
      BY <3>2, AccountsBounds, FS_Subset
    <3>4. /\ Cardinality(Owned(j)) \in Nat /\ Cardinality(Pasting(j)) \in Nat /\ Cardinality(Requests) \in Nat
      BY <3>3, AccountsBounds, FS_CardinalityType
    <3>5. Cardinality(Owned(j)) + Cardinality(Pasting(j)) <= MaxWallets + Cardinality(Requests) - 1
      BY DEF AInv, WalletsAreBounded
    <3>6. CASE j = k
      <4>1. Owned(j)' = Owned(j) \cup {a} /\ a \notin Owned(j)
        BY <1>5, <2>4, <2>6, <3>6, NobodyAssumption DEF Owned
      <4>2. Pasting(j)' = Pasting(j) \ {p} /\ p \in Pasting(j)
        BY <1>2, <2>1, <2>3, <3>1, <3>6 DEF Pasting, At
      <4>3. Cardinality(Owned(j)') = Cardinality(Owned(j)) + 1
        BY <3>3, <4>1, FS_AddElement
      <4>4. Cardinality(Pasting(j)') = Cardinality(Pasting(j)) - 1
        BY <3>3, <4>2, FS_RemoveElement
      <4> QED
        BY <3>4, <3>5, <4>3, <4>4
    <3>7. CASE j # k
      <4>1. Owned(j)' = Owned(j)
        BY <1>5, <2>6, <3>7, NobodyAssumption DEF Owned
      <4>2. Pasting(j)' = Pasting(j)
        BY <2>1, <2>3, <3>1, <3>7 DEF Pasting, At
      <4> QED
        BY <3>5, <4>1, <4>2
    <3> QED
      BY <3>6, <3>7
  <2>16. login' = login
    BY <1>2
  <2> QED
    BY <1>3, <2>3, <2>7, <2>8, <2>11, <2>12, <2>14, <2>15, <2>16, OneRequest
<1> QED
  BY <1>4, <1>5

\* A handler ends with a change of its wallets that leaves them as they ought to be.
LEMMA WalletsDone ==
    ASSUME AInv, NEW p \in Requests, Done(p), ~Deciding(request[p]),
           UNCHANGED <<kol, code, tweeted, nonce, signed, login, recorded, starts>>,
           wallet' \in [Addresses -> WalletType],
           \A a \in Addresses : /\ wallet'[a].owner = wallet[a].owner
                                /\ wallet'[a].active => wallet[a].active
                                /\ a \notin request[p].addrs => wallet'[a] = wallet[a],
           Grows => \A a \in Addresses : wallet'[a] = wallet[a] \/ WalletOK(a)',
           Half(request[p]) => \A a \in request[p].addrs : WalletOK(a)'
    PROVE  AInv'
<1>1. request' = [request EXCEPT ![p] = NoRequest]
  BY DEF Done
<1>2. Types(kol', code', tweeted', wallet', nonce', signed', login', recorded', starts')
  BY TypesNow DEF Types
<1>3. Grows
  <2>1. starts \in Int /\ starts' = starts
    BY TypesNow
  <2>2. starts <= starts'
    BY <2>1
  <2> QED
    BY <2>2 DEF AInv, Grows
<1>4. RequestOK(NoRequest)' /\ ~Deciding(NoRequest) /\ ~AtPaste(NoRequest)
  BY NoRequestType DEF RequestOK, Deciding, AtPaste
<1>5. WalletsAreBounded'
  BY <1>1, <1>4, NoRequestType, PastesStay
<1>6. \A k \in Handles : DecisionOK(k)'
  BY <1>1, <1>4, NoRequestType, DecisionsStay
<1> QED
  BY <1>1, <1>2, <1>3, <1>4, <1>5, <1>6, NoRequestType, OneRequest

LEMMA UnverifyOK == ASSUME AInv, NEW p \in Requests, Unverify(p) PROVE AInv'
<1>1. /\ wallet' = [a \in Addresses |-> IF a \in request[p].addrs
                                        THEN [wallet[a] EXCEPT !.verified = FALSE] ELSE wallet[a]]
      /\ Done(p) /\ request[p].op = "paste"
      /\ UNCHANGED <<kol, code, tweeted, nonce, signed, login, recorded, starts>>
  BY DEF Unverify, At
<1>2. wallet \in [Addresses -> WalletType] /\ request[p] \in RequestType
  BY TypesNow
<1>3. wallet' \in [Addresses -> WalletType]
  BY <1>1, <1>2 DEF WalletType
<1>4. \A a \in Addresses : /\ wallet'[a].owner = wallet[a].owner /\ wallet'[a].active = wallet[a].active
                           /\ a \notin request[p].addrs => wallet'[a] = wallet[a]
                           /\ a \in request[p].addrs => wallet'[a].verified = FALSE
  BY <1>1, <1>2 DEF WalletType
<1>5. ASSUME NEW a \in Addresses, a \in request[p].addrs PROVE WalletOK(a)'
  <2>1. WalletOK(a)
    BY DEF AInv
  <2>2. SignedFor(a, {"retirar wallet"}) => SignedFor(a, {"retirar wallet"})'
    BY <1>1 DEF SignedFor
  <2>3. kol' = kol
    BY <1>1
  <2> QED
    BY <1>4, <1>5, <2>1, <2>2, <2>3 DEF WalletOK
<1>6. \A a \in Addresses : wallet'[a] = wallet[a] \/ WalletOK(a)'
  BY <1>4, <1>5
<1>7. \A a \in request[p].addrs : WalletOK(a)'
  BY <1>2, <1>5 DEF RequestType
<1>8. ~Deciding(request[p])
  BY <1>1 DEF Deciding
<1> QED
  BY <1>1, <1>3, <1>4, <1>6, <1>7, <1>8, WalletsDone

LEMMA MarkVerifiedOK == ASSUME AInv, NEW p \in Requests, MarkVerified(p) PROVE AInv'
<1>1. PICK a \in request[p].addrs :
         wallet' = IF \E n \in Nonces : Proves(n, a, "agregar wallet") /\ nonce[n].state = "used"
                   THEN [wallet EXCEPT ![a].verified = TRUE] ELSE wallet
  BY DEF MarkVerified
<1>2. /\ Done(p) /\ request[p].op = "validate"
      /\ UNCHANGED <<kol, code, tweeted, nonce, signed, login, recorded, starts>>
  BY DEF MarkVerified, At
<1>3. wallet \in [Addresses -> WalletType] /\ a \in Addresses
  BY TypesNow DEF RequestType
<1>4. wallet' \in [Addresses -> WalletType]
  BY <1>1, <1>3 DEF WalletType
<1>5. \A b \in Addresses : /\ wallet'[b].owner = wallet[b].owner /\ wallet'[b].active = wallet[b].active
                           /\ b # a => wallet'[b] = wallet[b]
  BY <1>1, <1>3 DEF WalletType
<1>6. wallet'[a] = wallet[a] \/ WalletOK(a)'
  <2>1. CASE \E n \in Nonces : Proves(n, a, "agregar wallet") /\ nonce[n].state = "used"
    <3>1. SignedFor(a, {"alta de perfil", "agregar wallet"})
      BY <2>1 DEF Proves, SignedFor
    <3>2. SignedFor(a, {"alta de perfil", "agregar wallet"})'
      BY <1>2, <3>1 DEF SignedFor
    <3>3. SignedFor(a, {"retirar wallet"}) => SignedFor(a, {"retirar wallet"})'
      BY <1>2 DEF SignedFor
    <3>4. WalletOK(a) /\ kol' = kol
      BY <1>2, <1>3 DEF AInv
    <3> QED
      BY <1>3, <1>5, <3>2, <3>3, <3>4 DEF WalletOK
  <2>2. CASE ~\E n \in Nonces : Proves(n, a, "agregar wallet") /\ nonce[n].state = "used"
    BY <1>1, <2>2
  <2> QED
    BY <2>1, <2>2
<1>7. ~Deciding(request[p]) /\ ~Half(request[p])
  BY <1>2 DEF Deciding, Half
<1>8. \A b \in Addresses : wallet'[b] = wallet[b] \/ WalletOK(b)'
  BY <1>5, <1>6
<1>9. \A b \in Addresses : /\ wallet'[b].owner = wallet[b].owner
                           /\ wallet'[b].active => wallet[b].active
                           /\ b \notin request[p].addrs => wallet'[b] = wallet[b]
  BY <1>5
<1> QED
  BY <1>2, <1>4, <1>7, <1>8, <1>9, WalletsDone

LEMMA FindSignerOK == ASSUME AInv, NEW p \in Requests, FindSigner(p) PROVE AInv'
<1>1. /\ request[p].op = "withdraw" /\ request[p].step = "signer"
      /\ Done(p) \/ Go(p, "retire")
      /\ UNCHANGED <<kol, code, tweeted, wallet, nonce, signed, login, recorded, starts>>
  BY DEF FindSigner, At
<1>2. ~Half(request[p]) /\ ~Deciding(request[p])
  BY <1>1 DEF Half, Deciding
<1>3. CASE Done(p)
  BY <1>1, <1>2, <1>3, DoneOK
<1>4. CASE Go(p, "retire")
  <2>1. "retire" \in Steps
    BY DEF Steps
  <2>2. PICK q \in RequestType :
           /\ request' = [request EXCEPT ![p] = q]
           /\ q.step = "retire" /\ q.op = request[p].op /\ q.addrs = request[p].addrs
    BY <1>4, <2>1, GoType
  <2>3. (\A a \in request[p].addrs : Proven(a, "retirar wallet", {})) /\ starts >= 1
    BY <1>1, ReliesOn
  <2>4. \A a \in q.addrs : Proven(a, "retirar wallet", {})'
    <3>1. Grows
      BY <1>1, GrowsIfKept
    <3> QED
      BY <2>2, <2>3, <3>1, SignaturesStay
  <2>5. starts' = starts /\ q.op = "withdraw"
    BY <1>1, <2>2
  <2>6. RequestOK(q)'
    BY <2>2, <2>3, <2>4, <2>5 DEF RequestOK
  <2>7. ~Deciding(q) /\ ~AtPaste(q)
    BY <2>5 DEF Deciding, AtPaste
  <2>8. WalletsAreBounded'
    BY <1>1, <2>2, <2>7, PastesStay
  <2>9. starts' \in starts .. MaxStarts
    BY <2>5, TypesNow
  <2> QED
    BY <1>1, <1>2, <2>2, <2>6, <2>7, <2>8, <2>9, OnlyRequest
<1> QED
  BY <1>1, <1>3, <1>4

LEMMA RetireOK == ASSUME AInv, NEW p \in Requests, Retire(p) PROVE AInv'
<1>1. /\ wallet' = [a \in Addresses |-> IF a \in request[p].addrs
                                        THEN [wallet[a] EXCEPT !.active = FALSE] ELSE wallet[a]]
      /\ Done(p) /\ request[p].op = "withdraw" /\ request[p].step = "retire"
      /\ UNCHANGED <<kol, code, tweeted, nonce, signed, login, recorded, starts>>
  BY DEF Retire, At
<1>2. wallet \in [Addresses -> WalletType]
  BY TypesNow
<1>3. wallet' \in [Addresses -> WalletType]
  BY <1>1, <1>2 DEF WalletType
<1>4. \A a \in Addresses : /\ wallet'[a].owner = wallet[a].owner /\ (wallet'[a].active => wallet[a].active)
                           /\ a \notin request[p].addrs => wallet'[a] = wallet[a]
                           /\ wallet'[a].verified = wallet[a].verified
                           /\ wallet'[a].vouched = wallet[a].vouched
  BY <1>1, <1>2 DEF WalletType
<1>5. \A a \in request[p].addrs : SignedFor(a, {"retirar wallet"})
  BY <1>1, ReliesOn, ProvenIsSigned
<1>6. ASSUME Grows, NEW a \in Addresses, a \in request[p].addrs PROVE WalletOK(a)'
  <2>1. WalletOK(a) /\ kol' = kol
    BY <1>1 DEF AInv
  <2>2. /\ SignedFor(a, {"alta de perfil", "agregar wallet"})
              => SignedFor(a, {"alta de perfil", "agregar wallet"})'
        /\ SignedFor(a, {"retirar wallet"})'
    BY <1>5, <1>6, SignaturesStay
  <2>3. HalfPasted(a) => HalfPasted(a)'
    <3>1. ASSUME HalfPasted(a) PROVE HalfPasted(a)'
      <4>1. PICK s \in Requests : /\ request[s].op = "paste" /\ a \in request[s].addrs
                                  /\ request[s].step \in {"unverify", "dead"}
        BY <3>1 DEF HalfPasted
      <4>2. s # p
        BY <1>1, <4>1
      <4>3. request'[s] = request[s]
        BY <1>1, <4>2, TypesNow DEF Done
      <4> QED
        BY <4>1, <4>3 DEF HalfPasted
    <3> QED
      BY <3>1
  <2> QED
    BY <1>4, <2>1, <2>2, <2>3 DEF WalletOK
<1>7. ~Deciding(request[p]) /\ ~Half(request[p])
  BY <1>1 DEF Deciding, Half
<1>8. Grows => \A a \in Addresses : wallet'[a] = wallet[a] \/ WalletOK(a)'
  BY <1>4, <1>6
<1> QED
  BY <1>1, <1>3, <1>4, <1>7, <1>8, WalletsDone

-----------------------------------------------------------------------------
(* The theorems.                                                           *)

LEMMA InitOK == AccountsInit => AInv
<1> SUFFICES ASSUME AccountsInit PROVE AInv
  OBVIOUS
<1>1. /\ kol = [k \in Handles |-> "absent"] /\ code = {} /\ tweeted = {} /\ signed = {} /\ starts = 0
      /\ wallet = [a \in Addresses |-> NoWallet] /\ nonce = [n \in Nonces |-> NoNonce]
      /\ login = [k \in Handles |-> "none"] /\ request = [p \in Requests |-> NoRequest]
      /\ recorded = [k \in Handles |-> 0]
  BY DEF AccountsInit
<1>2. AccountsTypeOK
  <2>1. NoWallet \in WalletType /\ NoNonce \in NonceType
    BY DEF NoWallet, NoNonce, WalletType, NonceType, Acts
  <2>2. 0 \in 0 .. MaxStarts
    BY AccountsBounds
  <2>3. Types(kol, code, tweeted, wallet, nonce, signed, login, recorded, starts)
    BY <1>1, <2>1, <2>2 DEF Types
  <2>4. request \in [Requests -> RequestType]
    BY <1>1, NoRequestType
  <2> QED
    BY <2>3, <2>4, TypeIs
<1>3. \A p \in Requests : request[p] = NoRequest /\ RequestOK(request[p])
  BY <1>1, NoRequestType DEF RequestOK
<1>4. \A a \in Addresses : WalletOK(a) /\ wallet[a].owner = Nobody
  BY <1>1 DEF WalletOK, NoWallet
<1>5. \A k \in Handles : login[k] = "none"
  BY <1>1
<1>6. ASSUME NEW k \in Handles PROVE DecisionOK(k)
  <2>1. Unrecorded(k) = {}
    BY <1>3, NoRequestType DEF Unrecorded
  <2> QED
    BY <1>1, <2>1 DEF DecisionOK
<1>7. WalletsAreBounded
  <2> SUFFICES ASSUME NEW k \in Handles
               PROVE  Cardinality(Owned(k)) + Cardinality(Pasting(k))
                         <= MaxWallets + Cardinality(Requests) - 1
    BY DEF WalletsAreBounded
  <2>1. Owned(k) = {} /\ Pasting(k) = {}
    BY <1>3, <1>4, NobodyAssumption, NoRequestType DEF Owned, Pasting, At
  <2>2. Cardinality(Owned(k)) = 0 /\ Cardinality(Pasting(k)) = 0
    BY <2>1, FS_EmptySet
  <2>3. Cardinality(Requests) \in Nat /\ MaxWallets \in Nat /\ MaxWallets >= 1
    BY AccountsBounds, FS_CardinalityType
  <2> QED
    BY <2>2, <2>3
<1> QED
  BY <1>1, <1>2, <1>3, <1>4, <1>5, <1>6, <1>7 DEF AInv

LEMMA StepOK == AInv /\ [AccountsNext]_accountsVars => AInv'
<1> SUFFICES ASSUME AInv, [AccountsNext]_accountsVars PROVE AInv'
  OBVIOUS
<1>1. CASE UNCHANGED accountsVars
  <2>1. UNCHANGED <<kol, code, tweeted, wallet, nonce, signed, login, request, recorded, starts>>
    BY <1>1 DEF accountsVars
  <2>2. Grows
    BY <2>1, GrowsIfKept
  <2> QED
    BY <2>1, <2>2, TypesNow, NoHandler DEF Types
<1>2. ASSUME NEW n \in Nonces,
             (\E a \in Addresses, act \in Acts : IssueNonce(n, a, act)) \/ Sign(n) \/ ExpireNonce(n)
      PROVE  AInv'
  BY <1>2, IssueNonceOK, SignOK, ExpireNonceOK
<1>3. ASSUME NEW k \in Handles, CloseSession(k) PROVE AInv'
  BY <1>3, CloseSessionOK
<1>4. ASSUME NEW p \in Requests,
             Register(p) \/ CreateByAdmin(p) \/ CreateKol(p) \/ GiveCode(p) \/ OpenSession(p)
             \/ Approve(p) \/ ApproveKol(p) \/ RecordDecision(p) \/ CheckTweet(p) \/ MarkTweet(p)
      PROVE  AInv'
  BY <1>4, RegisterOK, CreateByAdminOK, CreateKolOK, GiveCodeOK, OpenSessionOK, ApproveOK,
     ApproveKolOK, RecordDecisionOK, CheckTweetOK, MarkTweetOK
<1>5. ASSUME NEW p \in Requests,
             Paste(p) \/ FindWallet(p) \/ InsertWallet(p) \/ Unverify(p) \/ Validate(p) \/ MarkVerified(p)
             \/ Withdraw(p) \/ FindSigner(p) \/ Retire(p) \/ Die(p)
      PROVE  AInv'
  BY <1>5, PasteOK, FindWalletOK, InsertWalletOK, UnverifyOK, ValidateOK, MarkVerifiedOK,
     WithdrawOK, FindSignerOK, RetireOK, DieOK
<1>6. ASSUME NEW p \in Requests,
             Burn(p, "register", "alta de perfil", "create") \/ Burn(p, "validate", "agregar wallet", "mark")
             \/ Burn(p, "withdraw", "retirar wallet", "signer")
      PROVE  AInv'
  BY <1>6, BurnOK
<1> QED
  BY <1>1, <1>2, <1>3, <1>4, <1>5, <1>6 DEF AccountsNext

LEMMA Inductive == AccountsSpec => []AInv
<1>1. AccountsInit => AInv
  BY InitOK
<1>2. AInv /\ [AccountsNext]_accountsVars => AInv'
  BY StepOK
<1> QED
  BY <1>1, <1>2, PTL DEF AccountsSpec

\* Every reachable state of the accounts has its type (kol, kol_wallet, wallet_proof_nonce).
THEOREM AccountsTypeCorrect == AccountsSpec => []AccountsTypeOK
<1>1. AInv => AccountsTypeOK
  BY DEF AInv
<1> QED
  BY <1>1, Inductive, PTL

\* Sessions, proved wallets and withdrawals each have a signature behind them (verifyProof,
\* consumeNonce), whatever requests are at once and wherever they die.
THEOREM Signed == AccountsSpec => []StandsOnASignature
<1>1. AInv => StandsOnASignature
  BY DEF AInv, StandsOnASignature, Enrolled, WalletOK
<1> QED
  BY <1>1, Inductive, PTL

\* An approval leaves one entry in the log, and none only where its request died (approve).
THEOREM RecordedOnce == AccountsSpec => []DecidedOnce
<1>1. AInv => DecidedOnce
  <2> SUFFICES ASSUME AInv, NEW k \in Handles
               PROVE  /\ kol[k] # "approved" => recorded[k] = 0
                      /\ kol[k] = "approved" => /\ recorded[k] <= 1
                                                /\ recorded[k] = 0 => Unrecorded(k) # {}
    BY DEF DecidedOnce
  <2>1. DecisionOK(k)
    BY DEF AInv
  <2>2. kol[k] # "approved" => recorded[k] = 0
    BY <2>1 DEF DecisionOK
  <2>3. kol[k] = "approved" => recorded[k] = 1 \/ (recorded[k] = 0 /\ Unrecorded(k) # {})
    BY <2>1 DEF DecisionOK
  <2> QED
    BY <2>2, <2>3
<1> QED
  BY <1>1, Inductive, PTL

\* Requests at once pass the limit on wallets by one each at most (readProfile, addWallet).
THEOREM LimitedWallets == AccountsSpec => []WalletsAreBounded
<1>1. AInv => WalletsAreBounded
  BY DEF AInv
<1> QED
  BY <1>1, Inductive, PTL
=============================================================================
