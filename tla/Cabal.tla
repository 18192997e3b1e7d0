------------------------------- MODULE Cabal -------------------------------
(***************************************************************************)
(* The signed actions of a cabal, lib/cabal-actions.ts.  An action is      *)
(* authorised first, outside of its transaction; then one statement finds  *)
(* the row of the cabal and waits for its lock, the rows of KOLs are read, *)
(* without a lock, and the writes are committed.  A session is in one of   *)
(* three steps: "sent" (the statement that takes the lock has taken its    *)
(* snapshot), "decided" (it has the lock, has read what the rule needs and *)
(* has not been refused) and "idle".                                       *)
(*                                                                         *)
(* A statement that has waited for a row (READ COMMITTED) looks again at   *)
(* the new version of that row, but at everything else in the snapshot it  *)
(* began with: the deputies, the wallets, and the KOL that was joined as   *)
(* the leader.  A KOL has at most one wallet here, kol.status is always    *)
(* 'approved' (nothing in src/ changes it back), and the tables of names,  *)
(* colours and signatures are left out.                                    *)
(***************************************************************************)
EXTENDS Integers, FiniteSets

CONSTANTS
    Kols,
    Cabals,        \* rows of the table cabal
    Tags,
    Sessions,      \* requests being served
    NoOne,         \* a leader, a nominee that is NULL; the admin as an actor
    NoCabal,
    NoTag,
    MaxProofs      \* bound: requests sent in a behaviour

ASSUME KolAssumption == NoOne \notin Kols /\ NoCabal \notin Cabals /\ NoTag \notin Tags
ASSUME BoundAssumption == MaxProofs \in Nat

VARIABLES
    status,        \* "absent", "live" or "dissolved", by cabal
    tag,           \* cabal.tag
    leader,        \* cabal.leader_kol_id
    deputies,      \* cabal_co_leader
    member,        \* kol.cabal_id
    canSign,       \* KOLs with an active wallet
    asked,         \* pending rows of cabal_request
    offer,         \* the pending nomination of a cabal, if any
    session,
    proofs         \* requests sent so far

vars == <<status, tag, leader, deputies, member, canSign, asked, offer, session, proofs>>

-----------------------------------------------------------------------------
(* What a session holds.                                                   *)

AsEither == {"aceptar solicitud", "rechazar solicitud", "expulsar del cabal"}
AsLeader == {"transferir el cabal", "nombrar co-lider", "revocar co-lider"}
ByTag == {"crear cabal", "pedir entrar", "reclamar cabal", "nominar", "disolver cabal"}

\* What the snapshot of the locking statement said.
Led == [leads : SUBSET Cabals, deputyOf : SUBSET Cabals]
Joined == [was : Kols \cup {NoOne}, noDeputy : BOOLEAN, unable : BOOLEAN]
Nothing == [leads |-> {}, deputyOf |-> {}]

Idle == [step |-> "idle", act |-> "none", who |-> NoOne, whom |-> NoOne,
         on |-> NoCabal, tag |-> NoTag, seen |-> Nothing]

SessionType ==
    [step : {"idle", "sent", "decided"},
     act : AsEither \cup AsLeader \cup ByTag \cup {"none"},
     who : Kols \cup {NoOne}, whom : Kols \cup {NoOne},
     on : Cabals \cup {NoCabal}, tag : Tags \cup {NoTag},
     seen : Led \cup Joined]

Offers == [to : Kols \cup {NoOne}, expired : BOOLEAN]
NoOffer == [to |-> NoOne, expired |-> FALSE]

TypeOK ==
    /\ status \in [Cabals -> {"absent", "live", "dissolved"}]
    /\ tag \in [Cabals -> Tags \cup {NoTag}]
    /\ leader \in [Cabals -> Kols \cup {NoOne}]
    /\ deputies \in [Cabals -> SUBSET Kols]
    /\ member \in [Kols -> Cabals \cup {NoCabal}]
    /\ canSign \subseteq Kols
    /\ asked \subseteq Cabals \X Kols
    /\ offer \in [Cabals -> Offers]
    /\ session \in [Sessions -> SessionType]
    /\ proofs \in 0 .. MaxProofs

\* Mutant: the row is read without FOR UPDATE.
Unlocked(c) == c \in Cabals

\* Nobody holds the row of c, FOR UPDATE.
Free(c) == \A s \in Sessions : ~(session[s].step = "decided" /\ session[s].on = c)

Send(s, r) ==
    /\ session[s].step = "idle"
    /\ proofs < MaxProofs
    /\ session' = [session EXCEPT ![s] = r]
    /\ proofs' = proofs + 1
    /\ UNCHANGED <<status, tag, leader, deputies, member, canSign, asked, offer>>

\* COMMIT, ROLLBACK or a refusal: the session is done.
End(s) == session' = [session EXCEPT ![s] = Idle]

Decide(s, c) ==
    session' = [session EXCEPT ![s].step = "decided", ![s].on = c]

Sent(s, act) == session[s].step = "sent" /\ session[s].act = act
Decided(s, act) == session[s].step = "decided" /\ session[s].act = act

\* lib/orphan-cabals.ts, ORPHAN_PREDICATE, as the snapshot has it and as the
\* statement decides it once it has the row: the KOL joined as the leader is
\* the one of the snapshot, and no KOL at all if the leader has changed since,
\* which passes the test that it has no wallet.
Snapshot(c) ==
    [was |-> leader[c], noDeputy |-> deputies[c] = {}, unable |-> leader[c] \notin canSign]

Orphaned(c, seen) ==
    /\ status[c] = "live"
    /\ seen.noDeputy
    /\ leader[c] = NoOne \/ leader[c] # seen.was \/ seen.unable

OrphanNow(c) == Orphaned(c, Snapshot(c))

-----------------------------------------------------------------------------
(* Actions of a leader or a deputy, under the lock of their cabal.         *)

\* authorise, then ledCabal up to its wait.
AskAsLeader(s) ==
    \E k \in canSign, x \in Kols, act \in AsEither \cup AsLeader :
        LET leads == {c \in Cabals : status[c] = "live" /\ leader[c] = k}
            deputyOf == {c \in Cabals : status[c] = "live" /\ act \in AsEither /\ k \in deputies[c]}
        IN  /\ leads \cup deputyOf # {}
            /\ Send(s, [Idle EXCEPT !.step = "sent", !.act = act, !.who = k, !.whom = x,
                                    !.seen = [leads |-> leads, deputyOf |-> deputyOf]])

\* Mutant: the request is looked up by its KOL alone.
AppliedAnywhere(c, x) == \E d \in Cabals : <<d, x>> \in asked

\* The pending request of this KOL to this cabal.
Applied(c, x) == <<c, x>> \in asked

\* The rule of each action, on the rows it reads once it has the lock.
Allowed(act, c, k, x) ==
    \/ act = "aceptar solicitud" /\ Applied(c, x) /\ member[x] = NoCabal
    \/ act = "rechazar solicitud" /\ Applied(c, x)
    \/ act = "expulsar del cabal" /\ member[x] = c /\ x \notin {leader[c], k}
    \/ act = "transferir el cabal" /\ member[x] = c /\ x # k
    \/ /\ act = "nombrar co-lider"
       /\ member[x] = c /\ x # k
       /\ x \notin deputies[c] /\ Cardinality(deputies[c]) < 2
    \/ act = "revocar co-lider" /\ x \in deputies[c]

\* Mutants: a cabal that has ended, a leader of the snapshot only.
EverLed(c, r) == leader[c] = r.who \/ c \in r.seen.deputyOf
LedThen(c, r) == status[c] = "live" /\ c \in r.seen.leads \cup r.seen.deputyOf

StillLeads(c, r) == status[c] = "live" /\ (leader[c] = r.who \/ c \in r.seen.deputyOf)

\* ledCabal after its wait, and the reads.  Who leads several cabals has the
\* first row that is returned; the lock it has on the others is left out.
LockAsLeader(s) ==
    LET r == session[s]
        found == r.seen.leads \cup r.seen.deputyOf
        rows == {c \in found : StillLeads(c, r)}
    IN  /\ r.step = "sent" /\ r.act \in AsEither \cup AsLeader
        /\ \A c \in found : Free(c)
        /\ \/ rows = {} /\ End(s)
           \/ \E c \in rows :
                 IF Allowed(r.act, c, r.who, r.whom) THEN Decide(s, c) ELSE End(s)
        /\ UNCHANGED <<status, tag, leader, deputies, member, canSign, asked, offer, proofs>>

Accept(s) ==
    LET c == session[s].on  x == session[s].whom
    IN  /\ Decided(s, "aceptar solicitud")
        /\ asked' = asked \ {<<c, x>>}
        /\ member' = [member EXCEPT ![x] = c]
        /\ End(s)
        /\ UNCHANGED <<status, tag, leader, deputies, canSign, offer, proofs>>

Reject(s) ==
    /\ Decided(s, "rechazar solicitud")
    /\ asked' = asked \ {<<session[s].on, session[s].whom>>}
    /\ End(s)
    /\ UNCHANGED <<status, tag, leader, deputies, member, canSign, offer, proofs>>

Expel(s) ==
    LET c == session[s].on  x == session[s].whom
    IN  /\ Decided(s, "expulsar del cabal")
        /\ member' = [member EXCEPT ![x] = NoCabal]
        /\ deputies' = [deputies EXCEPT ![c] = @ \ {x}]
        /\ End(s)
        /\ UNCHANGED <<status, tag, leader, canSign, asked, offer, proofs>>

\* Mutant: the new leader keeps the seat of a deputy.
TransferOnly(s) ==
    /\ Decided(s, "transferir el cabal")
    /\ leader' = [leader EXCEPT ![session[s].on] = session[s].whom]
    /\ End(s)
    /\ UNCHANGED <<status, tag, deputies, member, canSign, asked, offer, proofs>>

Transfer(s) ==
    LET c == session[s].on  x == session[s].whom
    IN  /\ Decided(s, "transferir el cabal")
        /\ deputies' = [deputies EXCEPT ![c] = @ \ {x}]
        /\ leader' = [leader EXCEPT ![c] = x]
        /\ End(s)
        /\ UNCHANGED <<status, tag, member, canSign, asked, offer, proofs>>

\* cabal_co_leader_one_cabal refuses a KOL who is a deputy somewhere else.
Appoint(s) ==
    LET c == session[s].on  x == session[s].whom
    IN  /\ Decided(s, "nombrar co-lider")
        /\ deputies' = IF \E d \in Cabals : x \in deputies[d] THEN deputies
                       ELSE [deputies EXCEPT ![c] = @ \cup {x}]
        /\ End(s)
        /\ UNCHANGED <<status, tag, leader, member, canSign, asked, offer, proofs>>

Revoke(s) ==
    LET c == session[s].on
    IN  /\ Decided(s, "revocar co-lider")
        /\ deputies' = [deputies EXCEPT ![c] = @ \ {session[s].whom}]
        /\ End(s)
        /\ UNCHANGED <<status, tag, leader, member, canSign, asked, offer, proofs>>

-----------------------------------------------------------------------------
(* Actions on a tag.                                                       *)

\* createCabal: kol.cabal_id is read, without a lock.
AskCreate(s) ==
    \E k \in canSign, t \in Tags :
        /\ member[k] = NoCabal
        /\ Send(s, [Idle EXCEPT !.step = "sent", !.act = "crear cabal", !.who = k, !.tag = t])

\* The INSERT, which cabal_tag_held may refuse, and the membership.
Create(s) ==
    LET k == session[s].who  t == session[s].tag
    IN  /\ Sent(s, "crear cabal")
        /\ \E c \in {d \in Cabals : status[d] = "absent"} :
              IF \E d \in Cabals : tag[d] = t
              THEN UNCHANGED <<status, tag, leader, member>>
              ELSE /\ status' = [status EXCEPT ![c] = "live"]
                   /\ tag' = [tag EXCEPT ![c] = t]
                   /\ leader' = [leader EXCEPT ![c] = k]
                   /\ member' = [member EXCEPT ![k] = c]
        /\ End(s)
        /\ UNCHANGED <<deputies, canSign, asked, offer, proofs>>

AskJoin(s) ==
    \E k \in canSign, c \in Cabals :
        /\ member[k] = NoCabal
        /\ status[c] = "live"
        /\ Send(s, [Idle EXCEPT !.step = "sent", !.act = "pedir entrar", !.who = k, !.on = c])

\* The INSERT's foreign key waits for who has the row of the cabal.
Join(s) ==
    /\ Sent(s, "pedir entrar")
    /\ Free(session[s].on)
    /\ asked' = asked \cup {<<session[s].on, session[s].who>>}
    /\ End(s)
    /\ UNCHANGED <<status, tag, leader, deputies, member, canSign, offer, proofs>>

AskClaim(s) ==
    \E k \in canSign, c \in Cabals :
        /\ tag[c] # NoTag
        /\ Send(s, [Idle EXCEPT !.step = "sent", !.act = "reclamar cabal", !.who = k,
                                !.on = c, !.tag = tag[c], !.seen = Snapshot(c)])

\* claimCabal with the lock: the nomination, cancelled if it has expired, the
\* orphan test of the statement that waited, and the claimant's membership.
LockClaim(s) ==
    LET r == session[s]  c == session[s].on
    IN  /\ Sent(s, "reclamar cabal")
        /\ Free(c)
        /\ IF tag[c] = r.tag /\ offer[c] = [to |-> r.who, expired |-> TRUE]
           THEN offer' = [offer EXCEPT ![c] = NoOffer] /\ End(s)
           ELSE /\ IF /\ tag[c] = r.tag
                      /\ offer[c].to = r.who
                      /\ Orphaned(c, r.seen)
                      /\ member[r.who] \in {NoCabal, c}
                   THEN Decide(s, c) ELSE End(s)
                /\ UNCHANGED offer
        /\ UNCHANGED <<status, tag, leader, deputies, member, canSign, asked, proofs>>

Claim(s) ==
    LET k == session[s].who  c == session[s].on
    IN  /\ Decided(s, "reclamar cabal")
        /\ deputies' = [deputies EXCEPT ![c] = @ \ {k}]
        /\ leader' = [leader EXCEPT ![c] = k]
        /\ member' = [member EXCEPT ![k] = c]
        /\ offer' = [offer EXCEPT ![c] = NoOffer]
        /\ End(s)
        /\ UNCHANGED <<status, tag, canSign, asked, proofs>>

AskDissolve(s) ==
    \E k \in canSign, c \in Cabals :
        /\ tag[c] # NoTag
        /\ Send(s, [Idle EXCEPT !.step = "sent", !.act = "disolver cabal", !.who = k,
                                !.on = c, !.tag = tag[c]])

\* Everything dissolveCabal decides on is in the row it has locked.
Dissolve(s) ==
    LET c == session[s].on
    IN  /\ Sent(s, "disolver cabal")
        /\ Free(c)
        /\ status' = IF tag[c] = session[s].tag /\ leader[c] = session[s].who /\ status[c] = "live"
                     THEN [status EXCEPT ![c] = "dissolved"] ELSE status
        /\ End(s)
        /\ UNCHANGED <<tag, leader, deputies, member, canSign, asked, offer, proofs>>

\* nominateCabal, by the admin.
AskNominate(s) ==
    \E c \in Cabals, x \in Kols :
        /\ status[c] # "absent"
        /\ Send(s, [Idle EXCEPT !.step = "sent", !.act = "nominar", !.whom = x,
                                !.on = c, !.seen = Snapshot(c)])

Nominate(s) ==
    LET c == session[s].on  x == session[s].whom
        live == offer[c].to # NoOne /\ ~offer[c].expired
    IN  /\ Sent(s, "nominar")
        /\ Free(c)
        /\ offer' = IF /\ Orphaned(c, session[s].seen)
                       /\ x \in canSign
                       /\ member[x] \in {NoCabal, c}
                       /\ ~live
                    THEN [offer EXCEPT ![c] = [to |-> x, expired |-> FALSE]] ELSE offer
        /\ End(s)
        /\ UNCHANGED <<status, tag, leader, deputies, member, canSign, asked, proofs>>

-----------------------------------------------------------------------------
(* What happens beside the sessions.                                       *)

\* withdrawWallet, of the wallet that signs.
WithdrawWallet(k) ==
    /\ k \in canSign
    /\ canSign' = canSign \ {k}
    /\ UNCHANGED <<status, tag, leader, deputies, member, asked, offer, session, proofs>>

AddWallet(k) ==
    /\ k \in Kols \ canSign
    /\ canSign' = canSign \cup {k}
    /\ UNCHANGED <<status, tag, leader, deputies, member, asked, offer, session, proofs>>

\* NOMINATION_DAYS go by.
Expire(c) ==
    /\ offer[c].to # NoOne /\ ~offer[c].expired
    /\ offer' = [offer EXCEPT ![c].expired = TRUE]
    /\ UNCHANGED <<status, tag, leader, deputies, member, canSign, asked, session, proofs>>

\* releaseCabalTags, thirty days after the end.
ReleaseTag(c) ==
    /\ status[c] = "dissolved" /\ tag[c] # NoTag
    /\ Free(c)
    /\ tag' = [tag EXCEPT ![c] = NoTag]
    /\ UNCHANGED <<status, leader, deputies, member, canSign, asked, offer, session, proofs>>

\* A process or its connection dies: the transaction is rolled back.
Fail(s) ==
    /\ session[s].step # "idle"
    /\ End(s)
    /\ UNCHANGED <<status, tag, leader, deputies, member, canSign, asked, offer, proofs>>

\* One cabal is there, made by the operator, perhaps before leaders existed.
Init ==
    \E c \in Cabals, t \in Tags, l \in Kols \cup {NoOne} :
        /\ status = [d \in Cabals |-> IF d = c THEN "live" ELSE "absent"]
        /\ tag = [d \in Cabals |-> IF d = c THEN t ELSE NoTag]
        /\ leader = [d \in Cabals |-> IF d = c THEN l ELSE NoOne]
        /\ deputies = [d \in Cabals |-> {}]
        /\ member \in {m \in [Kols -> {c, NoCabal}] : l # NoOne => m[l] = c}
        /\ canSign = Kols
        /\ asked = {}
        /\ offer = [d \in Cabals |-> NoOffer]
        /\ session = [s \in Sessions |-> Idle]
        /\ proofs = 0

Next ==
    \/ \E s \in Sessions :
          \/ AskAsLeader(s) \/ LockAsLeader(s)
          \/ Accept(s) \/ Reject(s) \/ Expel(s) \/ Transfer(s) \/ Appoint(s) \/ Revoke(s)
          \/ AskCreate(s) \/ Create(s) \/ AskJoin(s) \/ Join(s)
          \/ AskClaim(s) \/ LockClaim(s) \/ Claim(s)
          \/ AskDissolve(s) \/ Dissolve(s) \/ AskNominate(s) \/ Nominate(s)
          \/ Fail(s)
    \/ \E k \in Kols : WithdrawWallet(k) \/ AddWallet(k)
    \/ \E c \in Cabals : Expire(c) \/ ReleaseTag(c)

Spec == Init /\ [][Next]_vars

-----------------------------------------------------------------------------
(* Properties.                                                             *)

\* The seats of a cabal (migrations/020): two deputies at most, none of whom is
\* its leader, and nobody a deputy twice.  A transfer and a claim make a leader
\* of a deputy, and the trigger that refuses it looks at deputies only.
SeatsAreSound ==
    \A c \in Cabals :
        /\ Cardinality(deputies[c]) <= 2
        /\ leader[c] \notin deputies[c]
        /\ \A d \in Cabals \ {c} : deputies[c] \cap deputies[d] = {}

\* One request at a time decides about a cabal: "two leaders' rows racing would
\* otherwise interleave into a state neither of them asked for" (ledCabal).
OneDecides ==
    \A s1, s2 \in Sessions :
        /\ session[s1].step = "decided" /\ session[s2].step = "decided"
        /\ session[s1].on = session[s2].on
        => s1 = s2

\* A dissolved cabal is finished (dissolveCabal): whatever was being decided when
\* it ended, it gets no leader, no deputy and no member any more.
Ended(c) == status[c] = "dissolved"
DissolvedIsFinal ==
    [][\A c \in Cabals : Ended(c) =>
          /\ Ended(c)'
          /\ leader'[c] = leader[c]
          /\ deputies'[c] \subseteq deputies[c]
          /\ \A k \in Kols : member'[k] = c => member[k] = c]_vars

\* A cabal with a leader is handed on by that leader, who leads it when the
\* transfer is written, or claimed by the KOL its offer names (transfer, claimCabal).
HandedOn(c) ==
    \/ \E s \in Sessions : /\ Decided(s, "transferir el cabal")
                          /\ session[s].on = c /\ session[s].who = leader[c]
    \/ offer[c].to = leader'[c] /\ offer'[c] = NoOffer
LeaderIsHandedOn ==
    [][\A c \in Cabals : leader[c] # NoOne /\ leader'[c] # leader[c] => HandedOn(c)]_vars

\* Nobody is enrolled without having asked: a KOL becomes a member of a cabal by a
\* request of theirs that is still pending, or by an act they signed themselves.
NobodyIsEnrolled ==
    [][\A k \in Kols, c \in Cabals : member'[k] = c /\ member[k] # c =>
          \/ <<c, k>> \in asked
          \/ \E s \in Sessions : session[s].step # "idle" /\ session[s].who = k]_vars

\* What decideRequest says of its second look at the applicant: "accepting would
\* silently move them".  Nobody goes from one cabal to another without leaving.
NobodyIsMoved ==
    [][\A k \in Kols : NoCabal \notin {member[k], member'[k]} => member'[k] = member[k]]_vars

\* "A cabal with a deputy is not an orphan [...] the lock makes that impossible"
\* (claimCabal): there is no deputy left to remove when a claim is written.
ClaimedWithoutDeputies ==
    \A s \in Sessions : Decided(s, "reclamar cabal") => deputies[session[s].on] = {}
=============================================================================
