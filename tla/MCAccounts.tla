----------------------------- MODULE MCAccounts -----------------------------
(***************************************************************************)
(* The components around the accounts of KOLs, and the queue of the tokens *)
(* they trade, side by side: they share no variable, and a behaviour is of *)
(* one of them.  The sets are shared, so that one symmetry serves all:     *)
(* three people, wallets or tokens, two of everything else.                *)
(***************************************************************************)
EXTENDS Cabal, Accounts, Subscription, Audit, RateLimit, Tokens, TLC

VARIABLE part      \* the component that runs

-----------------------------------------------------------------------------
(* Tokens: pairs below the floor of liquidity, of a price that is no       *)
(* decimal, without trades in a day, and one that is refused.              *)

PairOf(l, r, c) == [valid |-> TRUE, liquidity |-> l, readable |-> r, recent |-> c, named |-> TRUE]

MCRawPairs == {PairOf(0, TRUE, TRUE), PairOf(1, TRUE, TRUE), PairOf(2, FALSE, TRUE),
               [PairOf(2, TRUE, FALSE) EXCEPT !.named = FALSE],
               [PairOf(2, TRUE, TRUE) EXCEPT !.valid = FALSE]}

-----------------------------------------------------------------------------

MCSymmetry == Permutations(Kols) \cup Permutations(Cabals) \cup Permutations(Tags)
              \cup Permutations(Sessions)

\* What Cabal is like while another one runs: nothing breaks the symmetry.
Parked ==
    /\ status = [c \in Cabals |-> "absent"] /\ tag = [c \in Cabals |-> NoTag]
    /\ leader = [c \in Cabals |-> NoOne] /\ deputies = [c \in Cabals |-> {}]
    /\ member = [k \in Kols |-> NoCabal] /\ canSign = Kols
    /\ asked = {} /\ offer = [c \in Cabals |-> NoOffer]
    /\ session = [s \in Sessions |-> Idle] /\ proofs = 0

MCInit ==
    /\ part \in {"cabal", "accounts", "subscription", "audit", "limit", "tokens"}
    /\ IF part = "cabal" THEN Init ELSE Parked
    /\ AccountsInit /\ SubscriptionInit /\ AuditInit /\ LimitInit /\ TokensInit

accountVars == <<vars, accountsVars, subscriptionVars, auditVars, limitVars, tokenVars>>

MCNext ==
    \/ /\ part = "cabal" /\ Next
       /\ UNCHANGED <<part, accountsVars, subscriptionVars, auditVars, limitVars, tokenVars>>
    \/ /\ part = "accounts" /\ AccountsNext
       /\ UNCHANGED <<part, vars, subscriptionVars, auditVars, limitVars, tokenVars>>
    \/ /\ part = "subscription" /\ SubscriptionNext
       /\ UNCHANGED <<part, vars, accountsVars, auditVars, limitVars, tokenVars>>
    \/ /\ part = "audit" /\ AuditNext
       /\ UNCHANGED <<part, vars, accountsVars, subscriptionVars, limitVars, tokenVars>>
    \/ /\ part = "limit" /\ LimitNext
       /\ UNCHANGED <<part, vars, accountsVars, subscriptionVars, auditVars, tokenVars>>
    \/ /\ part = "tokens" /\ TokensNext
       /\ UNCHANGED <<part, vars, accountsVars, subscriptionVars, auditVars, limitVars>>

MCSpec == MCInit /\ [][MCNext]_<<part, accountVars>>

-----------------------------------------------------------------------------

\* Every variable has its type.
TypesOK ==
    /\ TypeOK /\ AccountsTypeOK /\ SubscriptionTypeOK /\ AuditTypeOK /\ LimitTypeOK /\ TokensTypeOK
=============================================================================
