---------------------------- MODULE Subscription ----------------------------
(***************************************************************************)
(* The webhooks that watch the roster: lib/helius-webhook.ts, which a      *)
(* change by the admin calls and the operator may run, and the script that *)
(* registers BNB wallets with Alchemy.  Each step of a reconciliation is   *)
(* one query or one call to the provider, which may fail; the provider     *)
(* keeps whole sets of addresses and may lose a webhook.                   *)
(*                                                                         *)
(* A wallet is on the roster when it is active and its KOL approved; once  *)
(* it is withdrawn it never comes back (migrations/011 keeps its address   *)
(* taken, and nothing sets it active again), so that an address is new,    *)
(* then wanted, then gone.                                                 *)
(***************************************************************************)
EXTENDS Integers, FiniteSets

CONSTANTS
    Wallets,
    Hooks,         \* ids that Helius gives
    Syncs,         \* reconciliations that may be running
    NoHook,
    SyncAlone,     \* TRUE: nobody starts one while another is running
    MaxSyncs       \* bound: reconciliations started in a behaviour

ASSUME HookAssumption == NoHook \notin Hooks /\ SyncAlone \in BOOLEAN /\ MaxSyncs \in Nat

VARIABLES
    roster,        \* "new", "wanted" or "gone", by address
    hook,          \* what Helius has, by id
    stored,        \* setting.helius_webhook_address_hash: the id and the set hashed
    sync,          \* the reconciliations
    bnb,           \* Alchemy's webhook
    told,          \* what the last complete run of sync-bnb-webhook sent
    started

subscriptionVars == <<roster, hook, stored, sync, bnb, told, started>>

\* desiredAddresses: every active wallet of every approved KOL.
Wanted == {a \in Wallets : roster[a] = "wanted"}

Unsynced == [id |-> NoHook, set |-> {}]
Stored == [id : Hooks \cup {NoHook}, set : SUBSET Wallets]
Quiet == [step |-> "idle", set |-> {}, saw |-> Unsynced, id |-> NoHook]

SubscriptionTypeOK ==
    /\ roster \in [Wallets -> {"new", "wanted", "gone"}]
    /\ hook \in [Hooks -> [there : BOOLEAN, used : BOOLEAN, holds : SUBSET Wallets]]
    /\ stored \in Stored
    /\ sync \in [Syncs -> [step : {"idle", "read", "edit", "create", "sent", "confirmed", "bnb", "patch", "post"},
                           set : SUBSET Wallets, saw : Stored, id : Hooks \cup {NoHook}]]
    /\ bnb \in [there : BOOLEAN, holds : SUBSET Wallets]
    /\ told \subseteq Wallets
    /\ started \in 0 .. MaxSyncs

-----------------------------------------------------------------------------
(* The roster.                                                             *)

\* approve, admin create with 'approved'; or POST /api/perfil/wallets of a KOL
\* who is approved, after which nobody calls the reconciliation.
Enlist(a) ==
    /\ roster[a] = "new"
    /\ roster' = [roster EXCEPT ![a] = "wanted"]
    /\ UNCHANGED <<hook, stored, sync, bnb, told, started>>

\* withdrawWallet, after which nobody calls it either.
Delist(a) ==
    /\ roster[a] = "wanted"
    /\ roster' = [roster EXCEPT ![a] = "gone"]
    /\ UNCHANGED <<hook, stored, sync, bnb, told, started>>

-----------------------------------------------------------------------------
(* syncHeliusWebhook.                                                      *)

Resting(s) == sync[s].step = "idle"
Stands(s, step) == sync[s].step = step
Turn(s, step) == sync' = [sync EXCEPT ![s].step = step]
Give(s) == sync' = [sync EXCEPT ![s] = Quiet]

StartSync(s) ==
    /\ Resting(s) /\ started < MaxSyncs
    /\ SyncAlone => \A t \in Syncs : Resting(t)
    /\ sync' = [sync EXCEPT ![s] = [Quiet EXCEPT !.step = "read", !.set = Wanted]]
    /\ started' = started + 1
    /\ UNCHANGED <<roster, hook, stored, bnb, told>>

\* readWebhookState and webhookIsInAccount, which takes a list that cannot be
\* read, or that does not name the webhook, for a webhook that is gone.
CheckHook(s) ==
    /\ Stands(s, "read")
    /\ \E listed \in BOOLEAN :
          LET exists == stored.id # NoHook /\ listed
          IN  /\ listed => stored.id # NoHook /\ hook[stored.id].there
              /\ IF exists /\ stored.set = sync[s].set
                 THEN Give(s)
                 ELSE sync' = [sync EXCEPT ![s].step = IF exists THEN "edit" ELSE "create",
                                           ![s].saw = stored]
    /\ UNCHANGED <<roster, hook, stored, bnb, told, started>>

\* PUT: the set is replaced.  A lost answer leaves the edit done.
EditHook(s) ==
    LET h == sync[s].saw.id
    IN  /\ Stands(s, "edit")
        /\ IF hook[h].there
           THEN /\ hook' = [hook EXCEPT ![h].holds = sync[s].set]
                /\ \/ sync' = [sync EXCEPT ![s].step = "sent", ![s].id = h]
                   \/ Give(s)
           ELSE Give(s) /\ UNCHANGED hook
        /\ UNCHANGED <<roster, stored, bnb, told, started>>

CreateHook(s) ==
    /\ Stands(s, "create")
    /\ \E h \in {i \in Hooks : ~hook[i].used} :
          /\ hook' = [hook EXCEPT ![h] = [there |-> TRUE, used |-> TRUE, holds |-> sync[s].set]]
          /\ \/ sync' = [sync EXCEPT ![s].step = "sent", ![s].id = h]
             \/ Give(s)
    /\ UNCHANGED <<roster, stored, bnb, told, started>>

\* The provider refuses or cannot be reached, or the process dies: "helius_failed".
FailSync(s) ==
    /\ ~Resting(s)
    /\ Give(s)
    /\ UNCHANGED <<roster, hook, stored, bnb, told, started>>

\* confirmAddressCount: how many addresses the webhook says it holds.
ConfirmCount(s) ==
    LET h == sync[s].id
    IN  /\ Stands(s, "sent")
        /\ IF hook[h].there /\ Cardinality(hook[h].holds) = Cardinality(sync[s].set)
           THEN Turn(s, "confirmed") ELSE Give(s)
        /\ UNCHANGED <<roster, hook, stored, bnb, told, started>>

\* Mutant: the hash is of the roster when it is stored.
StoreLater(s) ==
    /\ Stands(s, "confirmed")
    /\ stored' = [id |-> sync[s].id, set |-> Wanted]
    /\ Give(s)
    /\ UNCHANGED <<roster, hook, bnb, told, started>>

StoreHash(s) ==
    /\ Stands(s, "confirmed")
    /\ stored' = [id |-> sync[s].id, set |-> sync[s].set]
    /\ Give(s)
    /\ UNCHANGED <<roster, hook, bnb, told, started>>

\* Deleted from a dashboard, or disabled by Helius.
LoseHook(h) ==
    /\ hook[h].there
    /\ hook' = [hook EXCEPT ![h].there = FALSE]
    /\ UNCHANGED <<roster, stored, sync, bnb, told, started>>

-----------------------------------------------------------------------------
(* scripts/sync-bnb-webhook.mts, for wallets of BNB.                       *)

\* watchedAddresses; it refuses to register nothing.
StartBnb(s) ==
    /\ Resting(s) /\ started < MaxSyncs
    /\ SyncAlone => \A t \in Syncs : Resting(t)
    /\ Wanted # {}
    /\ sync' = [sync EXCEPT ![s] = [Quiet EXCEPT !.step = "bnb", !.set = Wanted]]
    /\ started' = started + 1
    /\ UNCHANGED <<roster, hook, stored, bnb, told>>

ListBnb(s) ==
    /\ Stands(s, "bnb")
    /\ Turn(s, IF bnb.there THEN "patch" ELSE "post")
    /\ UNCHANGED <<roster, hook, stored, bnb, told, started>>

\* updateWebhookAddresses: addresses_to_add is the set, addresses_to_remove is empty.
PatchBnb(s) ==
    /\ Stands(s, "patch")
    /\ bnb' = [bnb EXCEPT !.holds = @ \cup sync[s].set]
    /\ told' = sync[s].set
    /\ Give(s)
    /\ UNCHANGED <<roster, hook, stored, started>>

CreateBnb(s) ==
    /\ Stands(s, "post")
    /\ bnb' = [there |-> TRUE, holds |-> sync[s].set]
    /\ told' = sync[s].set
    /\ Give(s)
    /\ UNCHANGED <<roster, hook, stored, started>>

SubscriptionInit ==
    /\ roster = [a \in Wallets |-> "new"]
    /\ hook = [h \in Hooks |-> [there |-> FALSE, used |-> FALSE, holds |-> {}]]
    /\ stored = Unsynced
    /\ sync = [s \in Syncs |-> Quiet]
    /\ bnb = [there |-> FALSE, holds |-> {}]
    /\ told = {}
    /\ started = 0

SubscriptionNext ==
    \/ \E a \in Wallets : Enlist(a) \/ Delist(a)
    \/ \E s \in Syncs :
          \/ StartSync(s) \/ CheckHook(s) \/ EditHook(s) \/ CreateHook(s)
          \/ ConfirmCount(s) \/ StoreHash(s) \/ FailSync(s)
          \/ StartBnb(s) \/ ListBnb(s) \/ PatchBnb(s) \/ CreateBnb(s)
    \/ \E h \in Hooks : LoseHook(h)

SubscriptionSpec == SubscriptionInit /\ [][SubscriptionNext]_subscriptionVars

-----------------------------------------------------------------------------
(* Properties.                                                             *)

\* What "unchanged" claims: when the stored hash is that of the roster and its
\* webhook is there, no wallet of the roster goes unwatched ("the property this
\* module owes", syncHeliusWebhook).  More may be watched: an edit whose answer
\* was lost is not undone when the wallet it added is withdrawn.
NothingUnwatched ==
    /\ \A s \in Syncs : Resting(s)
    /\ stored.id # NoHook /\ hook[stored.id].there
    /\ stored.set = Wanted
    => Wanted \subseteq hook[stored.id].holds

\* "Replaces the watched set on an existing webhook" (updateWebhookAddresses):
\* Alchemy watches what it was last told to.
BnbIsReplaced == bnb.there => bnb.holds = told
=============================================================================
