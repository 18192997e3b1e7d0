------------------------------- MODULE Avatar -------------------------------
(***************************************************************************)
(* GET /api/avatar/[kolId] and readAvatar of lib/avatar.ts, for one KOL,   *)
(* behind the cache at the edge that its Cache-Control speaks to.  That    *)
(* cache is not ours: it answers with what it has while that is fresh,     *)
(* and with what is stale, asking anew behind the answer, for as long as   *)
(* stale-while-revalidate says; what comes with no-store it does not keep. *)
(***************************************************************************)
EXTENDS Integers

CONSTANTS
    ImageFresh, ImageStale,     \* s-maxage and stale-while-revalidate of a picture
    LetterFresh, LetterStale,   \* and of the monogram
    MaxAge                      \* bound: how long what happened is remembered

ASSUME LifetimesAssumption ==
    /\ ImageFresh \in Nat /\ ImageStale \in Nat /\ LetterFresh \in Nat /\ LetterStale \in Nat
    /\ LetterFresh + LetterStale <= ImageFresh + ImageStale
    /\ MaxAge \in Nat /\ MaxAge > ImageFresh + ImageStale

VARIABLES
    listed,        \* kol.status = 'approved'
    override,      \* avatar_override_url: "none", "https" or "other"
    picture,       \* whether each upstream has a picture, in time, of a type and size to relay
    edge,          \* the entry of the cache, with its age
    unlisted,      \* for how long the KOL has not been listed
    able,          \* for how long there has been a picture to get
    shown          \* the last answer to a reader

avatarVars == <<listed, override, picture, edge, unlisted, able, shown>>

Upstreams == {"override", "unavatar"}
NoEntry == [kind |-> "nothing", age |-> 0]
Ages == 0 .. MaxAge

AvatarTypeOK ==
    /\ listed \in BOOLEAN /\ override \in {"none", "https", "other"}
    /\ picture \in [Upstreams -> BOOLEAN]
    /\ edge \in [kind : {"nothing", "image", "letter", "refusal"}, age : Ages]
    /\ unlisted \in Ages /\ able \in Ages
    /\ shown \in {"nothing", "image", "letter", "refusal", "limited"}

Older(n) == IF n < MaxAge THEN n + 1 ELSE n

\* upstreamFor: an override that is no https URL falls back to the handle; one that is and
\* fails does not.
UpstreamFor == IF override = "https" THEN "override" ELSE "unavatar"

\* readAvatar: no such KOL on a public surface, or a picture, or the monogram for everything
\* that can go wrong.
ReadAvatar ==
    IF ~listed THEN "refusal" ELSE IF picture[UpstreamFor] THEN "image" ELSE "letter"

\* Mutant: one lifetime for whatever is drawn.
SameForAll(kind) == IF kind \in {"image", "letter"} THEN <<ImageFresh, ImageStale>> ELSE <<>>

\* Cache-Control, by what was drawn: none of it for a refusal.
Lifetime(kind) ==
    CASE kind = "image" -> <<ImageFresh, ImageStale>>
      [] kind = "letter" -> <<LetterFresh, LetterStale>>
      [] OTHER -> <<>>

Kept(kind) == IF Lifetime(kind) = <<>> THEN NoEntry ELSE [kind |-> kind, age |-> 0]

Fresh == edge # NoEntry /\ edge.age < Lifetime(edge.kind)[1]
Usable == edge # NoEntry /\ edge.age < Lifetime(edge.kind)[1] + Lifetime(edge.kind)[2]

\* Out of the cache; a stale entry is asked for anew, and a refusal may leave it there.
FromEdge ==
    /\ Usable
    /\ shown' = edge.kind
    /\ edge' \in IF Fresh THEN {edge}
                ELSE IF Kept(ReadAvatar) = NoEntry THEN {edge, NoEntry} ELSE {Kept(ReadAvatar)}
    /\ UNCHANGED <<listed, override, picture, unlisted, able>>

FromOrigin ==
    /\ ~Usable
    /\ shown' = ReadAvatar
    /\ edge' = Kept(ReadAvatar)
    /\ UNCHANGED <<listed, override, picture, unlisted, able>>

\* The limiter, before anything else, and a query string, on a key of the cache of its own.
Refused ==
    /\ shown' \in {"limited", "refusal"}
    /\ UNCHANGED <<listed, override, picture, edge, unlisted, able>>

-----------------------------------------------------------------------------

\* Time: an entry that may not be used any more is dropped.
AvatarTick ==
    /\ edge' = IF Usable THEN [edge EXCEPT !.age = @ + 1] ELSE NoEntry
    /\ unlisted' = IF listed THEN 0 ELSE Older(unlisted)
    /\ able' = IF ReadAvatar = "image" THEN Older(able) ELSE 0
    /\ shown' = "nothing"
    /\ UNCHANGED <<listed, override, picture>>

\* The admin lists or suspends, or sets the override; what the upstream has is its own.
List ==
    /\ listed' = ~listed
    /\ unlisted' = 0 /\ able' = 0 /\ shown' = "nothing"
    /\ UNCHANGED <<override, picture, edge>>

\* What an upstream has is its own affair.
Upstream ==
    /\ \/ override' \in {"none", "https", "other"} /\ UNCHANGED picture
       \/ picture' \in [Upstreams -> BOOLEAN] /\ UNCHANGED override
    /\ able' = 0 /\ shown' = "nothing"
    /\ UNCHANGED <<listed, edge, unlisted>>

AvatarInit ==
    /\ listed = TRUE /\ override = "none" /\ picture = [u \in Upstreams |-> FALSE]
    /\ edge = NoEntry /\ unlisted = 0 /\ able = 0 /\ shown = "nothing"

AvatarNext == FromEdge \/ FromOrigin \/ Refused \/ AvatarTick \/ List \/ Upstream

AvatarSpec == AvatarInit /\ [][AvatarNext]_avatarVars

-----------------------------------------------------------------------------

\* What an outage looks like is gone as soon as its own lifetime is over, though a picture
\* may stay for days; a KOL who is suspended is seen no longer than that; and one who is
\* reinstated is not answered with a refusal from before.
AvatarIsOfNow ==
    /\ shown = "letter" => able <= LetterFresh + LetterStale
    /\ shown \in {"image", "letter"} => unlisted <= ImageFresh + ImageStale
    /\ edge.kind # "refusal"
=============================================================================
