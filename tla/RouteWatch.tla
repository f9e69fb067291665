----------------------------- MODULE RouteWatch -----------------------------
(***************************************************************************)
(* What HandoffSession promises the other host and the user: properties    *)
(* with the one piece of history they need.                                *)
(***************************************************************************)
EXTENDS HandoffSession

VARIABLE gave_up        \* the last wait of a yield ended without the switch

wvars == <<svars, gave_up>>
WatchInit == SessionInit /\ gave_up = FALSE
WatchNext ==
    /\ SessionNext
    /\ gave_up' = IF does' = "gave up waiting" THEN TRUE
                  ELSE IF does' = "off" THEN FALSE ELSE gave_up
WatchSpec == WatchInit /\ [][WatchNext]_wvars

RouteTypeOK ==
    /\ card \in Profiles \cup {NoCard} /\ usable \in SUBSET A2dp
    /\ mode \in {"none", "Own", "Yielded"} /\ {settled, outstanding} \subseteq BOOLEAN
    /\ remembered \in A2dp \cup {NoProfile} /\ Cardinality(tasks) <= 1
    /\ at \in {"loop", "opening", "flush", "drain", "settle"}
    /\ at = "flush" => batch # <<>>

(* The release goes out behind the switch: when the AirPods are told that  *)
(* this host no longer owns them, the card is off or gone, or the yield    *)
(* gave up waiting for it (audio_route.rs 16-27, session.rs 1824-1830).    *)
ReleaseAfterOff ==
    [][does' = "release" => card \in {"off", NoCard} \/ gave_up]_wvars

(* A switch that landed stays landed while its link lasts: no retry of an  *)
(* earlier request overtakes it, and an `off` is always noted for the      *)
(* shutdown path, nothing else is (audio_route.rs 426-430, 397-410).       *)
RouteLanded ==
    settled /\ events = <<>> /\ shut = "no" =>
        IF mode = "Yielded" THEN card \in {"off", NoCard} /\ outstanding
        ELSE card # "off" /\ ~outstanding

(* A2DP is connected for a take-over only while this host owns the audio,  *)
(* however long the busy retries take (session.rs 1884-1889).              *)
ClaimWhileOwner == [][does' = "claim" => owns_audio]_wvars

(* With the AAP link gone a yield does not outlive it: once the supervisor *)
(* is idle, without a link and with no news of one, the card is not held   *)
(* off (the comment at session.rs 774-776).                                *)
YieldedNeedsLink ==
    at = "loop" /\ queue = <<>> /\ events = <<>> /\ ~sock => mode # "Yielded"
=============================================================================
