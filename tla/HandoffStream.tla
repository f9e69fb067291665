--------------------------- MODULE HandoffStream ---------------------------
(***************************************************************************)
(* Take-over and the stream that follows it in module Handoff, watched by  *)
(* history variables that measure what the handlers only infer.            *)
(***************************************************************************)
EXTENDS Handoff

VARIABLES
    playing_for,    \* age of the unbroken run of Playing readings whose start was seen
    quiet_for,      \* age of the unbroken run of readings with nothing Playing
    since_take,     \* age of the latest take-over
    relinked,       \* the AAP link of that take-over has closed
    warned          \* StreamNotStarted was said since the latest take-over

svars == <<vars, playing_for, quiet_for, since_take, relinked, warned>>

Takes == TickTakesOver \/ TakeOver

SInit ==
    /\ Init
    /\ playing_for = None /\ quiet_for = None
    /\ since_take = STREAM_GRACE /\ relinked = FALSE /\ warned = FALSE

SNext ==
    /\ Next
    /\ playing_for' = IF playing = "no" /\ playing' = "yes" THEN 0
                      ELSE IF playing' # "yes" \/ playing # "yes" THEN None
                      ELSE IF Pass THEN Older(playing_for, PLAY_DEBOUNCE) ELSE playing_for
    /\ quiet_for' = IF playing' # "no" THEN None
                    ELSE IF playing # "no" THEN 0
                    ELSE IF Pass THEN Older(quiet_for, PLAYBACK_STOPPED) ELSE quiet_for
    /\ since_take' = IF Takes THEN 0
                     ELSE IF Pass THEN Older(since_take, STREAM_GRACE) ELSE since_take
    /\ relinked' = IF Takes THEN FALSE ELSE relinked \/ LinkClosed
    /\ warned' = IF Takes THEN FALSE ELSE warned \/ Returned(StreamNotStarted)'

SSpec == SInit /\ [][SNext]_svars

----------------------------------------------------------------------------
(* An automatic take-over needs a local player seen to start and then seen *)
(* Playing without a break for the whole debounce (handoff.rs 24-26, 766-  *)
(* 785), whatever readings, link resets and late ticks come in between.    *)
TakeOverNeedsSustainedPlay == [][TickTakesOver => playing_for = PLAY_DEBOUNCE]_svars

(* HostStreamingState NO goes out only after playback has stayed stopped   *)
(* for PLAYBACK_STOPPED, and not within STREAM_GRACE of a take-over on the *)
(* same link (handoff.rs 57-62, stop_tick): an early NO invites the other  *)
(* host to take the AirPods back.                                          *)
StopNeverEarly ==
    [][Returned(SendMediaInfo(FALSE, devices))' =>
            /\ quiet_for = PLAYBACK_STOPPED
            /\ since_take = STREAM_GRACE \/ relinked]_svars

(* BATTERY_AND_HANDOFF.md:127, "NO only after local playback stays stopped *)
(* 3s, never within 8s of a take-over while the stream starts", also when  *)
(* the AAP link is reopened meanwhile (a settings readback reopens it):    *)
(* the transport is not touched by that, and its stream is still to start. *)
StopNeverWithinGrace ==
    [][devices # {} /\ transport_active = "no" /\ Returned(SendMediaInfo(FALSE, devices))'
            => since_take = STREAM_GRACE]_svars

(* The silent-stream warning is said at most once per take-over, no sooner *)
(* than STREAM_CHECK after it, and only while this host still owns the     *)
(* audio (stream_tick, handoff.rs 457-473).                                *)
WarnedOncePerTakeOver ==
    [][Returned(StreamNotStarted)' =>
            ~warned /\ since_take >= STREAM_CHECK /\ owns_audio]_svars

=============================================================================
