--------------------------- MODULE MCHandoffHold ---------------------------
(* Model-checking instance of HandoffHold.                                 *)
EXTENDS HandoffHold

(* What a hold can depend on.  `out` is never read by an action, and the   *)
(* stream bookkeeping (stopped_at, last_play, took_over_at, announced and  *)
(* the stream start) is read only to decide messages and warnings, so      *)
(* states that differ in nothing else have the same futures here.          *)
HoldView == <<enabled, linkVars, owner, audio_source, released, holdVars, audio_changed,
              reading, playing, playing_player, play_edge, fresh_play, repauses, auto_hold>>

(* No hold depends on the A2DP transport; MCHandoffStream reports it. *)
TransportUnknown == transport_active = "unknown"

=============================================================================
