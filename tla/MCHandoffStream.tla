-------------------------- MODULE MCHandoffStream --------------------------
(* Model-checking instance of HandoffStream.                               *)
EXTENDS HandoffStream

(* Holds are the subject of MCHandoffHold; here BlueZ reports no audio     *)
(* change and the other host never calls, so that the stream's own timers  *)
(* fit.                                                                    *)
NoAudioChange == audio_changed = AUDIO_CHANGE_HOLD /\ audio_source.status # "Call"

(* `out` is never read; the report windows only matter for holds.           *)
StreamView == <<enabled, linkVars, owner, audio_source, released, held, hold_from,
                repaused, last_request, playVars, play_edge, stopped_at, transport_active,
                startVars, announced, playing_for, quiet_for, since_take, relinked, warned>>

(* StopNeverWithinGrace also looks at whom a message goes to.              *)
GraceView == <<StreamView, devices>>

=============================================================================
