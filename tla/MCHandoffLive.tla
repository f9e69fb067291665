--------------------------- MODULE MCHandoffLive ---------------------------
(***************************************************************************)
(* What must eventually happen in module Handoff.  The supervisor's select *)
(* loop ticks every TICK (aap/session.rs run) as long as it is not kept    *)
(* busy by a flood of packets, so Tick is weakly fair, and so is time.     *)
(* Nothing is assumed of the AirPods, the players, the other hosts or the  *)
(* user.                                                                   *)
(***************************************************************************)
EXTENDS Handoff

LiveSpec == Spec /\ WF_vars(Tick) /\ WF_vars(Pass)

(* The A2DP transport only ever shortens what is checked here, and the     *)
(* list of hosts only addresses the messages.  Neither Tick nor Pass       *)
(* changes them, so the constraint cuts no fair step.                      *)
QuietTransport == transport_active = "unknown" /\ devices = {} /\ audio_source.host # Local

(* A stop is not forgotten: when local playback stops while this host owns *)
(* the AirPods and has said it streams, the other hosts are told NO,       *)
(* unless playback, ownership or the link changes first (stop_tick).       *)
StopIsAnnounced ==
    (stopped_at # None /\ owns_audio /\ announced = "yes" /\ enabled)
        ~> (announced = "no" \/ playing # "no" \/ ~owns_audio \/ ~link_up
              \/ ~enabled \/ took_over_at = 0)

(* The user's press takes the audio back: a play that began outside the    *)
(* hold, with another host owning the AirPods and not in a call, ends in a *)
(* take-over unless the player stops, the link goes, the other host asks   *)
(* again or is in a call (handoff.rs Event::Tick).                         *)
PressTakesOver ==
    (play_edge # None /\ link_up /\ released /\ enabled)
        ~> (owns_audio \/ playing # "yes" \/ ~link_up \/ other_in_call \/ last_request = 0
              \/ ~enabled)

=============================================================================
