---------------------------- MODULE HandoffHold ----------------------------
(***************************************************************************)
(* The yielded hold of module Handoff, watched by three history variables  *)
(* that record what was asked and done, independently of the bookkeeping   *)
(* the handlers keep.                                                      *)
(***************************************************************************)
EXTENDS Handoff

VARIABLES
    fresh_play,     \* the latest local play began after the latest yield request
    repauses,       \* automatic re-pauses of each player since the latest request
    auto_hold       \* the hold in force was started by a report, not by a command

hvars == <<vars, fresh_play, repauses, auto_hold>>

(* Something asked this host for the audio, and handoff counted it. *)
Asks ==
    \/ enabled /\ SmartRouting
    \/ enabled /\ phase = "up" /\ ~in_opening /\ OwnsConnection(FALSE)
    \/ /\ enabled /\ ~in_opening /\ audio_source' # audio_source
       /\ \E h \in Hosts, st \in Statuses : AudioSourceOther(h, st)
    \/ Yield

(* The AirPods repeating 0x06 = 00 after a yield is no new request for the *)
(* play in progress, only a new re-pause allowance.                        *)
Echo == released /\ OwnsConnection(FALSE)

HInit ==
    /\ Init
    /\ fresh_play = FALSE
    /\ repauses = [p \in Players |-> 0]
    /\ auto_hold = FALSE

HNext ==
    /\ Next
    /\ fresh_play' = IF playing = "no" /\ playing' = "yes" THEN TRUE
                     ELSE fresh_play /\ ~(Asks /\ ~Echo)
    /\ repauses' = [p \in Players |->
                       (IF Asks THEN 0 ELSE repauses[p])
                       + (IF Returned(RepausePlayer(p))' THEN 1 ELSE 0)]
    /\ auto_hold' = IF Yield THEN FALSE
                    ELSE IF ~held /\ held' THEN TRUE ELSE auto_hold

HSpec == HInit /\ [][HNext]_hvars

----------------------------------------------------------------------------
(* The automatic take-over answers a play that began after the latest      *)
(* request for the audio: a player that was already running when the other *)
(* host asked, or that was paused for it, never takes the AirPods back     *)
(* (renew_hold drops the pending edge, handoff.rs 338-342).                *)
TakeOverAnswersAFreshPlay == [][TickTakesOver => fresh_play]_hvars

(* One player is paused again automatically at most once per request, so a *)
(* deliberate second press is never blocked (handoff.rs 221, 345-356).     *)
OneRepausePerRequest == \A p \in Players : repauses[p] <= 1

(* A player is only ever paused again while this host has given the audio  *)
(* up: never while it owns the AirPods, nor after the link that carried    *)
(* the yield has gone.                                                     *)
RepauseOnlyWhileYielded ==
    [][(\E p \in Players \cup {NoPlayer} : Returned(RepausePlayer(p))') =>
            released' /\ phase' # "down"]_vars

(* handoff.rs:9-10: "automatic actions additionally need `[handoff]        *)
(* enabled`".  With handoff switched off, a hold that a report started     *)
(* does not make the daemon pause a local player.                          *)
DisabledNeverRepauses ==
    [][~enabled /\ auto_hold =>
            \A p \in Players \cup {NoPlayer} : ~Returned(RepausePlayer(p))']_hvars

=============================================================================
