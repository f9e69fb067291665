------------------------------- MODULE MCMedia -------------------------------
(***************************************************************************)
(* What the supervisor does to the local sound: the handoff queue with the *)
(* card, and ear detection with the players.  They meet only in `ours or   *)
(* not' (ear_context), which EarMedia lets change at any time: so each is  *)
(* explored with the other at rest.  What a step did is left out of the    *)
(* view: the properties read it on the step that sets it.  So is what      *)
(* nothing reads any more: the buds as last reported, the player heard     *)
(* before unless it plays, the history of a pause that is no longer        *)
(* remembered, and of its race once no Play of it is queued.               *)
(***************************************************************************)
EXTENDS RouteWatch, EarWatch

(* Ear detection by its default rule: the narrow one pauses less often,    *)
(* and without auto_resume nothing is started.                             *)
RouteAtRest == WatchInit /\ enabled
DefaultRule == cfg.auto_resume /\ cfg.pause_on_one_of_two
EarAtRest == EarWatchInit /\ ~cfg.auto_resume /\ ~cfg.pause_on_one_of_two
                          /\ \A m \in Players : status[m] = "Stopped"
MediaInit == WatchInit /\ EarWatchInit /\ ((RouteAtRest /\ DefaultRule) \/ EarAtRest)
MediaNext ==
    \/ EarAtRest /\ WatchNext /\ UNCHANGED earWatchVars
    \/ RouteAtRest /\ EarWatchNext /\ UNCHANGED wvars
MediaSpec == MediaInit /\ [][MediaNext]_<<wvars, earWatchVars>>

MediaView ==
    <<routeVars, bluezVars, acl, sock, ownerVars, flushVars, claims, shut, gave_up,
      cfg, aap_open, audio_on_airpods, ear_settled, pending, playing, paused, mprisVars, ours,
      IF playing = "yes" THEN player ELSE NoPlayer,
      IF paused # NotPaused THEN pause ELSE NoPending,
      raced /\ (paused # NotPaused \/ \E i \in DOMAIN commands : commands[i].act = "Play")>>
=============================================================================
