----------------------------- MODULE AudioRoute -----------------------------
(***************************************************************************)
(* The PipeWire card of the AirPods and the router that drives it          *)
(* (audio_route.rs): one task per request, which reads the card with       *)
(* pw-dump, switches it with pw-cli, retries for a while, and notes an     *)
(* outstanding `off` for the shutdown path.                                *)
(*                                                                         *)
(* The runtime has one thread, so a task runs alone between its awaits:    *)
(* the two tool calls and the sleep.  A task that is aborted at "switch"   *)
(* has not reached PipeWire, one aborted at "switched" has.  A mode, a     *)
(* profile or a stage is a string; profile indices are their names.        *)
(***************************************************************************)
EXTENDS Naturals, FiniteSets

CONSTANTS
    A2dp,           \* the card profiles named a2dp-sink*
    Plain,          \* the one named just a2dp-sink
    Retries         \* attempts that fit into RETRY_WINDOW

NoCard == "no card"
NoProfile == "no profile"

ASSUME RouteAssumption ==
    /\ Plain \in A2dp /\ Retries \in Nat
    /\ A2dp \cap {"off", "headset", NoCard, NoProfile} = {}

VARIABLES
    card,           \* PipeWire: the profile the card is on, or NoCard
    usable,         \* PipeWire: the A2DP profiles it offers now
    mode,           \* Router: what the latest set asked for, or "none"
    settled,        \* Router: that switch landed
    remembered,     \* Router: the A2DP profile a yield switched away from
    tasks,          \* the running tasks: one, but for what an abort misses
    outstanding     \* OUTSTANDING: the card was left off

pipewireVars == <<card, usable>>
routerVars == <<mode, settled, remembered, tasks, outstanding>>
routeVars == <<pipewireVars, routerVars>>

Profiles == A2dp \cup {"off", "headset"}

RouteInit ==
    /\ card = NoCard /\ usable = {} /\ mode = "none" /\ settled = FALSE
    /\ remembered = NoProfile /\ tasks = {} /\ outstanding = FALSE

(* The profiles pick_profile may answer: several only where it takes the   *)
(* first one listed, none where the card offers nothing suitable.          *)
pick_profile(m, profile, offered, want) ==
    IF m = "Yielded" THEN {"off"}
    ELSE IF profile \in A2dp THEN {profile}
    ELSE IF want \in offered THEN {want}
    ELSE IF Plain \in offered THEN {Plain}
    ELSE offered

(* Router::set starts over unless the wanted mode has landed. *)
NewTask(m) == [mode |-> m, stage |-> "read", target |-> NoProfile, from |-> NoProfile,
               tries |-> Retries]
set_KeepsSettled(m) ==
    IF mode = m /\ settled THEN UNCHANGED routerVars
    ELSE /\ mode' = m /\ tasks' = {NewTask(m)}
         /\ UNCHANGED <<settled, remembered, outstanding>>
set(m) ==
    IF mode = m /\ settled THEN UNCHANGED routerVars
    ELSE /\ mode' = m /\ settled' = FALSE /\ tasks' = {NewTask(m)}
         /\ UNCHANGED <<remembered, outstanding>>

cancel ==
    /\ mode' = "none" /\ settled' = FALSE /\ tasks' = {}
    /\ remembered' = NoProfile /\ outstanding' = FALSE

----------------------------------------------------------------------------
(* drive: one task. *)
Becomes(t, u) == tasks' = (tasks \ {t}) \cup {u}
Ends(t) == tasks' = tasks \ {t}

(* The switch landed, or was not needed. *)
drive(t) ==
    /\ Ends(t) /\ settled' = TRUE /\ outstanding' = (t.mode = "Yielded")

(* No card yet, or a tool failed: once more after RETRY_GAP, or never.     *)
(* A missing tool ends the task at once.                                   *)
Retry(t) ==
    /\ \/ t.tries > 0 /\ Becomes(t, [t EXCEPT !.stage = "read", !.tries = @ - 1])
       \/ Ends(t)
    /\ UNCHANGED <<card, settled, remembered, outstanding>>

(* apply up to pw-cli: pw-dump answers with the card as it is. *)
ReadCard(t) ==
    /\ t.stage = "read"
    /\ \/ Retry(t)
       \/ /\ card # NoCard /\ card \in pick_profile(t.mode, card, usable, remembered)
          /\ drive(t) /\ UNCHANGED <<card, remembered>>
       \/ \E p \in pick_profile(t.mode, card, usable, remembered) \ {card} :
             /\ card # NoCard
             /\ Becomes(t, [t EXCEPT !.stage = "switch", !.target = p, !.from = card])
             /\ UNCHANGED <<card, settled, remembered, outstanding>>

(* pw-cli reaches PipeWire. *)
Switch(t) ==
    /\ t.stage = "switch"
    /\ \/ Retry(t)
       \/ /\ card # NoCard
          /\ card' = t.target /\ Becomes(t, [t EXCEPT !.stage = "switched"])
          /\ UNCHANGED <<settled, remembered, outstanding>>

(* pw-cli returns; or it hung, and counts as failed. *)
Switched(t) ==
    /\ t.stage = "switched"
    /\ \/ Retry(t)
       \/ /\ remembered' = IF t.from \in A2dp THEN t.from ELSE remembered
          /\ drive(t) /\ UNCHANGED card

RunsTask ==
    /\ \E t \in tasks : ReadCard(t) \/ Switch(t) \/ Switched(t)
    /\ UNCHANGED <<usable, mode>>

(* restore_on_exit, after its deadline or with a failing tool: ok = FALSE. *)
restore_on_exit(ok) ==
    /\ outstanding' = FALSE
    /\ IF ok /\ card # NoCard /\ pick_profile("Own", card, usable, remembered) # {}
       THEN card' \in pick_profile("Own", card, usable, remembered)
       ELSE card' = card
    /\ UNCHANGED <<usable, mode, settled, remembered, tasks>>
=============================================================================
