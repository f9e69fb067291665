------------------------------ MODULE Handoff ------------------------------
(***************************************************************************)
(* The ownership state machine of aurisd (daemon/src/handoff.rs): the pure *)
(* function decide(state, event, now), one action per event, together with *)
(* the few facts of aap/session.rs that say when an event can occur (the   *)
(* phase of the AAP link, the last MPRIS reading).                         *)
(*                                                                         *)
(* Instants are kept as AGES: how long ago the instant was, frozen at the  *)
(* window the code compares it with, since older readings of it cannot be  *)
(* told apart.  An age equal to its window also stands for Option::None    *)
(* where the code treats the two alike; where it does not, None is -1.     *)
(* stream_check, a deadline, counts down.  Pass is the clock; it is not    *)
(* the daemon's Tick, which may come late.                                 *)
(*                                                                         *)
(* `out` is the list of side effects that the latest event returned.       *)
(* The application name in media information, the peer in a Record and the *)
(* published view carry no control and are left out; `local` is known      *)
(* whenever a report can arrive, because no link is dialled without it.    *)
(***************************************************************************)
EXTENDS Integers, Sequences

CONSTANTS
    Hosts,               \* the other Apple hosts paired with the AirPods
    Players,             \* local MPRIS players, by bus name
    Local,               \* this host's own address in a report
    NoHost, NoPlayer,    \* nothing reported yet
    TakeOverOnPlay,      \* [handoff] take_over_on_play
    PLAY_DEBOUNCE, PAUSE_HOLD, AUDIO_CHANGE_HOLD, OPENING_WINDOW,
    OPENING_WINDOW_MAX, REQUEST_RECENT, STREAM_CHECK, STREAM_GRACE,
    PLAYBACK_STOPPED     \* the durations of handoff.rs, in clock units

ASSUME DurationAssumption ==
    /\ PLAY_DEBOUNCE \in Nat \ {0} /\ PAUSE_HOLD \in Nat \ {0}
    /\ AUDIO_CHANGE_HOLD \in Nat \ {0} /\ OPENING_WINDOW \in Nat \ {0}
    /\ OPENING_WINDOW_MAX \in Nat /\ OPENING_WINDOW_MAX > OPENING_WINDOW
    /\ REQUEST_RECENT \in Nat \ {0} /\ STREAM_CHECK \in Nat \ {0}
    /\ PLAYBACK_STOPPED \in Nat \ {0}
    /\ STREAM_GRACE \in Nat /\ STREAM_GRACE >= PLAYBACK_STOPPED
    /\ STREAM_GRACE >= STREAM_CHECK

ASSUME NameAssumption ==
    /\ Local \notin Hosts /\ NoHost \notin Hosts /\ NoHost # Local
    /\ NoPlayer \notin Players
    /\ TakeOverOnPlay \in BOOLEAN

VARIABLES
    enabled,            \* [handoff] enabled
    phase,              \* the AAP link: "down", "opening", "dump" (readback window), "up"
    opened_at, opening_settled,
    owner, audio_source, devices, released,
    held, hold_from, last_request, repaused, audio_changed,
    reading,            \* session.rs last_playback: the latest MPRIS reading
    playing, playing_player, play_edge, last_play, stopped_at,
    transport_active, took_over_at, stream_check, reannounce, announced,
    out

linkVars   == <<phase, opened_at, opening_settled>>
beliefVars == <<owner, audio_source, devices, released>>
holdVars   == <<held, hold_from, last_request, repaused>>
playVars   == <<reading, playing, playing_player, last_play>>
startVars  == <<took_over_at, stream_check, reannounce>>
vars == <<enabled, linkVars, beliefVars, holdVars, audio_changed, playVars, play_edge,
          stopped_at, transport_active, startVars, announced, out>>

None == -1
Flags == {"unknown", "yes", "no"}       \* Option<bool>
Flag(b) == IF b THEN "yes" ELSE "no"
Statuses == {"Idle", "Call", "Media"}
Sources == [host : Hosts \cup {Local, NoHost}, status : Statuses]
Readings == [playing : Flags, player : Players \cup {NoPlayer}]
NoSource == [host |-> NoHost, status |-> "Idle"]
NoReading == [playing |-> "unknown", player |-> NoPlayer]

----------------------------------------------------------------------------
(* Side effects, in the order decide returns them.  A message to "every    *)
(* other listed host" is one element naming the set of them.               *)
SendOwnership(b)    == [act |-> "SendOwnership", owns |-> b]
SendMediaInfo(b, T) == [act |-> "SendMediaInfo", streaming |-> b, to |-> T]
SendNewDevice(T)    == [act |-> "SendNewDevice", to |-> T]
SendHijack(T)       == [act |-> "SendHijack", to |-> T]
PauseLocalPlayers   == [act |-> "PauseLocalPlayers"]
RepausePlayer(p)    == [act |-> "RepausePlayer", player |-> p]
ClaimAudio          == [act |-> "ClaimAudio"]
SetAudioRoute(m)    == [act |-> "SetAudioRoute", mode |-> m]
StreamNotStarted    == [act |-> "StreamNotStarted"]
Record(k)           == [act |-> "Record", kind |-> k]

Returned(a) == \E i \in DOMAIN out : out[i] = a
When(b, s) == IF b THEN s ELSE <<>>

----------------------------------------------------------------------------
(* Readings of the state. *)
link_up == phase # "down"
owns_audio == owner = "Local" /\ ~released
active_other_source == audio_source.host \in Hosts /\ audio_source.status # "Idle"
other_in_call == audio_source.host \in Hosts /\ audio_source.status = "Call"
owned_elsewhere == released \/ owner = "Other" \/ active_other_source
in_hold_window ==
    held /\ (hold_from < PAUSE_HOLD \/ audio_changed < AUDIO_CHANGE_HOLD)
in_opening ==
    /\ opened_at < OPENING_WINDOW_MAX
    /\ opened_at < OPENING_WINDOW \/ ~opening_settled
recent_request == last_request < REQUEST_RECENT
may_repause_Forgetful(p) == TRUE
may_repause(p) == p \notin repaused
in_stream_grace == took_over_at < STREAM_GRACE
wants_stream == playing = "yes" \/ play_edge # None \/ last_play < PLAYBACK_STOPPED

(* Building blocks of the handlers. *)
note_request == last_request' = 0 /\ repaused' = {}
renew_hold_KeepsEdge == held' = TRUE /\ hold_from' = 0 /\ UNCHANGED play_edge
renew_hold == held' = TRUE /\ hold_from' = 0 /\ play_edge' = None
repause ==
    /\ hold_from' = 0
    /\ play_edge' = None
    /\ repaused' = repaused \cup {playing_player}
    /\ out' = <<RepausePlayer(playing_player)>>
end_stream_start ==
    /\ stopped_at' = None
    /\ took_over_at' = STREAM_GRACE
    /\ stream_check' = None
    /\ reannounce' = FALSE
announce(b) == announced' = Flag(b) /\ out' = <<SendMediaInfo(b, devices)>>
nothing == out' = <<>>

(* Give the audio up: pause, take the card off, and only then say so. *)
yield_steps(announces, kind) ==
    /\ owner' = "Other"
    /\ released' = TRUE
    /\ note_request
    /\ renew_hold
    /\ end_stream_start
    /\ out' = IF announces
              THEN <<PauseLocalPlayers, SetAudioRoute("Yielded"), SendOwnership(FALSE),
                     Record(kind)>>
              ELSE <<PauseLocalPlayers, SetAudioRoute("Yielded"), Record(kind)>>

take_over_actions ==
    <<SetAudioRoute("Own"), SendOwnership(TRUE), SendMediaInfo(TRUE, devices),
      SendHijack(devices), ClaimAudio, Record("TookOver")>>

take_over_steps_KeepsHold ==
    /\ owner' = "Local" /\ released' = FALSE /\ held' = held /\ play_edge' = None
    /\ stopped_at' = None /\ took_over_at' = 0
    /\ stream_check' = IF transport_active = "unknown" THEN None ELSE STREAM_CHECK
    /\ reannounce' = (transport_active = "no") /\ announced' = "yes"

(* The state half of a take-over; the actions follow what stream_tick said. *)
take_over_steps ==
    /\ owner' = "Local"
    /\ released' = FALSE
    /\ held' = FALSE
    /\ play_edge' = None
    /\ stopped_at' = None
    /\ took_over_at' = 0
    /\ stream_check' = IF transport_active = "unknown" THEN None ELSE STREAM_CHECK
    /\ reannounce' = (transport_active = "no")
    /\ announced' = "yes"

reset_link ==
    /\ owner' = "Unknown" /\ audio_source' = NoSource /\ devices' = {}
    /\ released' = FALSE /\ held' = FALSE /\ hold_from' = PAUSE_HOLD
    /\ opening_settled' = FALSE /\ last_request' = REQUEST_RECENT
    /\ repaused' = {} /\ play_edge' = None /\ announced' = "unknown"
    /\ end_stream_start

----------------------------------------------------------------------------
Init ==
    /\ enabled \in BOOLEAN
    /\ phase = "down" /\ opened_at = OPENING_WINDOW_MAX /\ opening_settled = FALSE
    /\ owner = "Unknown" /\ audio_source = NoSource /\ devices = {} /\ released = FALSE
    /\ held = FALSE /\ hold_from = PAUSE_HOLD /\ last_request = REQUEST_RECENT
    /\ repaused = {} /\ audio_changed = AUDIO_CHANGE_HOLD
    /\ reading = NoReading /\ playing = "unknown" /\ playing_player = NoPlayer
    /\ play_edge = None /\ last_play = PLAYBACK_STOPPED /\ stopped_at = None
    /\ transport_active = "unknown" /\ took_over_at = STREAM_GRACE
    /\ stream_check = None /\ reannounce = FALSE /\ announced = "unknown"
    /\ out = <<>>

(* A dial got its socket: everything of the last link is forgotten, and    *)
(* the last MPRIS reading primes `playing` so that it is no edge.          *)
LinkOpened ==
    /\ phase = "down"
    /\ phase' = "opening"
    /\ opened_at' = 0
    /\ reset_link
    /\ playing' = reading.playing
    /\ playing_player' = IF reading.player = NoPlayer THEN playing_player ELSE reading.player
    /\ last_play' = IF reading.playing = "yes" THEN 0 ELSE last_play
    /\ nothing
    /\ UNCHANGED <<enabled, audio_changed, reading, transport_active>>

(* The opening sequence finished; the readback window starts. *)
Promote ==
    /\ phase = "opening"
    /\ phase' = "dump"
    /\ nothing
    /\ UNCHANGED <<enabled, opened_at, opening_settled, beliefVars, holdVars, audio_changed,
                   playVars, play_edge, stopped_at, transport_active, startVars, announced>>

(* First battery packet, or the readback window closed. *)
OpeningSettled ==
    /\ phase = "dump"
    /\ phase' = "up"
    /\ opening_settled' = TRUE
    /\ nothing
    /\ UNCHANGED <<enabled, opened_at, beliefVars, holdVars, audio_changed, playVars,
                   play_edge, stopped_at, transport_active, startVars, announced>>

(* drop_socket, also when no socket was open. *)
LinkClosed ==
    /\ phase' = "down"
    /\ opened_at' = OPENING_WINDOW_MAX
    /\ reset_link
    /\ playing' = "unknown"
    /\ nothing
    /\ UNCHANGED <<enabled, audio_changed, reading, playing_player, last_play,
                   transport_active>>

(* Opcode 0x000E naming this host, or any host as idle. *)
AudioSourceHere(h, st) ==
    /\ link_up
    /\ h = Local \/ st = "Idle"
    /\ audio_source' = [host |-> h, status |-> st]
    /\ IF h = Local /\ st # "Idle"
       THEN owner' = "Local" /\ audio_changed' = 0
       ELSE UNCHANGED <<owner, audio_changed>>
    /\ \/ /\ ~held \/ in_opening
          /\ nothing /\ UNCHANGED <<holdVars, play_edge>>
       \/ /\ held /\ ~in_opening /\ ~recent_request       \* the hold is over
          /\ held' = FALSE
          /\ nothing /\ UNCHANGED <<hold_from, last_request, repaused, play_edge>>
       \/ /\ held /\ ~in_opening /\ recent_request
          /\ h = Local /\ st = "Media" /\ play_edge = None /\ may_repause(playing_player)
          /\ repause                                      \* our stream leaked
          /\ UNCHANGED <<held, last_request>>
       \/ /\ held /\ ~in_opening /\ recent_request
          /\ ~(h = Local /\ st = "Media" /\ play_edge = None /\ may_repause(playing_player))
          /\ nothing /\ UNCHANGED <<holdVars, play_edge>>
    /\ UNCHANGED <<enabled, linkVars, devices, released, playVars, stopped_at,
                   transport_active, startVars, announced>>

(* Opcode 0x000E naming another host in a call or playing media. *)
AudioSourceOther(h, st) ==
    /\ link_up
    /\ h \in Hosts /\ st # "Idle"
    /\ audio_source' = [host |-> h, status |-> st]
    /\ \/ /\ in_opening \/ audio_source = [host |-> h, status |-> st] \/ ~enabled
          /\ owner' = "Other"
          /\ nothing
          /\ UNCHANGED <<released, holdVars, play_edge, stopped_at, startVars>>
       \/ /\ ~in_opening /\ audio_source # [host |-> h, status |-> st] /\ enabled
          /\ released
          /\ owner' = "Other"
          /\ note_request /\ renew_hold
          /\ nothing
          /\ UNCHANGED <<released, stopped_at, startVars>>
       \/ /\ ~in_opening /\ audio_source # [host |-> h, status |-> st] /\ enabled
          /\ ~released
          /\ yield_steps(TRUE, "Yielded")
    /\ UNCHANGED <<enabled, linkVars, devices, audio_changed, playVars, transport_active,
                   announced>>

(* Opcode 0x002E; L is the set of other hosts it lists. *)
ConnectedDevices(L) ==
    /\ link_up
    /\ devices' = L
    /\ out' = When(~in_opening /\ enabled /\ owner = "Local" /\ ~(L \subseteq devices),
                   <<SendNewDevice(L \ devices)>>)
    /\ UNCHANGED <<enabled, linkVars, owner, audio_source, released, holdVars, audio_changed,
                   playVars, play_edge, stopped_at, transport_active, startVars, announced>>

(* Control 0x06 from the AirPods.  The session marks the reports of the    *)
(* opening sequence and of the readback window as state.                   *)
OwnsConnection(owns) ==
    /\ link_up
    /\ \/ /\ owns
          /\ owner' = "Local"
          /\ nothing
          /\ UNCHANGED <<released, holdVars, play_edge, stopped_at, startVars>>
       \/ /\ ~owns
          /\ ~enabled \/ phase # "up" \/ in_opening
          /\ owner' = "Other"
          /\ nothing
          /\ UNCHANGED <<released, holdVars, play_edge, stopped_at, startVars>>
       \/ /\ ~owns /\ enabled /\ phase = "up" /\ ~in_opening /\ released
          /\ owner' = "Other"
          /\ note_request
          /\ nothing
          /\ UNCHANGED <<released, held, hold_from, play_edge, stopped_at, startVars>>
       \/ /\ ~owns /\ enabled /\ phase = "up" /\ ~in_opening /\ ~released
          /\ yield_steps(FALSE, "Yielded")
    /\ UNCHANGED <<enabled, linkVars, audio_source, devices, audio_changed, playVars,
                   transport_active, announced>>

(* Opcode 0x0011 relayed from another host, asking for the audio. *)
SmartRouting ==
    /\ link_up
    /\ \/ /\ ~enabled
          /\ owner' = "Other"
          /\ nothing
          /\ UNCHANGED <<released, holdVars, play_edge, stopped_at, startVars>>
       \/ /\ enabled /\ released
          /\ owner' = "Other"
          /\ last_request' = 0 /\ renew_hold
          /\ IF playing = "yes"
             THEN repaused' = {playing_player} /\ out' = <<RepausePlayer(playing_player)>>
             ELSE repaused' = {} /\ nothing
          /\ UNCHANGED <<released, stopped_at, startVars>>
       \/ /\ enabled /\ ~released
          /\ yield_steps(TRUE, "YieldRequested")
    /\ UNCHANGED <<enabled, linkVars, audio_source, devices, audio_changed, playVars,
                   transport_active, announced>>

(* An MPRIS reading (session.rs on_playback): p is the first playing       *)
(* player, NoPlayer when none plays.                                       *)
Playback(p) ==
    LET plays == p # NoPlayer
        edge == playing = "no" /\ plays
        repauses == edge /\ in_hold_window /\ may_repause(p)
    IN
    /\ reading' = [playing |-> Flag(plays), player |-> p]
    /\ playing' = Flag(plays)
    /\ playing_player' = IF plays THEN p ELSE playing_player
    /\ last_play' = IF plays \/ playing = "yes" THEN 0 ELSE last_play
    /\ \/ /\ repauses
          /\ hold_from' = 0 /\ play_edge' = None /\ repaused' = repaused \cup {p}
          /\ out' = <<RepausePlayer(p)>>
          /\ UNCHANGED <<stopped_at, announced>>
       \/ /\ edge /\ ~repauses                            \* the user's play
          /\ play_edge' = 0 /\ stopped_at' = None
          /\ IF enabled /\ link_up /\ owns_audio /\ transport_active = "yes"
                /\ announced = "no"
             THEN announce(TRUE)
             ELSE nothing /\ UNCHANGED announced
          /\ UNCHANGED <<hold_from, repaused>>
       \/ /\ playing = "yes" /\ ~plays
          /\ play_edge' = None /\ stopped_at' = 0
          /\ nothing
          /\ UNCHANGED <<hold_from, repaused, announced>>
       \/ /\ ~edge /\ ~(playing = "yes" /\ ~plays)        \* first reading, or no change
          /\ nothing
          /\ UNCHANGED <<hold_from, repaused, play_edge, stopped_at, announced>>
    /\ UNCHANGED <<enabled, linkVars, beliefVars, held, last_request, audio_changed,
                   transport_active, startVars>>

(* BlueZ reported a connection, profile or transport change. *)
AudioLinkChanged ==
    /\ audio_changed' = 0
    /\ nothing
    /\ UNCHANGED <<enabled, linkVars, beliefVars, holdVars, playVars, play_edge, stopped_at,
                   transport_active, startVars, announced>>

A2dpTransport(active) ==
    LET starts == active /\ transport_active # "yes" /\ link_up /\ owns_audio IN
    /\ transport_active' = Flag(active)
    /\ stream_check' = IF starts THEN None ELSE stream_check
    /\ reannounce' = IF starts THEN FALSE ELSE reannounce
    /\ IF starts /\ (reannounce \/ (enabled /\ playing = "yes" /\ announced = "no"))
       THEN announce(TRUE)
       ELSE nothing /\ UNCHANGED announced
    /\ UNCHANGED <<enabled, linkVars, beliefVars, holdVars, audio_changed, playVars,
                   play_edge, stopped_at, took_over_at>>

----------------------------------------------------------------------------
(* The daemon's periodic tick: stream_tick, stop_tick, then the debounced  *)
(* take-over.                                                              *)
stream_tick ==
    When(stream_check = 0 /\ link_up /\ owns_audio /\ transport_active = "no" /\ wants_stream,
         <<StreamNotStarted>>)

stream_check_after_Kept == stream_check
stream_check_after == IF stream_check = 0 THEN None ELSE stream_check

stop_due_NoGrace == playing = "no" /\ stopped_at = PLAYBACK_STOPPED
stop_due_Missed == playing = "no" /\ stopped_at = 0 /\ ~in_stream_grace
stop_due ==
    /\ playing = "no"
    /\ stopped_at = PLAYBACK_STOPPED
    /\ ~in_stream_grace

user_play_NoDebounce == play_edge # None /\ playing = "yes"
user_play_NeverHeld == play_edge = PLAY_DEBOUNCE /\ playing = "yes" /\ ~held
user_play == play_edge = PLAY_DEBOUNCE /\ playing = "yes"

take_over_allowed ==
    enabled /\ TakeOverOnPlay /\ link_up /\ ~other_in_call /\ owned_elsewhere

TickTakesOver ==
    /\ user_play /\ take_over_allowed
    /\ take_over_steps
    /\ out' = stream_tick \o take_over_actions
    /\ UNCHANGED <<enabled, linkVars, audio_source, devices, hold_from, last_request, repaused,
                   audio_changed, playVars, transport_active>>

TickElse ==
    /\ ~(user_play /\ take_over_allowed)
    /\ stream_check' = stream_check_after
    /\ stopped_at' = IF playing # "no" \/ stop_due THEN None ELSE stopped_at
    /\ IF stop_due /\ enabled /\ link_up /\ owns_audio /\ announced # "no"
       THEN announced' = "no" /\ out' = stream_tick \o <<SendMediaInfo(FALSE, devices)>>
       ELSE announced' = announced /\ out' = stream_tick
    /\ play_edge' = IF play_edge = PLAY_DEBOUNCE THEN None ELSE play_edge
    /\ held' = (held /\ ~user_play)
    /\ UNCHANGED <<enabled, linkVars, beliefVars, hold_from, last_request, repaused,
                   audio_changed, playVars, transport_active, took_over_at, reannounce>>

Tick == TickTakesOver \/ TickElse

(* {"cmd":"take_over"} and {"cmd":"yield"}; both need a promoted socket. *)
TakeOver ==
    /\ phase \in {"dump", "up"}
    /\ take_over_steps
    /\ out' = take_over_actions
    /\ UNCHANGED <<enabled, linkVars, audio_source, devices, hold_from, last_request, repaused,
                   audio_changed, playVars, transport_active>>

Yield ==
    /\ phase \in {"dump", "up"}
    /\ yield_steps(TRUE, "Yielded")
    /\ UNCHANGED <<enabled, linkVars, audio_source, devices, audio_changed, playVars,
                   transport_active, announced>>

(* {"cmd":"set_handoff"}: session.rs set_handoff. *)
SetHandoff(b) ==
    /\ enabled' = b
    /\ nothing
    /\ UNCHANGED <<linkVars, beliefVars, holdVars, audio_changed, playVars, play_edge,
                   stopped_at, transport_active, startVars, announced>>

----------------------------------------------------------------------------
(* One unit of time. *)
Older(age, window) == IF age = None \/ age = window THEN age ELSE age + 1

Pass ==
    /\ opened_at' = Older(opened_at, OPENING_WINDOW_MAX)
    /\ hold_from' = Older(hold_from, PAUSE_HOLD)
    /\ last_request' = Older(last_request, REQUEST_RECENT)
    /\ audio_changed' = Older(audio_changed, AUDIO_CHANGE_HOLD)
    /\ play_edge' = Older(play_edge, PLAY_DEBOUNCE)
    /\ last_play' = Older(last_play, PLAYBACK_STOPPED)
    /\ stopped_at' = Older(stopped_at, PLAYBACK_STOPPED)
    /\ took_over_at' = Older(took_over_at, STREAM_GRACE)
    /\ stream_check' = IF stream_check > 0 THEN stream_check - 1 ELSE stream_check
    /\ nothing
    /\ UNCHANGED <<enabled, phase, opening_settled, beliefVars, held, repaused, reading,
                   playing, playing_player, transport_active, reannounce, announced>>

Report ==
    \/ \E h \in Hosts \cup {Local}, st \in Statuses :
           AudioSourceHere(h, st) \/ AudioSourceOther(h, st)
    \/ \E L \in SUBSET Hosts : ConnectedDevices(L)
    \/ \E b \in BOOLEAN : OwnsConnection(b)
    \/ SmartRouting

Command == TakeOver \/ Yield \/ \E b \in BOOLEAN : SetHandoff(b)

Next ==
    \/ LinkOpened \/ Promote \/ OpeningSettled \/ LinkClosed
    \/ Report
    \/ \E p \in Players \cup {NoPlayer} : Playback(p)
    \/ AudioLinkChanged
    \/ \E b \in BOOLEAN : A2dpTransport(b)
    \/ Tick
    \/ Command
    \/ Pass

Spec == Init /\ [][Next]_vars

----------------------------------------------------------------------------
Windows(w) == 0..w

SwitchesOK ==
    /\ enabled \in BOOLEAN /\ opening_settled \in BOOLEAN
    /\ released \in BOOLEAN /\ held \in BOOLEAN /\ reannounce \in BOOLEAN

ValuesOK ==
    /\ phase \in {"down", "opening", "dump", "up"}
    /\ opened_at \in Windows(OPENING_WINDOW_MAX)
    /\ owner \in {"Unknown", "Local", "Other"}
    /\ audio_source \in Sources
    /\ devices \subseteq Hosts
    /\ hold_from \in Windows(PAUSE_HOLD)
    /\ last_request \in Windows(REQUEST_RECENT)
    /\ repaused \subseteq Players \cup {NoPlayer}
    /\ audio_changed \in Windows(AUDIO_CHANGE_HOLD)
    /\ reading \in Readings
    /\ playing \in Flags /\ playing_player \in Players \cup {NoPlayer}
    /\ play_edge \in Windows(PLAY_DEBOUNCE) \cup {None}
    /\ last_play \in Windows(PLAYBACK_STOPPED)
    /\ stopped_at \in Windows(PLAYBACK_STOPPED) \cup {None}
    /\ transport_active \in Flags
    /\ took_over_at \in Windows(STREAM_GRACE)
    /\ stream_check \in Windows(STREAM_CHECK) \cup {None}
    /\ announced \in Flags

(* Every variable has its type; an age never exceeds its window. *)
TypeOK == SwitchesOK /\ ValuesOK

=============================================================================
