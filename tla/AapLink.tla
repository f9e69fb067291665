------------------------------ MODULE AapLink -------------------------------
(***************************************************************************)
(* The AAP link of the supervisor (aap/session.rs): link events of the     *)
(* BlueZ watcher, the one guarded dial they arm, the opening sequence with *)
(* its awaits, the watchdogs of an open link, the commands that need it,   *)
(* and the readback that reopens it after a setting write.                 *)
(*                                                                         *)
(* One task runs everything, so a handler is a step; an await ends the     *)
(* step and what is waited for is the value of `at`.  BlueZ, the clients   *)
(* and the AirPods act in between.  A handler drains the link events at    *)
(* the places opening_alive and drain_link_events are called: there the    *)
(* next step needs an empty queue.  The budgets of single awaits (connect, *)
(* the two acks, a send) are left untimed: an await may end badly at any   *)
(* time.                                                                   *)
(*                                                                         *)
(* Timers count down to 0 = due; ages count up to the threshold that reads *)
(* them.                                                                   *)
(***************************************************************************)
EXTENDS Integers, Sequences

CONSTANTS
    Keys, Values, NoValue, NAME_KEY,        \* of Readback
    SETTLE, BATTERY_WATCHDOG, MAX_NOTIF_RESENDS, IDLE_TIMEOUT, IDLE_PROBE_GRACE,
    VERIFY_DEBOUNCE, VERIFY_BUDGET, READBACK_WINDOW,
    Pinned,                 \* the device was selected from an explicit pin
    MaxEvents,              \* link events on their way at once
    MaxGeneration           \* bound of link_generation

ASSUME AapAssumption ==
    /\ {SETTLE, BATTERY_WATCHDOG, MAX_NOTIF_RESENDS, IDLE_TIMEOUT, IDLE_PROBE_GRACE,
        VERIFY_DEBOUNCE, VERIFY_BUDGET, READBACK_WINDOW, MaxEvents, MaxGeneration} \subseteq Nat
    /\ Pinned \in BOOLEAN /\ NoValue \notin Values
(* The battery watchdog has used up its resends before the link is idle    *)
(* (session.rs 63-72: three times 10 s in 300 s).                          *)
ASSUME WatchdogAssumption ==
    /\ BATTERY_WATCHDOG > 0 /\ IDLE_TIMEOUT > 0 /\ IDLE_PROBE_GRACE > 0
    /\ MAX_NOTIF_RESENDS * BATTERY_WATCHDOG + BATTERY_WATCHDOG <= IDLE_TIMEOUT

VARIABLES
    link,               \* BlueZ: the device is connected locally
    events,             \* link_rx
    acl, link_generation,
    sock,               \* the generation of the open socket, or None
    dial_at, dial_kind,
    at,                 \* what the task awaits: "loop" between wakes
    opening,            \* the dial under way: the kind it took and its generation
    late,               \* the readback budget had run out when this tick began
    handshake_at, battery_seen, notif_resends, last_packet, idle_probe_at,
    verify_at, verify_budget, readback_at,
    doc,                \* the readback part of the snapshot
    cmd,                \* the command queued or running, or NoCmd
    stored,             \* AirPods: the values they hold
    dump,               \* the settings reports the AirPods have on their way
    does                \* what this step did, for the properties

R == INSTANCE Readback

linkVars == <<acl, link_generation, sock, dial_at, dial_kind>>
watchVars == <<handshake_at, battery_seen, notif_resends, last_packet, idle_probe_at>>
verifyVars == <<verify_at, verify_budget, readback_at, doc>>
bluezVars == <<link, events>>
podsVars == <<stored, dump>>
avars == <<bluezVars, linkVars, at, opening, late, watchVars, verifyVars, cmd, podsVars, does>>

None == -1
NoCmd == [kind |-> "none"]
Kinds == {"reconnect", "connect_once", "control", "write"}
NoDump == [k \in Keys |-> NoValue]
NoDial == [kind |-> "none", generation |-> 0]
Opening == {"connect", "handshake", "features"}

AapInit ==
    /\ link = FALSE /\ events = <<>> /\ acl = FALSE /\ link_generation = 0 /\ sock = None
    /\ dial_at = None /\ dial_kind = "none" /\ at = "loop"
    /\ opening = NoDial /\ late = FALSE
    /\ handshake_at = None /\ battery_seen = FALSE /\ notif_resends = 0
    /\ last_packet = None /\ idle_probe_at = None
    /\ verify_at = None /\ verify_budget = None /\ readback_at = None
    /\ doc = R!NothingAsked /\ cmd = NoCmd
    /\ stored \in [Keys -> Values] /\ dump = NoDump /\ does = {}

----------------------------------------------------------------------------
(* BlueZ and its watcher. *)
Post(ev) ==
    /\ Len(events) < MaxEvents /\ link_generation + Len(events) < MaxGeneration
    /\ events' = Append(events, ev)
KeepsTask ==
    /\ does' = {}
    /\ UNCHANGED <<linkVars, at, opening, late, watchVars, verifyVars, podsVars>>

LinkUp == ~link /\ link' = TRUE /\ Post("up") /\ KeepsTask /\ UNCHANGED cmd
LinkDown == link /\ link' = FALSE /\ Post("down") /\ KeepsTask /\ UNCHANGED cmd
(* A rebuilt watch sends the current state again; another adapter, pin or  *)
(* device is a new identity, followed by its state.                        *)
WatchAgain == link /\ Post("up") /\ UNCHANGED <<link, cmd>> /\ KeepsTask
NewIdentity(device) ==
    Post(device) /\ link' = FALSE /\ KeepsTask /\ UNCHANGED cmd

(* The control server queues a command, with the context of the store.     *)
(* The context is only ever compared, so a command carries whether it      *)
(* still is the current one.                                               *)
Submit(c) ==
    /\ cmd = NoCmd
    /\ cmd' = [kind |-> c.kind, key |-> c.key, value |-> c.value,
               current |-> TRUE, wanted |-> TRUE, generation |-> link_generation]
    /\ KeepsTask /\ UNCHANGED bluezVars
(* The deadline of the reply passes: the handler closes its end. *)
GiveUp ==
    /\ cmd # NoCmd /\ cmd.wanted
    /\ cmd' = [cmd EXCEPT !.wanted = FALSE]
    /\ KeepsTask /\ UNCHANGED bluezVars

(* connection_epoch is bumped: the queued command is not of this link. *)
Outdated(c) == IF c = NoCmd THEN NoCmd ELSE [c EXCEPT !.current = FALSE]
command_is_current_Wanted == cmd.wanted
command_is_current == cmd.wanted /\ cmd.current

----------------------------------------------------------------------------
(* The two ways a socket ends.  d is the snapshot before, c the command.   *)
drop_socket(d) ==
    /\ sock' = None /\ handshake_at' = None /\ battery_seen' = FALSE
    /\ notif_resends' = 0 /\ idle_probe_at' = None /\ readback_at' = None
    /\ doc' = R!link_lost(d) /\ dump' = NoDump

suppress_automatic_KeepsDial(d) ==
    /\ dial_at' = 0 /\ dial_kind' = "Automatic" /\ drop_socket(d)
suppress_automatic(d) ==
    /\ dial_at' = None /\ dial_kind' = "none" /\ drop_socket(d)

Suppress ==             \* in a handler that runs no command
    /\ suppress_automatic(doc) /\ cmd' = Outdated(cmd)
    /\ UNCHANGED <<acl, link_generation, last_packet, verify_at, verify_budget, stored>>

opening_alive == acl /\ link_generation = opening.generation
KeepsWatch == UNCHANGED watchVars

(* on_link: Connected(true). *)
Connected ==
    /\ acl' = TRUE
    /\ IF acl THEN UNCHANGED <<link_generation, dial_at, dial_kind>>
       ELSE /\ link_generation' = link_generation + 1
            /\ dial_at' = SETTLE /\ dial_kind' = "Automatic"

(* on_link: Connected(false), AdapterGone, and another Identity. *)
NotConnected_KeepsSocket(d) ==
    /\ acl' = FALSE /\ link_generation' = link_generation + 1
    /\ dial_at' = None /\ dial_kind' = "none"
    /\ doc' = R!link_lost(d)
    /\ UNCHANGED <<sock, handshake_at, battery_seen, notif_resends, idle_probe_at,
                   readback_at, dump>>
NotConnected(d) ==
    /\ acl' = FALSE /\ link_generation' = link_generation + 1
    /\ dial_at' = None /\ dial_kind' = "none" /\ drop_socket(d)

on_link(ev) ==
    \/ /\ ev = "up" /\ Connected
       /\ cmd' = IF acl THEN cmd ELSE Outdated(cmd)
       /\ UNCHANGED <<sock, watchVars, readback_at, doc, dump>>
    \/ /\ ev # "up"
       /\ NotConnected(IF ev = "other" THEN R!OtherDevice(doc) ELSE doc)
       /\ cmd' = Outdated(cmd) /\ UNCHANGED last_packet

(* The supervisor takes a link event: first in the loop and in every wait  *)
(* of a dial, and where it drains the queue.  A dial whose link changed    *)
(* ends there.                                                             *)
Drains == {"loop", "dial", "dial_checked", "verify_checked", "command_checked"} \cup Opening
OnLink ==
    /\ at \in Drains /\ events # <<>>
    /\ on_link(Head(events)) /\ events' = Tail(events)
    /\ opening' = opening
    /\ at' = IF at \in Opening /\ ~opening_alive' THEN "loop" ELSE at
    /\ does' = IF acl' /\ ~acl THEN {"new_link"} ELSE {}
    /\ UNCHANGED <<link, late, verify_at, verify_budget, stored>>

----------------------------------------------------------------------------
(* Time.  Up and Down move an age or a countdown that runs. *)
Up(t, most) == IF t = None THEN None ELSE IF t < most THEN t + 1 ELSE most
Down(t) == IF t > 0 THEN t - 1 ELSE t
WatchesRun ==
    /\ dial_at' = Down(dial_at)
    /\ handshake_at' = Up(handshake_at, BATTERY_WATCHDOG)
    /\ last_packet' = Up(last_packet, IDLE_TIMEOUT)
    /\ idle_probe_at' = Up(idle_probe_at, IDLE_PROBE_GRACE)
    /\ UNCHANGED <<acl, link_generation, sock, dial_kind, battery_seen, notif_resends, opening>>

(* While the task awaits, time passes. *)
Wait ==
    /\ at \in {"dial_fresh", "verify_fresh", "command_fresh"} \cup Opening
    /\ WatchesRun
    /\ verify_at' = Down(verify_at) /\ verify_budget' = Down(verify_budget)
    /\ readback_at' = Down(readback_at)
    /\ does' = {} /\ UNCHANGED <<bluezVars, at, late, doc, cmd, podsVars>>

(* on_tick up to the awaits of tick_verification. *)
tick_verification(settled, budget) == budget = 0
Tick ==
    /\ at = "loop" /\ events = <<>> /\ cmd = NoCmd
    /\ WatchesRun
    /\ LET settled == Down(readback_at) = 0
           due == Down(verify_at) = 0
           nothing == due /\ ~acl /\ sock = None
           budget == IF settled THEN None ELSE Down(verify_budget)
           judged == IF settled THEN R!finish_verification(doc) ELSE doc
       IN /\ readback_at' = IF settled THEN None ELSE Down(readback_at)
          /\ verify_at' = IF due THEN None ELSE Down(verify_at)
          /\ verify_budget' = IF nothing THEN None ELSE budget
          /\ doc' = IF nothing THEN R!abandon_verification(judged) ELSE judged
          /\ late' = tick_verification(settled, budget)
          /\ at' = IF due /\ ~nothing THEN "verify_fresh" ELSE "tick"
    /\ does' = {"tick"} /\ UNCHANGED <<bluezVars, cmd, podsVars>>

(* begin_verify_reopen: the answer of BlueZ, then the drain. *)
abandon_readback ==
    /\ verify_at' = None /\ verify_budget' = None /\ doc' = R!abandon_verification(doc)
VerifyFresh(answer) ==
    /\ at = "verify_fresh"
    /\ IF answer = "yes" THEN at' = "verify_checked" /\ UNCHANGED <<verify_at, verify_budget, doc>>
       ELSE at' = "tick" /\ abandon_readback
    /\ does' = {}
    /\ UNCHANGED <<bluezVars, linkVars, opening, late, watchVars, readback_at, cmd, podsVars>>

reopen_local_link(d) == drop_socket(d) /\ dial_kind' = "Manual" /\ dial_at' = 0

VerifyReopen ==
    /\ at = "verify_checked" /\ events = <<>>
    /\ at' = "tick"
    /\ IF acl
       THEN /\ reopen_local_link(R!Reopening(doc)) /\ cmd' = Outdated(cmd)
            /\ does' = {"reopen"}
            /\ UNCHANGED <<acl, link_generation, last_packet, verify_at, verify_budget>>
       ELSE /\ abandon_readback /\ does' = {}
            /\ UNCHANGED <<linkVars, watchVars, readback_at, cmd, dump>>
    /\ UNCHANGED <<bluezVars, opening, late, stored>>

----------------------------------------------------------------------------
(* The rest of on_tick: the readback budget, the dial that is due, and the *)
(* watchdogs of an open link.  A send may fail.                            *)
idle_decision_ProbesAgain ==
    IF last_packet >= IDLE_TIMEOUT THEN "Probe" ELSE "Nothing"
idle_decision ==
    IF idle_probe_at # None
    THEN IF idle_probe_at >= IDLE_PROBE_GRACE THEN "Recycle" ELSE "Nothing"
    ELSE IF last_packet >= IDLE_TIMEOUT THEN "Probe" ELSE "Nothing"

no_battery == ~battery_seen /\ handshake_at >= BATTERY_WATCHDOG

on_tick(d, sent) ==
    \/ /\ ~acl \/ (sock = None /\ dial_at # 0)
       /\ at' = "loop" /\ doc' = d
       /\ UNCHANGED <<sock, dial_at, dial_kind, watchVars, readback_at, cmd, dump>>
    \/ /\ acl /\ sock = None /\ dial_at = 0
       /\ at' = "dial" /\ doc' = d
       /\ UNCHANGED <<sock, dial_at, dial_kind, watchVars, readback_at, cmd, dump>>
    \/ /\ acl /\ sock # None /\ no_battery /\ notif_resends < MAX_NOTIF_RESENDS /\ sent
       /\ notif_resends' = notif_resends + 1 /\ handshake_at' = 0
       /\ at' = "loop" /\ doc' = d
       /\ UNCHANGED <<sock, dial_at, dial_kind, battery_seen, last_packet, idle_probe_at,
                      readback_at, cmd, dump>>
    \/ /\ acl /\ sock # None /\ ~no_battery /\ idle_decision = "Nothing"
       /\ at' = "loop" /\ doc' = d
       /\ UNCHANGED <<sock, dial_at, dial_kind, watchVars, readback_at, cmd, dump>>
    \/ /\ acl /\ sock # None /\ ~no_battery /\ idle_decision = "Probe" /\ sent
       /\ idle_probe_at' = 0
       /\ at' = "loop" /\ doc' = d
       /\ UNCHANGED <<sock, dial_at, dial_kind, handshake_at, battery_seen, notif_resends,
                      last_packet, readback_at, cmd, dump>>
    \/ /\ acl /\ sock # None
       /\ IF no_battery THEN notif_resends = MAX_NOTIF_RESENDS \/ ~sent
          ELSE idle_decision = "Recycle" \/ (idle_decision = "Probe" /\ ~sent)
       /\ suppress_automatic(d) /\ cmd' = Outdated(cmd)
       /\ at' = "loop" /\ UNCHANGED last_packet

TickRest(sent) ==
    /\ at = "tick"
    /\ LET over == late /\ verify_budget # None IN
       /\ verify_at' = IF over THEN None ELSE verify_at
       /\ verify_budget' = IF over THEN None ELSE verify_budget
       /\ on_tick(IF over THEN R!abandon_verification(doc) ELSE doc, sent)
    /\ late' = FALSE /\ does' = {}
    /\ UNCHANGED <<bluezVars, acl, link_generation, opening, stored>>

----------------------------------------------------------------------------
(* dial: the kind is taken, BlueZ asked once more, the PSM connected.      *)
Dial ==
    /\ at = "dial" /\ events = <<>>
    /\ IF ~acl \/ dial_kind = "none"
       THEN at' = "loop" /\ UNCHANGED <<dial_at, dial_kind, opening>>
       ELSE /\ opening' = [kind |-> dial_kind, generation |-> link_generation]
            /\ dial_at' = None /\ dial_kind' = "none" /\ at' = "dial_fresh"
    /\ does' = {}
    /\ UNCHANGED <<bluezVars, acl, link_generation, sock, late, watchVars, verifyVars, cmd,
                   podsVars>>

authorize_dial(answer) ==
    /\ at = "dial_fresh"
    /\ IF answer = "yes"
       THEN /\ at' = "dial_checked"
            /\ UNCHANGED <<linkVars, watchVars, verifyVars, cmd, podsVars>>
       ELSE /\ at' = "loop"
            /\ IF opening.kind = "Automatic" THEN Suppress
               ELSE UNCHANGED <<linkVars, watchVars, verifyVars, cmd, podsVars>>
    /\ does' = {} /\ UNCHANGED <<bluezVars, opening, late>>

Connect ==
    /\ at = "dial_checked" /\ events = <<>>
    /\ IF opening_alive THEN at' = "connect" /\ does' = {"attempt"}
       ELSE at' = "loop" /\ does' = {}
    /\ UNCHANGED <<bluezVars, linkVars, opening, late, watchVars, verifyVars, cmd, podsVars>>

(* socket::connect and the handshake datagram. *)
Connects(good) ==
    /\ at = "connect" /\ events = <<>>
    /\ IF good
       THEN /\ at' = "handshake" /\ battery_seen' = FALSE /\ notif_resends' = 0
            /\ UNCHANGED <<linkVars, handshake_at, last_packet, idle_probe_at, verifyVars, cmd,
                           podsVars>>
       ELSE at' = "loop" /\ Suppress
    /\ does' = {} /\ UNCHANGED <<bluezVars, opening, late>>

(* The handshake must be acknowledged; then set-features goes out, and the *)
(* AirPods answer it with a dump of the settings they hold.                *)
HandshakeAck(good) ==
    /\ at = "handshake" /\ events = <<>>
    /\ IF good
       THEN /\ at' = "features" /\ last_packet' = 0 /\ idle_probe_at' = None
            /\ dump' = stored /\ does' = {"dumped"}
            /\ UNCHANGED <<linkVars, handshake_at, battery_seen, notif_resends, verifyVars, cmd,
                           stored>>
       ELSE at' = "loop" /\ does' = {} /\ Suppress
    /\ UNCHANGED <<bluezVars, opening, late>>

(* The features ack, or its absence, is followed by the subscribe.         *)
FeaturesAck(good) ==
    /\ at = "features" /\ events = <<>>
    /\ at' = "loop"
    /\ IF good
       THEN /\ sock' = opening.generation
            /\ handshake_at' = 0 /\ last_packet' = 0 /\ readback_at' = READBACK_WINDOW
            /\ cmd' = Outdated(cmd)
            /\ UNCHANGED <<acl, link_generation, dial_at, dial_kind, battery_seen,
                           notif_resends, idle_probe_at, verify_at, verify_budget, doc, podsVars>>
       ELSE Suppress
    /\ does' = {} /\ UNCHANGED <<bluezVars, opening, late>>

----------------------------------------------------------------------------
(* on_packet, in the loop or while an ack is awaited. *)
Receives ==
    events = <<>> /\ (at \in {"handshake", "features"} \/ (at = "loop" /\ sock # None /\ cmd = NoCmd))
Heard ==
    /\ last_packet' = 0 /\ idle_probe_at' = None /\ does' = {}
    /\ UNCHANGED <<bluezVars, linkVars, at, opening, late, handshake_at, notif_resends, cmd, stored>>

Battery ==
    /\ Receives /\ Heard
    /\ battery_seen' = TRUE
    /\ IF readback_at # None
       THEN /\ readback_at' = None /\ verify_budget' = None
            /\ doc' = R!finish_verification(doc)
       ELSE UNCHANGED <<readback_at, verify_budget, doc>>
    /\ UNCHANGED <<verify_at, dump>>

SettingReport(k) ==
    /\ Receives /\ Heard
    /\ dump[k] # NoValue
    /\ doc' = R!Reported(doc, k, dump[k]) /\ dump' = [dump EXCEPT ![k] = NoValue]
    /\ UNCHANGED <<battery_seen, verify_at, verify_budget, readback_at>>

OtherPacket ==
    Receives /\ Heard /\ UNCHANGED <<battery_seen, verifyVars, dump>>

(* An empty datagram or a receive error in the loop. *)
PeerCloses ==
    /\ at = "loop" /\ sock # None /\ events = <<>> /\ cmd = NoCmd
    /\ Suppress /\ does' = {} /\ UNCHANGED <<bluezVars, at, opening, late>>

----------------------------------------------------------------------------
(* on_command. *)
Answered(effect) == cmd' = NoCmd /\ does' = effect
KeepsLink == UNCHANGED <<linkVars, watchVars, verifyVars, podsVars>>
Runs(kind) == at = "loop" /\ events = <<>> /\ cmd # NoCmd /\ cmd.kind = kind

Refused ==
    /\ at = "loop" /\ events = <<>> /\ cmd # NoCmd
    /\ \/ ~command_is_current
       \/ cmd.kind \in {"control", "write"} /\ sock = None
       \/ cmd.kind = "connect_once" /\ ~Pinned
       \/ cmd.kind = "write"              \* a value or a model that has no such setting
    /\ Answered({}) /\ KeepsLink /\ UNCHANGED <<bluezVars, at, opening, late>>

SendControl(sent) ==
    /\ Runs("control") /\ command_is_current /\ sock # None
    /\ Answered({})
    /\ IF sent THEN KeepsLink
       ELSE /\ suppress_automatic(doc)
            /\ UNCHANGED <<acl, link_generation, last_packet, verify_at, verify_budget, stored>>
    /\ UNCHANGED <<bluezVars, at, opening, late>>

(* send_setting_write, send_rename: the AirPods take the value or keep     *)
(* theirs, and say nothing.                                                *)
SendWrite(sent, takes) ==
    /\ Runs("write") /\ command_is_current /\ sock # None
    /\ IF sent
       THEN /\ doc' = R!Requested(doc, cmd.key, cmd.value)
            /\ verify_at' = VERIFY_DEBOUNCE /\ verify_budget' = VERIFY_BUDGET
            /\ stored' = IF takes THEN [stored EXCEPT ![cmd.key] = cmd.value] ELSE stored
            /\ Answered({"wrote"})
            /\ UNCHANGED <<linkVars, watchVars, readback_at, dump>>
       ELSE /\ suppress_automatic(doc) /\ Answered({})
            /\ UNCHANGED <<acl, link_generation, last_packet, verify_at, verify_budget, stored>>
    /\ UNCHANGED <<bluezVars, at, opening, late>>

(* rearm_manual: BlueZ is asked, the queue drained, the context compared   *)
(* again, and only then the link reopened or BlueZ told to connect.        *)
Rearm ==
    /\ Runs("reconnect") \/ (Runs("connect_once") /\ Pinned)
    /\ command_is_current
    /\ at' = "command_fresh" /\ does' = {}
    /\ KeepsLink /\ UNCHANGED <<bluezVars, opening, late, cmd>>

RearmFresh(answer) ==
    /\ at = "command_fresh"
    /\ IF answer = "yes" THEN at' = "command_checked" /\ does' = {} /\ UNCHANGED cmd
       ELSE at' = "loop" /\ Answered({})
    /\ KeepsLink /\ UNCHANGED <<bluezVars, opening, late>>

RearmChecked ==
    /\ at = "command_checked" /\ events = <<>>
    /\ IF ~command_is_current
       THEN at' = "loop" /\ Answered({}) /\ KeepsLink
       ELSE IF cmd.kind = "reconnect"
       THEN /\ reopen_local_link(doc) /\ at' = "loop" /\ Answered({"reconnect"})
            /\ UNCHANGED <<acl, link_generation, last_packet, verify_at, verify_budget, stored>>
       ELSE /\ at' = "command_connect" /\ does' = {"connect_once"}
            /\ KeepsLink /\ UNCHANGED cmd
    /\ UNCHANGED <<bluezVars, opening, late>>

(* Device1.Connect ends, or the deadline of the command does. *)
RearmConnected ==
    /\ at = "command_connect"
    /\ at' = "loop" /\ Answered({})
    /\ KeepsLink /\ UNCHANGED <<bluezVars, opening, late>>

----------------------------------------------------------------------------
(* fresh_local_connected: what BlueZ answers, or an error or a timeout. *)
FreshAnswers == (IF link THEN {"yes"} ELSE {"no"}) \cup {"error"}

Commands ==
    [kind : Kinds \ {"write"}, key : {NoValue}, value : {NoValue}]
        \cup [kind : {"write"}, key : Keys, value : Values]

Environment ==
    \/ LinkUp \/ LinkDown \/ WatchAgain \/ GiveUp
    \/ \E device \in {"same", "other"} : NewIdentity(device)
    \/ \E c \in Commands : Submit(c)
Packets == Battery \/ OtherPacket \/ (\E k \in Keys : SettingReport(k)) \/ PeerCloses

Asked ==
    \/ \E answer \in FreshAnswers : VerifyFresh(answer) \/ authorize_dial(answer)
    \/ \E answer \in (IF cmd # NoCmd /\ cmd.kind = "connect_once" THEN {"yes", "error"}
                      ELSE FreshAnswers) : RearmFresh(answer)
Opens ==
    \/ Dial \/ Connect
    \/ \E good \in BOOLEAN : Connects(good) \/ HandshakeAck(good) \/ FeaturesAck(good)
RunsCommand ==
    \/ Refused \/ Rearm \/ RearmChecked \/ RearmConnected
    \/ \E sent, takes \in BOOLEAN : SendControl(sent) \/ SendWrite(sent, takes)
Ticks == Tick \/ (\E sent \in BOOLEAN : TickRest(sent))
Runtime == OnLink \/ Asked \/ Opens \/ RunsCommand \/ Ticks \/ VerifyReopen

AapNext == Environment \/ Packets \/ Runtime \/ Wait
AapSpec == AapInit /\ [][AapNext]_avars
=============================================================================
