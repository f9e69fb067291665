------------------------------ MODULE EarMedia ------------------------------
(***************************************************************************)
(* In-ear detection and the local players: the decisions of ear_media.rs,  *)
(* the session that feeds and performs them (session.rs ear_event,         *)
(* ear_context, on_playback), and the MPRIS task (mpris.rs) with its       *)
(* queue in each direction.                                                *)
(*                                                                         *)
(* A reading of the buds is the number in an ear, or Unknown.  Ages stop   *)
(* at the duration they are compared with.                                 *)
(***************************************************************************)
EXTENDS Integers, Sequences, FiniteSets

CONSTANTS
    Players,                \* MPRIS bus names
    NoPlayer,
    SETTLE, RESUME_WINDOW,
    MaxQueue                \* bound of the two queues (PLAYBACK_QUEUE)

NoReading == "none yet"

ASSUME EarAssumption ==
    /\ {SETTLE, RESUME_WINDOW} \subseteq Nat /\ MaxQueue \in Nat \ {0}
    /\ NoPlayer \notin Players /\ NoReading \notin Players \cup {NoPlayer}

VARIABLES
    cfg,                    \* [ear]
    aap_open, audio_on_airpods, \* the AAP link is open; ear_context
    buds,                   \* the AirPods: buds in an ear
    ear_settled, pending, playing, player, paused,      \* EarMediaState
    status,                 \* the players: PlaybackStatus
    last,                   \* mpris.rs once: the last reading sent
    readings, commands,     \* playback_rx, the queue of mpris_tx
    ear_does

earVars == <<ear_settled, pending, playing, player, paused>>
mprisVars == <<status, last, readings, commands>>
evars == <<cfg, aap_open, audio_on_airpods, buds, earVars, mprisVars, ear_does>>

None == -1
Unknown == 3
NoPending == [count |-> None, age |-> 0]
NotPaused == [count |-> None, age |-> 0, player |-> NoPlayer, confirming |-> FALSE]
Nothing == [act |-> "nothing", player |-> NoPlayer]
PausePlaying == [act |-> "PausePlaying", player |-> NoPlayer]
Play(p) == [act |-> "Play", player |-> p]
Up(age, most) == IF age < most THEN age + 1 ELSE age

EarInit ==
    /\ cfg \in [auto_pause: {TRUE}, auto_resume: BOOLEAN, pause_on_one_of_two: BOOLEAN]
    /\ aap_open = FALSE /\ audio_on_airpods = FALSE /\ buds = 0
    /\ ear_settled = None /\ pending = NoPending /\ playing = "unknown" /\ player = NoPlayer
    /\ paused = NotPaused
    /\ status \in [Players -> {"Playing", "Paused", "Stopped"}] /\ last = NoReading
    /\ readings = <<>> /\ commands = <<>> /\ ear_does = Nothing

----------------------------------------------------------------------------
(* The MPRIS task.  A reading is the first playing player, in the order of *)
(* ListNames.                                                              *)
PlayingNow == {p \in Players : status[p] = "Playing"}
read == IF PlayingNow = {} THEN NoPlayer ELSE CHOOSE p \in PlayingNow : TRUE

(* Nothing is on its way between the players and the session.              *)
Quiet == readings = <<>> /\ commands = <<>> /\ last = read
SendReading ==
    /\ last # read /\ Len(readings) < MaxQueue
    /\ last' = read /\ readings' = Append(readings, read)
    /\ ear_does' = Nothing
    /\ UNCHANGED <<cfg, aap_open, audio_on_airpods, buds, earVars, status, commands>>

(* pause_playing skips a player that does not answer, and its Pause may    *)
(* fail; play_player starts only what is Paused, and may fail as well.     *)
play_player_Any(p) == status[p] # "Playing"
play_player(p) == status[p] = "Paused"
RunCommand ==
    /\ commands # <<>> /\ commands' = Tail(commands)
    /\ LET c == Head(commands) IN
       \/ /\ c.act = "PausePlaying"
          /\ \E failed \in SUBSET PlayingNow :
                status' = [p \in Players |-> IF p \in PlayingNow \ failed THEN "Paused" ELSE status[p]]
          /\ ear_does' = [c EXCEPT !.act = "paused"]
       \/ /\ c.act = "Play" /\ play_player(c.player)
          /\ status' = [status EXCEPT ![c.player] = "Playing"]
          /\ ear_does' = [c EXCEPT !.act = "played"]
       \/ c.act = "Play" /\ status' = status /\ ear_does' = Nothing
    /\ UNCHANGED <<cfg, aap_open, audio_on_airpods, buds, earVars, last, readings>>

(* The session bus is gone: commands are drained unheard, and a new bus is *)
(* read from the beginning.                                                *)
BusLost ==
    /\ commands' = <<>> /\ last' = NoReading
    /\ ear_does' = [act |-> "bus lost", player |-> NoPlayer]
    /\ UNCHANGED <<cfg, aap_open, audio_on_airpods, buds, earVars, status, readings>>

(* The user, at a player. *)
UserSets(p, s) ==
    /\ status[p] # s /\ (s = "Paused" => status[p] = "Playing")
    /\ status' = [status EXCEPT ![p] = s]
    /\ ear_does' = [act |-> "user", player |-> p]
    /\ UNCHANGED <<cfg, aap_open, audio_on_airpods, buds, earVars, last, readings,
                   commands>>

----------------------------------------------------------------------------
(* try_send: a full queue refuses a command, and the decision stands. *)
try_send(c) == commands' = IF Len(commands) < MaxQueue THEN Append(commands, c) ELSE commands

(* decide.  `count` is a settled change of the number of buds in an ear. *)
PausesOn(count) == cfg.auto_pause /\ (cfg.pause_on_one_of_two \/ count = 0)
removed(count, left) ==
    IF PausesOn(count) /\ playing = "yes" /\ audio_on_airpods
    THEN /\ paused' = [count |-> ear_settled, age |-> 0, player |-> player, confirming |-> TRUE]
         /\ try_send(PausePlaying) /\ ear_does' = PausePlaying
    ELSE paused' = left /\ UNCHANGED commands /\ ear_does' = Nothing

MayResume(p) ==
    cfg.auto_resume /\ audio_on_airpods /\ p.age < RESUME_WINDOW /\ playing # "yes"
returned_Partly(count, p) ==
    /\ paused' = NotPaused
    /\ IF MayResume(p) /\ p.player # NoPlayer
       THEN try_send(Play(p.player)) /\ ear_does' = Play(p.player)
       ELSE UNCHANGED commands /\ ear_does' = Nothing
returned(count, p) ==
    IF p = NotPaused \/ count < p.count
    THEN paused' = p /\ UNCHANGED commands /\ ear_does' = Nothing
    ELSE /\ paused' = NotPaused
         /\ IF MayResume(p) /\ p.player # NoPlayer
            THEN try_send(Play(p.player)) /\ ear_does' = Play(p.player)
            ELSE UNCHANGED commands /\ ear_does' = Nothing

(* tick, with the pending reading it finds. *)
tick(found) ==
    LET left == IF paused.age >= RESUME_WINDOW THEN NotPaused ELSE paused IN
    IF found = NoPending \/ found.age < SETTLE
    THEN pending' = found /\ paused' = left /\ UNCHANGED <<ear_settled, commands>> /\ ear_does' = Nothing
    ELSE /\ pending' = NoPending /\ ear_settled' = found.count
         /\ IF ear_settled = None
            THEN paused' = left /\ UNCHANGED commands /\ ear_does' = Nothing
            ELSE IF found.count < ear_settled THEN removed(found.count, left)
            ELSE returned(found.count, left)

(* A reading that differs from the settled one starts the settle time. *)
Noticed(count) == IF pending.count = count THEN pending ELSE [count |-> count, age |-> 0]

Ear(count) ==
    /\ aap_open
    /\ IF count = Unknown
       THEN UNCHANGED <<buds, earVars, commands>> /\ ear_does' = Nothing
       ELSE /\ buds' = count
            /\ IF ear_settled = count
               THEN pending' = NoPending /\ UNCHANGED <<ear_settled, paused, commands>> /\ ear_does' = Nothing
               ELSE tick(Noticed(count))
            /\ UNCHANGED <<playing, player>>
    /\ UNCHANGED <<cfg, aap_open, audio_on_airpods, status, last, readings>>

Tick ==
    /\ tick(pending)
    /\ UNCHANGED <<cfg, aap_open, audio_on_airpods, buds, playing, player, status,
                   last, readings>>

(* on_playback: a stop while confirming is our own pause landing; any      *)
(* other edge is the user's and ends the pause.                            *)
playback_Ours(plays) == [paused EXCEPT !.confirming = FALSE]
playback(plays) ==
    IF ~plays /\ paused.confirming THEN [paused EXCEPT !.confirming = FALSE] ELSE NotPaused
OnPlayback ==
    /\ readings # <<>> /\ readings' = Tail(readings)
    /\ LET p == Head(readings) plays == p # NoPlayer now == IF plays THEN "yes" ELSE "no" IN
       /\ player' = IF plays THEN p ELSE player
       /\ playing' = now
       /\ paused' = IF playing = now THEN paused ELSE playback(plays)
    /\ ear_does' = Nothing
    /\ UNCHANGED <<cfg, aap_open, audio_on_airpods, buds, ear_settled, pending, status,
                   last, commands>>

(* dial got its socket: the store still has no reading.  drop_socket ends  *)
(* the reading, not the pause.                                             *)
LinkOpens ==
    /\ ~aap_open /\ aap_open' = TRUE /\ ear_does' = Nothing
    /\ UNCHANGED <<cfg, audio_on_airpods, buds, earVars, mprisVars>>
LinkClosed ==
    /\ aap_open /\ aap_open' = FALSE /\ ear_does' = Nothing
    /\ ear_settled' = None /\ pending' = NoPending /\ playing' = "unknown"
    /\ UNCHANGED <<cfg, audio_on_airpods, buds, player, paused, mprisVars>>

(* Ownership, the card and the local link, as ear_context reads them.  A   *)
(* yield also asks for a pause.                                            *)
AudioMoves ==
    /\ audio_on_airpods' = ~audio_on_airpods /\ ear_does' = Nothing
    /\ UNCHANGED commands \/ (audio_on_airpods /\ try_send(PausePlaying))
    /\ UNCHANGED <<cfg, aap_open, buds, earVars, status, last, readings>>

Pass ==
    /\ pending' = [pending EXCEPT !.age = IF pending = NoPending THEN 0 ELSE Up(@, SETTLE)]
    /\ paused' = [paused EXCEPT !.age = IF paused = NotPaused THEN 0 ELSE Up(@, RESUME_WINDOW)]
    /\ ear_does' = Nothing
    /\ UNCHANGED <<cfg, aap_open, audio_on_airpods, buds, ear_settled, playing, player,
                   mprisVars>>

EarNext ==
    \/ SendReading \/ RunCommand \/ BusLost \/ Tick \/ OnPlayback
    \/ LinkOpens \/ LinkClosed \/ AudioMoves \/ Pass
    \/ \E p \in Players, s \in {"Playing", "Paused", "Stopped"} : UserSets(p, s)
    \/ \E count \in {0, 1, 2, Unknown} : Ear(count)
EarSpec == EarInit /\ [][EarNext]_evars
=============================================================================
