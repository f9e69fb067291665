---------------------------- MODULE HandoffProofs ----------------------------
(***************************************************************************)
(* Proofs about module Handoff, and about the two that watch it: what the  *)
(* hold of a given-up audio allows (HandoffHold) and what the ages of the  *)
(* stream allow (HandoffStream).                                           *)
(***************************************************************************)
EXTENDS HandoffHold, HandoffStream, TLAPS

LEMMA NothingReported == NoSource \in Sources /\ NoReading \in Readings
  BY DEF NoSource, NoReading, Sources, Readings, Statuses, Flags

LEMMA ReadingFields ==
    ASSUME NEW r \in Readings
    PROVE  r.playing \in Flags /\ r.player \in Players \cup {NoPlayer}
  BY DEF Readings

LEMMA SourceOf ==
    ASSUME NEW h \in Hosts \cup {Local}, NEW st \in Statuses
    PROVE  [host |-> h, status |-> st] \in Sources
  BY DEF Sources

LEMMA ReadingOf ==
    ASSUME NEW b, NEW p \in Players \cup {NoPlayer}
    PROVE  Flag(b) \in Flags /\ [playing |-> Flag(b), player |-> p] \in Readings
  BY DEF Readings, Flags, Flag

(* A frozen age stays inside its window. *)
LEMMA OlderInWindow ==
    ASSUME NEW w \in Nat, NEW age \in Windows(w) \cup {None}
    PROVE  /\ Older(age, w) \in Windows(w) \cup {None}
           /\ age \in Windows(w) => Older(age, w) \in Windows(w)
  BY DEF Older, Windows, None

(* The instant zero and the end of a window are ages in it. *)
LEMMA Ages ==
    /\ \A w \in Nat : 0 \in Windows(w) /\ w \in Windows(w)
    /\ {OPENING_WINDOW_MAX, PAUSE_HOLD, REQUEST_RECENT, AUDIO_CHANGE_HOLD, PLAY_DEBOUNCE,
        PLAYBACK_STOPPED, STREAM_GRACE, STREAM_CHECK} \subseteq Nat
  BY DurationAssumption DEF Windows

LEMMA ValuesInit == Init => ValuesOK
  BY NothingReported, Ages DEF Init, ValuesOK, Flags

LEMMA ValuesNext ==
    ASSUME ValuesOK, [Next]_vars
    PROVE  ValuesOK'
<1> USE Ages DEF ValuesOK, linkVars, beliefVars, holdVars, playVars, startVars, nothing
<1>1. CASE LinkOpened
  BY <1>1, NothingReported, ReadingFields DEF LinkOpened, reset_link, end_stream_start, Flags
<1>2. CASE Promote
  BY <1>2 DEF Promote
<1>3. CASE OpeningSettled
  BY <1>3 DEF OpeningSettled
<1>4. CASE LinkClosed
  BY <1>4, NothingReported DEF LinkClosed, reset_link, end_stream_start, Flags
<1>5. ASSUME NEW h \in Hosts \cup {Local}, NEW st \in Statuses, AudioSourceHere(h, st)
      PROVE  ValuesOK'
  BY <1>5, SourceOf DEF AudioSourceHere, repause
<1>6. ASSUME NEW h \in Hosts \cup {Local}, NEW st \in Statuses, AudioSourceOther(h, st)
      PROVE  ValuesOK'
  BY <1>6, SourceOf
  DEF AudioSourceOther, yield_steps, note_request, renew_hold, end_stream_start
<1>7. ASSUME NEW L \in SUBSET Hosts, ConnectedDevices(L)
      PROVE  ValuesOK'
  BY <1>7 DEF ConnectedDevices
<1>8. ASSUME NEW b \in BOOLEAN, OwnsConnection(b)
      PROVE  ValuesOK'
  BY <1>8 DEF OwnsConnection, yield_steps, note_request, renew_hold, end_stream_start
<1>9. CASE SmartRouting
  BY <1>9 DEF SmartRouting, yield_steps, note_request, renew_hold, end_stream_start
<1>10. ASSUME NEW p \in Players \cup {NoPlayer}, Playback(p)
       PROVE  ValuesOK'
  BY <1>10, ReadingOf DEF Playback, announce
<1>11. CASE AudioLinkChanged
  BY <1>11 DEF AudioLinkChanged
<1>12. ASSUME NEW b \in BOOLEAN, A2dpTransport(b)
       PROVE  ValuesOK'
  BY <1>12 DEF A2dpTransport, announce, Flag, Flags
<1>13. CASE TickTakesOver
  BY <1>13 DEF TickTakesOver, take_over_steps, Flags
<1>14. CASE TickElse
  BY <1>14 DEF TickElse, stream_check_after, Flags
<1>15. CASE TakeOver
  BY <1>15 DEF TakeOver, take_over_steps, Flags
<1>16. CASE Yield
  BY <1>16 DEF Yield, yield_steps, note_request, renew_hold, end_stream_start
<1>17. ASSUME NEW b \in BOOLEAN, SetHandoff(b)
       PROVE  ValuesOK'
  BY <1>17 DEF SetHandoff
<1>18. CASE Pass
  <2>1. stream_check' \in Windows(STREAM_CHECK) \cup {None}
    BY <1>18 DEF Pass, Windows, None
  <2>2. QED
    BY <1>18, <2>1, OlderInWindow DEF Pass
<1>19. CASE UNCHANGED vars
  BY <1>19 DEF vars
<1>20. QED
  BY <1>1, <1>2, <1>3, <1>4, <1>5, <1>6, <1>7, <1>8, <1>9, <1>10, <1>11, <1>12, <1>13,
     <1>14, <1>15, <1>16, <1>17, <1>18, <1>19
  DEF Next, Report, Command, Tick

LEMMA SwitchesNext ==
    ASSUME SwitchesOK, [Next]_vars
    PROVE  SwitchesOK'
<1> USE DEF SwitchesOK, linkVars, beliefVars, holdVars, startVars
<1>1. CASE LinkOpened
  BY <1>1 DEF LinkOpened, reset_link, end_stream_start
<1>2. CASE Promote
  BY <1>2 DEF Promote
<1>3. CASE OpeningSettled
  BY <1>3 DEF OpeningSettled
<1>4. CASE LinkClosed
  BY <1>4 DEF LinkClosed, reset_link, end_stream_start
<1>5. ASSUME NEW h \in Hosts \cup {Local}, NEW st \in Statuses, AudioSourceHere(h, st)
      PROVE  SwitchesOK'
  BY <1>5 DEF AudioSourceHere
<1>6. ASSUME NEW h \in Hosts \cup {Local}, NEW st \in Statuses, AudioSourceOther(h, st)
      PROVE  SwitchesOK'
  BY <1>6 DEF AudioSourceOther, yield_steps, renew_hold, end_stream_start
<1>7. ASSUME NEW L \in SUBSET Hosts, ConnectedDevices(L)
      PROVE  SwitchesOK'
  BY <1>7 DEF ConnectedDevices
<1>8. ASSUME NEW b \in BOOLEAN, OwnsConnection(b)
      PROVE  SwitchesOK'
  BY <1>8 DEF OwnsConnection, yield_steps, renew_hold, end_stream_start
<1>9. CASE SmartRouting
  BY <1>9 DEF SmartRouting, yield_steps, renew_hold, end_stream_start
<1>10. ASSUME NEW p \in Players \cup {NoPlayer}, Playback(p)
       PROVE  SwitchesOK'
  BY <1>10 DEF Playback
<1>11. CASE AudioLinkChanged
  BY <1>11 DEF AudioLinkChanged
<1>12. ASSUME NEW b \in BOOLEAN, A2dpTransport(b)
       PROVE  SwitchesOK'
  BY <1>12 DEF A2dpTransport
<1>13. CASE TickTakesOver
  BY <1>13 DEF TickTakesOver, take_over_steps
<1>14. CASE TickElse
  BY <1>14 DEF TickElse
<1>15. CASE TakeOver
  BY <1>15 DEF TakeOver, take_over_steps
<1>16. CASE Yield
  BY <1>16 DEF Yield, yield_steps, renew_hold, end_stream_start
<1>17. ASSUME NEW b \in BOOLEAN, SetHandoff(b)
       PROVE  SwitchesOK'
  BY <1>17 DEF SetHandoff
<1>18. CASE Pass
  BY <1>18 DEF Pass
<1>19. CASE UNCHANGED vars
  BY <1>19 DEF vars
<1>20. QED
  BY <1>1, <1>2, <1>3, <1>4, <1>5, <1>6, <1>7, <1>8, <1>9, <1>10, <1>11, <1>12, <1>13,
     <1>14, <1>15, <1>16, <1>17, <1>18, <1>19
  DEF Next, Report, Command, Tick

(* Every reachable state has the types TypeOK gives: an age never leaves   *)
(* its window, whatever the durations of handoff.rs are.                   *)
THEOREM TypeCorrect == Spec => []TypeOK
<1>1. Init => TypeOK
  BY ValuesInit DEF Init, TypeOK, SwitchesOK
<1>2. TypeOK /\ [Next]_vars => TypeOK'
  BY ValuesNext, SwitchesNext DEF TypeOK
<1>3. QED
  BY <1>1, <1>2, PTL DEF Spec

----------------------------------------------------------------------------
(* What a sequence of side effects contains. *)
Holds(s, a) == \E i \in DOMAIN s : s[i] = a

LEMMA HoldsNothing == ASSUME NEW a PROVE ~Holds(<<>>, a)
  BY DEF Holds

LEMMA HoldsOne == ASSUME NEW x, NEW a, Holds(<<x>>, a) PROVE x = a
  BY DEF Holds

LEMMA HoldsConcat ==
    ASSUME NEW S, NEW s \in Seq(S), NEW t \in Seq(S), NEW a, Holds(s \o t, a)
    PROVE  Holds(s, a) \/ Holds(t, a)
  BY DEF Holds

----------------------------------------------------------------------------
(* The hold: module HandoffHold. *)
LEMMA StreamTickOnlyWarns ==
    /\ stream_tick \in Seq({StreamNotStarted})
    /\ \A a : Holds(stream_tick, a) => a = StreamNotStarted
<1>1. stream_tick = <<>> \/ stream_tick = <<StreamNotStarted>>
  BY DEF stream_tick, When
<1>2. CASE stream_tick = <<>>
  BY <1>2, HoldsNothing
<1>3. CASE stream_tick = <<StreamNotStarted>>
  <2>1. \A a : Holds(<<StreamNotStarted>>, a) => a = StreamNotStarted
    BY DEF Holds
  <2>2. QED
    BY <1>3, <2>1
<1>4. QED
  BY <1>1, <1>2, <1>3

LEMMA NoRepause ==
    ASSUME NEW p
    PROVE  /\ ~Holds(take_over_actions, RepausePlayer(p))
           /\ ~Holds(stream_tick, RepausePlayer(p))
           /\ ~Holds(stream_tick \o take_over_actions, RepausePlayer(p))
           /\ ~Holds(stream_tick \o <<SendMediaInfo(FALSE, devices)>>, RepausePlayer(p))
<1> DEFINE S == {StreamNotStarted, SetAudioRoute("Own"), SendOwnership(TRUE),
                 SendMediaInfo(TRUE, devices), SendMediaInfo(FALSE, devices),
                 SendHijack(devices), ClaimAudio, Record("TookOver")}
<1>1. RepausePlayer(p) \notin S
  BY DEF RepausePlayer, StreamNotStarted, SetAudioRoute, SendOwnership, SendMediaInfo,
         SendHijack, ClaimAudio, Record
<1>2. /\ take_over_actions \in Seq(S) /\ <<SendMediaInfo(FALSE, devices)>> \in Seq(S)
      /\ stream_tick \in Seq(S)
  <2>1. take_over_actions \in Seq(S)
    BY DEF take_over_actions
  <2>2. <<SendMediaInfo(FALSE, devices)>> \in Seq(S)
    OBVIOUS
  <2>3. stream_tick = <<>> \/ stream_tick = <<StreamNotStarted>>
    BY DEF stream_tick, When
  <2>4. <<>> \in Seq(S) /\ <<StreamNotStarted>> \in Seq(S)
    OBVIOUS
  <2>5. QED
    BY <2>1, <2>2, <2>3, <2>4
<1>3. ASSUME NEW s \in Seq(S)
      PROVE  ~Holds(s, RepausePlayer(p))
  <2> HIDE DEF S
  <2>1. QED BY <1>1, <1>3 DEF Holds
<1> HIDE DEF S
<1>4. QED
  BY <1>2, <1>3, HoldsConcat

----------------------------------------------------------------------------
(* Inductive: a hold exists only while the audio is given up, and nothing  *)
(* is given up without a link.                                             *)
YieldInv ==
    /\ held => released
    /\ released => phase # "down"

(* What giving the audio up does to the hold. *)
LEMMA YieldEffect ==
    ASSUME NEW b, NEW k, yield_steps(b, k)
    PROVE  held' /\ released' /\ play_edge' = None
  BY DEF yield_steps, renew_hold

LEMMA YieldNext ==
    ASSUME YieldInv, [Next]_vars
    PROVE  YieldInv'
<1> USE DEF YieldInv, linkVars, beliefVars, holdVars, startVars
<1>1. CASE LinkOpened
  BY <1>1 DEF LinkOpened, reset_link, end_stream_start
<1>2. CASE Promote
  BY <1>2 DEF Promote
<1>3. CASE OpeningSettled
  BY <1>3 DEF OpeningSettled
<1>4. CASE LinkClosed
  BY <1>4 DEF LinkClosed, reset_link, end_stream_start
<1>5. ASSUME NEW h \in Hosts \cup {Local}, NEW st \in Statuses, AudioSourceHere(h, st)
      PROVE  YieldInv'
  BY <1>5 DEF AudioSourceHere
<1>6. ASSUME NEW h \in Hosts \cup {Local}, NEW st \in Statuses, AudioSourceOther(h, st)
      PROVE  YieldInv'
  <2>1. phase # "down" /\ phase' = phase
    BY <1>6 DEF AudioSourceOther, link_up
  <2>2. \/ held' = held /\ released' = released
        \/ held' /\ released'
    <3>1. CASE released
      <4>1. released' = released /\ (held' = held \/ held')
        BY <1>6, <3>1 DEF AudioSourceOther, renew_hold
      <4>2. QED BY <3>1, <4>1
    <3>2. CASE ~released
      BY <1>6, <3>2, YieldEffect DEF AudioSourceOther
    <3>3. QED BY <3>1, <3>2
  <2>3. QED
    BY <2>1, <2>2
<1>7. ASSUME NEW L \in SUBSET Hosts, ConnectedDevices(L)
      PROVE  YieldInv'
  BY <1>7 DEF ConnectedDevices
<1>8. ASSUME NEW b \in BOOLEAN, OwnsConnection(b)
      PROVE  YieldInv'
  <2>1. phase # "down" /\ phase' = phase
    BY <1>8 DEF OwnsConnection, link_up
  <2>2. \/ held' = held /\ released' = released
        \/ held' /\ released'
    BY <1>8, YieldEffect DEF OwnsConnection
  <2>3. QED
    BY <2>1, <2>2
<1>9. CASE SmartRouting
  <2>1. phase # "down" /\ phase' = phase
    BY <1>9 DEF SmartRouting, link_up
  <2>2. \/ held' = held /\ released' = released
        \/ held' /\ released'
    <3>1. CASE released
      <4>1. released' = released /\ (held' = held \/ held')
        BY <1>9, <3>1 DEF SmartRouting, renew_hold
      <4>2. QED BY <3>1, <4>1
    <3>2. CASE ~released
      BY <1>9, <3>2, YieldEffect DEF SmartRouting
    <3>3. QED BY <3>1, <3>2
  <2>3. QED
    BY <2>1, <2>2
<1>10. ASSUME NEW p \in Players \cup {NoPlayer}, Playback(p)
       PROVE  YieldInv'
  BY <1>10 DEF Playback
<1>11. CASE AudioLinkChanged
  BY <1>11 DEF AudioLinkChanged
<1>12. ASSUME NEW b \in BOOLEAN, A2dpTransport(b)
       PROVE  YieldInv'
  BY <1>12 DEF A2dpTransport
<1>13. CASE TickTakesOver
  BY <1>13 DEF TickTakesOver, take_over_steps
<1>14. CASE TickElse
  BY <1>14 DEF TickElse
<1>15. CASE TakeOver
  BY <1>15 DEF TakeOver, take_over_steps
<1>16. CASE Yield
  BY <1>16 DEF Yield, yield_steps, renew_hold
<1>17. ASSUME NEW b \in BOOLEAN, SetHandoff(b)
       PROVE  YieldInv'
  BY <1>17 DEF SetHandoff
<1>18. CASE Pass
  BY <1>18 DEF Pass
<1>19. CASE UNCHANGED vars
  BY <1>19 DEF vars
<1>20. QED
  BY <1>1, <1>2, <1>3, <1>4, <1>5, <1>6, <1>7, <1>8, <1>9, <1>10, <1>11, <1>12, <1>13,
     <1>14, <1>15, <1>16, <1>17, <1>18, <1>19
  DEF Next, Report, Command, Tick

(* Which step pauses player p again, and what it remembers of it. *)
LEMMA RepauseSource ==
    ASSUME Next, NEW p \in Players \cup {NoPlayer}, Returned(RepausePlayer(p))'
    PROVE  \/ /\ \E h \in Hosts \cup {Local}, st \in Statuses : AudioSourceHere(h, st)
              /\ held /\ p \notin repaused /\ p \in repaused'
           \/ /\ Playback(p) /\ held /\ p \notin repaused /\ p \in repaused'
           \/ /\ enabled /\ SmartRouting /\ p \in repaused'
<1> USE HoldsNothing
<1>0. Holds(out', RepausePlayer(p))
  BY DEF Returned, Holds
<1>1. ~nothing
  BY <1>0 DEF nothing
<1>2. ASSUME NEW k, NEW b, yield_steps(b, k)
      PROVE  FALSE
  BY <1>0, <1>2
  DEF yield_steps, Holds, RepausePlayer, PauseLocalPlayers, SetAudioRoute, SendOwnership,
      Record
<1>3. ASSUME NEW b, announce(b)
      PROVE  FALSE
  BY <1>0, <1>3 DEF announce, Holds, RepausePlayer, SendMediaInfo
<1>4. ASSUME NEW q, out' = <<RepausePlayer(q)>>
      PROVE  p = q
  <2>1. RepausePlayer(q) = RepausePlayer(p)
    BY <1>0, <1>4, HoldsOne
  <2>2. RepausePlayer(q).player = q /\ RepausePlayer(p).player = p
    BY DEF RepausePlayer
  <2>3. QED BY <2>1, <2>2
<1>5. ASSUME NEW h \in Hosts \cup {Local}, NEW st \in Statuses, AudioSourceHere(h, st)
      PROVE  held /\ p \notin repaused /\ p \in repaused'
  <2>1. held /\ may_repause(playing_player) /\ repause
    BY <1>5, <1>1 DEF AudioSourceHere
  <2>2. p = playing_player
    BY <2>1, <1>4 DEF repause
  <2>3. QED
    BY <2>1, <2>2 DEF repause, may_repause
<1>6. ASSUME NEW h \in Hosts \cup {Local}, NEW st \in Statuses, AudioSourceOther(h, st)
      PROVE  FALSE
  BY <1>6, <1>1, <1>2 DEF AudioSourceOther
<1>7. ASSUME NEW L \in SUBSET Hosts, ConnectedDevices(L)
      PROVE  FALSE
  BY <1>7, <1>0 DEF ConnectedDevices, When, Holds, RepausePlayer, SendNewDevice
<1>8. ASSUME NEW b \in BOOLEAN, OwnsConnection(b)
      PROVE  FALSE
  BY <1>8, <1>1, <1>2 DEF OwnsConnection
<1>9. CASE SmartRouting
  <2>1. /\ enabled /\ repaused' = {playing_player}
        /\ out' = <<RepausePlayer(playing_player)>>
    BY <1>9, <1>1, <1>2 DEF SmartRouting
  <2>2. QED
    BY <1>9, <2>1, <1>4
<1>10. ASSUME NEW q \in Players \cup {NoPlayer}, Playback(q)
       PROVE  Playback(p) /\ held /\ p \notin repaused /\ p \in repaused'
  <2>1. /\ in_hold_window /\ may_repause(q)
        /\ repaused' = repaused \cup {q} /\ out' = <<RepausePlayer(q)>>
    BY <1>10, <1>1, <1>3 DEF Playback
  <2>2. QED
    BY <1>10, <2>1, <1>4 DEF in_hold_window, may_repause
<1>12. ASSUME NEW b \in BOOLEAN, A2dpTransport(b)
       PROVE  FALSE
  BY <1>12, <1>1, <1>3 DEF A2dpTransport
<1>13. ~Tick /\ ~TakeOver
  BY <1>0, NoRepause DEF Tick, TickTakesOver, TickElse, TakeOver
<1>14. ~Yield
  BY <1>2 DEF Yield
<1>20. QED
  BY <1>1, <1>5, <1>6, <1>7, <1>8, <1>9, <1>10, <1>12, <1>13, <1>14
  DEF Next, Report, Command, LinkOpened, Promote, OpeningSettled, LinkClosed,
      AudioLinkChanged, SetHandoff, Pass

(* The step that pauses a player again finds the audio given up and leaves *)
(* it given up.                                                            *)
LEMMA RepauseStep ==
    ASSUME YieldInv, Next, NEW p \in Players \cup {NoPlayer}, Returned(RepausePlayer(p))'
    PROVE  released' /\ phase' # "down"
<1>1. CASE /\ held
           /\ \E h \in Hosts \cup {Local}, st \in Statuses : AudioSourceHere(h, st)
  BY <1>1 DEF AudioSourceHere, YieldInv, linkVars
<1>2. CASE held /\ Playback(p)
  BY <1>2 DEF Playback, YieldInv, linkVars, beliefVars
<1>3. CASE enabled /\ SmartRouting
  <2>1. phase # "down" /\ phase' = phase
    BY <1>3 DEF SmartRouting, linkVars, link_up
  <2>2. CASE released
    <3>1. released' = released
      BY <1>3, <2>2 DEF SmartRouting
    <3>2. QED BY <2>1, <2>2, <3>1
  <2>3. CASE ~released
    BY <1>3, <2>1, <2>3, YieldEffect DEF SmartRouting
  <2>4. QED
    BY <2>2, <2>3
<1>4. QED
  BY <1>1, <1>2, <1>3, RepauseSource

(* For any hosts, players and durations: a player is only ever paused      *)
(* again while the audio is given up over a live link.                     *)
THEOREM RepauseSafe == Spec => RepauseOnlyWhileYielded
<1>1. Init => YieldInv
  BY DEF Init, YieldInv
<1>2. YieldInv /\ [Next]_vars => YieldInv'
  BY YieldNext
<1>3. YieldInv /\ [Next]_vars
        => [(\E p \in Players \cup {NoPlayer} : Returned(RepausePlayer(p))')
                => released' /\ phase' # "down"]_vars
  BY RepauseStep
<1>4. QED
  BY <1>1, <1>2, <1>3, PTL DEF Spec, RepauseOnlyWhileYielded

----------------------------------------------------------------------------
(* Inductive: a pending play edge is a play nothing has answered since.    *)
FreshInv == play_edge # None => fresh_play

(* Every counted request drops the pending edge. *)
LEMMA AskDropsEdge ==
    ASSUME Asks, ~Echo
    PROVE  play_edge' = None
<1>1. CASE enabled /\ SmartRouting
  BY <1>1, YieldEffect DEF SmartRouting, renew_hold
<1>2. CASE enabled /\ phase = "up" /\ ~in_opening /\ OwnsConnection(FALSE)
  BY <1>2, YieldEffect DEF OwnsConnection, Echo
<1>3. ASSUME enabled, ~in_opening, audio_source' # audio_source,
             NEW h \in Hosts, NEW st \in Statuses, AudioSourceOther(h, st)
      PROVE  play_edge' = None
  BY <1>3, YieldEffect DEF AudioSourceOther, renew_hold
<1>4. CASE Yield
  BY <1>4, YieldEffect DEF Yield
<1>5. QED
  BY <1>1, <1>2, <1>3, <1>4 DEF Asks

(* Only a reading that turns from stopped to playing starts an edge. *)
LEMMA EdgeStarts ==
    ASSUME [Next]_vars, play_edge' # None
    PROVE  play_edge # None \/ (playing = "no" /\ playing' = "yes")
<1> USE DEF linkVars, beliefVars, holdVars, startVars
<1>1. CASE LinkOpened
  BY <1>1 DEF LinkOpened, reset_link, end_stream_start
<1>2. CASE Promote
  BY <1>2 DEF Promote
<1>3. CASE OpeningSettled
  BY <1>3 DEF OpeningSettled
<1>4. CASE LinkClosed
  BY <1>4 DEF LinkClosed, reset_link, end_stream_start
<1>5. ASSUME NEW h \in Hosts \cup {Local}, NEW st \in Statuses, AudioSourceHere(h, st)
      PROVE  play_edge # None
  BY <1>5 DEF AudioSourceHere, repause
<1>6. ASSUME NEW h \in Hosts \cup {Local}, NEW st \in Statuses, AudioSourceOther(h, st)
      PROVE  play_edge # None
  BY <1>6, YieldEffect DEF AudioSourceOther, renew_hold
<1>7. ASSUME NEW L \in SUBSET Hosts, ConnectedDevices(L)
      PROVE  play_edge # None
  BY <1>7 DEF ConnectedDevices
<1>8. ASSUME NEW b \in BOOLEAN, OwnsConnection(b)
      PROVE  play_edge # None
  BY <1>8, YieldEffect DEF OwnsConnection
<1>9. CASE SmartRouting
  BY <1>9, YieldEffect DEF SmartRouting, renew_hold
<1>10. ASSUME NEW p \in Players \cup {NoPlayer}, Playback(p)
       PROVE  play_edge # None \/ (playing = "no" /\ playing' = "yes")
  BY <1>10 DEF Playback, Flag
<1>11. CASE AudioLinkChanged
  BY <1>11 DEF AudioLinkChanged
<1>12. ASSUME NEW b \in BOOLEAN, A2dpTransport(b)
       PROVE  play_edge # None
  BY <1>12 DEF A2dpTransport
<1>13. CASE TickTakesOver
  BY <1>13 DEF TickTakesOver, take_over_steps
<1>14. CASE TickElse
  BY <1>14 DEF TickElse
<1>15. CASE TakeOver
  BY <1>15 DEF TakeOver, take_over_steps
<1>16. CASE Yield
  BY <1>16, YieldEffect DEF Yield
<1>17. ASSUME NEW b \in BOOLEAN, SetHandoff(b)
       PROVE  play_edge # None
  BY <1>17 DEF SetHandoff
<1>18. CASE Pass
  BY <1>18 DEF Pass, Older
<1>19. CASE UNCHANGED vars
  BY <1>19 DEF vars
<1>20. QED
  BY <1>1, <1>2, <1>3, <1>4, <1>5, <1>6, <1>7, <1>8, <1>9, <1>10, <1>11, <1>12, <1>13,
     <1>14, <1>15, <1>16, <1>17, <1>18, <1>19
  DEF Next, Report, Command, Tick

(* For any hosts, players and durations: the automatic take-over answers a *)
(* play that began after the latest request for the audio.                 *)
THEOREM TakeOverFresh == HSpec => TakeOverAnswersAFreshPlay
<1>1. HInit => FreshInv
  BY DEF HInit, Init, FreshInv
<1>2. FreshInv /\ [HNext]_hvars => FreshInv'
  <2>1. ASSUME FreshInv, HNext, play_edge' # None
        PROVE  fresh_play'
    <3>1. play_edge # None \/ (playing = "no" /\ playing' = "yes")
      BY <2>1, EdgeStarts DEF HNext
    <3>2. ~(Asks /\ ~Echo)
      BY <2>1, AskDropsEdge
    <3>3. CASE playing = "no" /\ playing' = "yes"
      BY <2>1, <3>3 DEF HNext
    <3>4. CASE ~(playing = "no" /\ playing' = "yes")
      <4>1. fresh_play
        BY <2>1, <3>1, <3>4 DEF FreshInv
      <4>2. fresh_play' = (fresh_play /\ ~(Asks /\ ~Echo))
        BY <2>1, <3>4 DEF HNext
      <4>3. QED
        BY <3>2, <4>1, <4>2
    <3>5. QED
      BY <3>3, <3>4
  <2>2. CASE UNCHANGED hvars
    BY <2>2 DEF hvars, vars, FreshInv
  <2>3. QED
    BY <2>1, <2>2 DEF FreshInv
<1>3. FreshInv => [TickTakesOver => fresh_play]_hvars
  BY DurationAssumption DEF FreshInv, TickTakesOver, user_play, None
<1>4. QED
  BY <1>1, <1>2, <1>3, PTL DEF HSpec, TakeOverAnswersAFreshPlay

(* The allowance is restored only by a request or with the yield gone, and *)
(* the audio is given up only by a request.                                *)
LEMMA AllowanceStep ==
    ASSUME [Next]_vars, ~Asks, released'
    PROVE  released /\ repaused \subseteq repaused'
<1> DEFINE G == released /\ repaused \subseteq repaused'
<1> USE DEF linkVars, beliefVars, holdVars, startVars
<1>1. CASE LinkOpened
  BY <1>1 DEF LinkOpened, reset_link, end_stream_start
<1>2. CASE Promote
  BY <1>2 DEF Promote
<1>3. CASE OpeningSettled
  BY <1>3 DEF OpeningSettled
<1>4. CASE LinkClosed
  BY <1>4 DEF LinkClosed, reset_link, end_stream_start
<1>5. ASSUME NEW h \in Hosts \cup {Local}, NEW st \in Statuses, AudioSourceHere(h, st)
      PROVE  G
  BY <1>5 DEF AudioSourceHere, repause
<1>6. ASSUME NEW h \in Hosts \cup {Local}, NEW st \in Statuses, AudioSourceOther(h, st)
      PROVE  G
  <2>1. in_opening \/ audio_source = [host |-> h, status |-> st] \/ ~enabled
    BY <1>6 DEF AudioSourceOther, Asks
  <2>2. QED
    BY <1>6, <2>1 DEF AudioSourceOther
<1>7. ASSUME NEW L \in SUBSET Hosts, ConnectedDevices(L)
      PROVE  G
  BY <1>7 DEF ConnectedDevices
<1>8. ASSUME NEW b \in BOOLEAN, OwnsConnection(b)
      PROVE  G
  <2>1. b = TRUE \/ ~enabled \/ phase # "up" \/ in_opening
    BY <1>8 DEF Asks
  <2>2. QED
    BY <1>8, <2>1 DEF OwnsConnection
<1>9. CASE SmartRouting
  BY <1>9 DEF SmartRouting, Asks
<1>10. ASSUME NEW p \in Players \cup {NoPlayer}, Playback(p)
       PROVE  G
  BY <1>10 DEF Playback
<1>11. CASE AudioLinkChanged
  BY <1>11 DEF AudioLinkChanged
<1>12. ASSUME NEW b \in BOOLEAN, A2dpTransport(b)
       PROVE  G
  BY <1>12 DEF A2dpTransport
<1>13. CASE TickTakesOver
  BY <1>13 DEF TickTakesOver, take_over_steps
<1>14. CASE TickElse
  BY <1>14 DEF TickElse
<1>15. CASE TakeOver
  BY <1>15 DEF TakeOver, take_over_steps
<1>16. CASE Yield
  BY <1>16 DEF Asks
<1>17. ASSUME NEW b \in BOOLEAN, SetHandoff(b)
       PROVE  G
  BY <1>17 DEF SetHandoff
<1>18. CASE Pass
  BY <1>18 DEF Pass
<1>19. CASE UNCHANGED vars
  BY <1>19 DEF vars
<1>20. QED
  BY <1>1, <1>2, <1>3, <1>4, <1>5, <1>6, <1>7, <1>8, <1>9, <1>10, <1>11, <1>12, <1>13,
     <1>14, <1>15, <1>16, <1>17, <1>18, <1>19
  DEF Next, Report, Command, Tick

(* Inductive: while the audio is given up, a player that was paused again  *)
(* since the latest request is remembered in repaused.                     *)
CountInv ==
    \A p \in Players : /\ repauses[p] \in {0, 1}
                       /\ repauses[p] = 1 /\ released => p \in repaused

LEMMA CountStep ==
    ASSUME YieldInv, CountInv, HNext
    PROVE  CountInv'
<1> SUFFICES ASSUME NEW p \in Players
             PROVE  /\ repauses'[p] \in {0, 1}
                    /\ repauses'[p] = 1 /\ released' => p \in repaused'
  BY DEF CountInv
<1>0. Next /\ repauses'[p] = (IF Asks THEN 0 ELSE repauses[p])
                             + (IF Returned(RepausePlayer(p))' THEN 1 ELSE 0)
  BY DEF HNext
<1>1. CASE Returned(RepausePlayer(p))'
  <2>1. p \in repaused'
    BY <1>0, <1>1, RepauseSource
  <2>2. ~Asks => released /\ p \notin repaused
    <3>1. ~Asks => ~(enabled /\ SmartRouting)
      BY DEF Asks
    <3>2. QED
      BY <1>0, <1>1, <3>1, RepauseSource DEF YieldInv
  <2>3. ~Asks => repauses[p] = 0
    BY <2>2 DEF CountInv
  <2>4. repauses'[p] = 1
    BY <1>0, <1>1, <2>3
  <2>5. QED
    BY <2>1, <2>4
<1>2. CASE ~Returned(RepausePlayer(p))'
  <2>1. CASE Asks
    BY <1>0, <1>2, <2>1
  <2>2. CASE ~Asks
    <3>1. repauses'[p] = repauses[p]
      BY <1>0, <1>2, <2>2 DEF CountInv
    <3>2. released' => released /\ repaused \subseteq repaused'
      BY <1>0, <2>2, AllowanceStep
    <3>3. QED
      BY <3>1, <3>2 DEF CountInv
  <2>3. QED
    BY <2>1, <2>2
<1>3. QED
  BY <1>1, <1>2

(* For any hosts, players and durations: a player is paused again at most  *)
(* once between two requests for the audio.                                *)
THEOREM OneRepause == HSpec => []OneRepausePerRequest
<1>1. HInit => YieldInv /\ CountInv
  BY DEF HInit, Init, YieldInv, CountInv
<1>2. YieldInv /\ CountInv /\ [HNext]_hvars => (YieldInv /\ CountInv)'
  <2>1. HNext => [Next]_vars
    BY DEF HNext
  <2>2. UNCHANGED hvars => UNCHANGED vars
    BY DEF hvars
  <2>3. CountInv /\ UNCHANGED hvars => CountInv'
    BY DEF CountInv, hvars, vars, beliefVars, holdVars
  <2>4. QED
    BY <2>1, <2>2, <2>3, YieldNext, CountStep
<1>3. CountInv => OneRepausePerRequest
  BY DEF CountInv, OneRepausePerRequest
<1>4. QED
  BY <1>1, <1>2, <1>3, PTL DEF HSpec

----------------------------------------------------------------------------
(* The stream: module HandoffStream. *)
(* Inductive: a pending play edge is exactly as old as the run of Playing  *)
(* readings that it started.                                               *)
EdgeInv == play_edge # None => playing = "yes" /\ playing_for = play_edge

(* One step, whichever it is, starts an edge, drops it, or leaves it alone *)
(* while the playing goes on; only Pass lets it age.                       *)
LEMMA EdgeStep ==
    ASSUME Next, ~Pass, play_edge # None => playing = "yes", play_edge' # None
    PROVE  \/ playing = "no" /\ playing' = "yes" /\ play_edge' = 0
           \/ play_edge' = play_edge /\ playing' = playing
<1> USE DEF linkVars, beliefVars, holdVars, playVars, startVars
<1>1. CASE LinkOpened
  BY <1>1 DEF LinkOpened, reset_link, end_stream_start
<1>2. CASE Promote
  BY <1>2 DEF Promote
<1>3. CASE OpeningSettled
  BY <1>3 DEF OpeningSettled
<1>4. CASE LinkClosed
  BY <1>4 DEF LinkClosed, reset_link, end_stream_start
<1>5. ASSUME NEW h \in Hosts \cup {Local}, NEW st \in Statuses, AudioSourceHere(h, st)
      PROVE  play_edge' = play_edge /\ playing' = playing
  BY <1>5 DEF AudioSourceHere, repause
<1>6. ASSUME NEW h \in Hosts \cup {Local}, NEW st \in Statuses, AudioSourceOther(h, st)
      PROVE  play_edge' = play_edge /\ playing' = playing
  BY <1>6 DEF AudioSourceOther, yield_steps, renew_hold
<1>7. ASSUME NEW L \in SUBSET Hosts, ConnectedDevices(L)
      PROVE  play_edge' = play_edge /\ playing' = playing
  BY <1>7 DEF ConnectedDevices
<1>8. ASSUME NEW b \in BOOLEAN, OwnsConnection(b)
      PROVE  play_edge' = play_edge /\ playing' = playing
  BY <1>8 DEF OwnsConnection, yield_steps, renew_hold
<1>9. CASE SmartRouting
  BY <1>9 DEF SmartRouting, yield_steps, renew_hold
<1>10. ASSUME NEW p \in Players \cup {NoPlayer}, Playback(p)
       PROVE  \/ playing = "no" /\ playing' = "yes" /\ play_edge' = 0
              \/ play_edge' = play_edge /\ playing' = playing
  BY <1>10 DEF Playback, Flag
<1>11. CASE AudioLinkChanged
  BY <1>11 DEF AudioLinkChanged
<1>12. ASSUME NEW b \in BOOLEAN, A2dpTransport(b)
       PROVE  play_edge' = play_edge /\ playing' = playing
  BY <1>12 DEF A2dpTransport
<1>13. CASE TickTakesOver
  BY <1>13 DEF TickTakesOver, take_over_steps
<1>14. CASE TickElse
  BY <1>14 DEF TickElse
<1>15. CASE TakeOver
  BY <1>15 DEF TakeOver, take_over_steps
<1>16. CASE Yield
  BY <1>16 DEF Yield, yield_steps, renew_hold
<1>17. ASSUME NEW b \in BOOLEAN, SetHandoff(b)
       PROVE  play_edge' = play_edge /\ playing' = playing
  BY <1>17 DEF SetHandoff
<1>20. QED
  BY <1>1, <1>2, <1>3, <1>4, <1>5, <1>6, <1>7, <1>8, <1>9, <1>10, <1>11, <1>12, <1>13,
     <1>14, <1>15, <1>16, <1>17
  DEF Next, Report, Command, Tick

LEMMA EdgeAges ==
    ASSUME EdgeInv, SNext
    PROVE  EdgeInv'
<1>1. SUFFICES ASSUME play_edge' # None
               PROVE  playing' = "yes" /\ playing_for' = play_edge'
  BY DEF EdgeInv
<1>2. CASE Pass
  <2>1. play_edge # None /\ playing' = playing /\ play_edge' = Older(play_edge, PLAY_DEBOUNCE)
    BY <1>1, <1>2 DEF Pass, Older
  <2>2. playing = "yes" /\ playing_for = play_edge
    BY <2>1 DEF EdgeInv
  <2>3. playing_for' = Older(playing_for, PLAY_DEBOUNCE)
    BY <1>2, <2>1, <2>2 DEF SNext
  <2>4. QED
    BY <2>1, <2>2, <2>3
<1>3. CASE ~Pass
  <2>1. \/ playing = "no" /\ playing' = "yes" /\ play_edge' = 0
        \/ play_edge' = play_edge /\ playing' = playing
    BY <1>1, <1>3, EdgeStep DEF SNext, EdgeInv
  <2>2. CASE playing = "no" /\ playing' = "yes" /\ play_edge' = 0
    BY <2>2 DEF SNext
  <2>3. CASE play_edge' = play_edge /\ playing' = playing
    <3>1. playing = "yes" /\ playing_for = play_edge
      BY <1>1, <2>3 DEF EdgeInv
    <3>2. playing_for' = playing_for
      BY <1>3, <2>3, <3>1 DEF SNext
    <3>3. QED
      BY <2>3, <3>1, <3>2
  <2>4. QED
    BY <2>1, <2>2, <2>3
<1>4. QED
  BY <1>2, <1>3

(* For any durations: a take-over by the tick follows a play that was seen *)
(* to start and lasted the whole debounce without a break.                 *)
THEOREM TakeOverSustained == SSpec => TakeOverNeedsSustainedPlay
<1>1. SInit => EdgeInv
  BY DEF SInit, Init, EdgeInv
<1>2. EdgeInv /\ [SNext]_svars => EdgeInv'
  BY EdgeAges DEF EdgeInv, svars, vars, playVars
<1>3. EdgeInv => [TickTakesOver => playing_for = PLAY_DEBOUNCE]_svars
  BY DurationAssumption DEF EdgeInv, TickTakesOver, user_play, None
<1>4. QED
  BY <1>1, <1>2, <1>3, PTL DEF SSpec, TakeOverNeedsSustainedPlay

----------------------------------------------------------------------------
(* Inductive: a pending stop is exactly as old as the silence, and the     *)
(* take-over instant the daemon keeps is the true one unless the audio was *)
(* given up or the link of the take-over has closed.                       *)
QuietInv ==
    stopped_at # None =>
        playing \in {"yes", "no"} /\ (playing = "no" => quiet_for = stopped_at)
GraceInv ==
    /\ phase = "down" => relinked \/ since_take = STREAM_GRACE
    /\ relinked \/ released \/ since_take = took_over_at

LEMMA StopStep ==
    ASSUME Next, ~Pass, stopped_at # None => playing \in {"yes", "no"}, stopped_at' # None
    PROVE  \/ playing = "yes" /\ playing' = "no" /\ stopped_at' = 0
           \/ stopped_at' = stopped_at /\ playing' = playing
           \/ stopped_at' = stopped_at /\ playing = "no" /\ playing' = "yes"
<1> DEFINE G == \/ playing = "yes" /\ playing' = "no" /\ stopped_at' = 0
                \/ stopped_at' = stopped_at /\ playing' = playing
                \/ stopped_at' = stopped_at /\ playing = "no" /\ playing' = "yes"
<1> USE DEF linkVars, beliefVars, holdVars, playVars, startVars
<1>1. CASE LinkOpened
  BY <1>1 DEF LinkOpened, reset_link, end_stream_start
<1>2. CASE Promote
  BY <1>2 DEF Promote
<1>3. CASE OpeningSettled
  BY <1>3 DEF OpeningSettled
<1>4. CASE LinkClosed
  BY <1>4 DEF LinkClosed, reset_link, end_stream_start
<1>5. ASSUME NEW h \in Hosts \cup {Local}, NEW st \in Statuses, AudioSourceHere(h, st)
      PROVE  G
  BY <1>5 DEF AudioSourceHere, repause
<1>6. ASSUME NEW h \in Hosts \cup {Local}, NEW st \in Statuses, AudioSourceOther(h, st)
      PROVE  G
  BY <1>6 DEF AudioSourceOther, yield_steps, end_stream_start, note_request, renew_hold
<1>7. ASSUME NEW L \in SUBSET Hosts, ConnectedDevices(L)
      PROVE  G
  BY <1>7 DEF ConnectedDevices
<1>8. ASSUME NEW b \in BOOLEAN, OwnsConnection(b)
      PROVE  G
  BY <1>8 DEF OwnsConnection, yield_steps, end_stream_start, note_request, renew_hold
<1>9. CASE SmartRouting
  BY <1>9 DEF SmartRouting, yield_steps, end_stream_start, note_request, renew_hold
<1>10. ASSUME NEW p \in Players \cup {NoPlayer}, Playback(p)
      PROVE  G
  BY <1>10 DEF Playback, Flag
<1>11. CASE AudioLinkChanged
  BY <1>11 DEF AudioLinkChanged
<1>12. ASSUME NEW b \in BOOLEAN, A2dpTransport(b)
      PROVE  G
  BY <1>12 DEF A2dpTransport, announce
<1>13. CASE TickTakesOver
  BY <1>13 DEF TickTakesOver, take_over_steps
<1>14. CASE TickElse
  BY <1>14 DEF TickElse
<1>15. CASE TakeOver
  BY <1>15 DEF TakeOver, take_over_steps
<1>16. CASE Yield
  BY <1>16 DEF Yield, yield_steps, end_stream_start, note_request, renew_hold
<1>17. ASSUME NEW b \in BOOLEAN, SetHandoff(b)
      PROVE  G
  BY <1>17 DEF SetHandoff
<1> QED
  BY <1>1, <1>2, <1>3, <1>4, <1>5, <1>6, <1>7, <1>8, <1>9, <1>10, <1>11, <1>12,
     <1>13, <1>14, <1>15, <1>16, <1>17
  DEF Next, Report, Command, Tick

LEMMA QuietAges ==
    ASSUME QuietInv, SNext
    PROVE  QuietInv'
<1>1. SUFFICES ASSUME stopped_at' # None
               PROVE  playing' \in {"yes", "no"} /\ (playing' = "no" => quiet_for' = stopped_at')
  BY DEF QuietInv
<1>2. CASE Pass
  <2>1. /\ stopped_at # None /\ playing' = playing
        /\ stopped_at' = Older(stopped_at, PLAYBACK_STOPPED)
    BY <1>1, <1>2 DEF Pass, Older
  <2>2. playing \in {"yes", "no"} /\ (playing = "no" => quiet_for = stopped_at)
    BY <2>1 DEF QuietInv
  <2>3. playing = "no" => quiet_for' = Older(quiet_for, PLAYBACK_STOPPED)
    BY <1>2, <2>1 DEF SNext
  <2>4. QED
    BY <2>1, <2>2, <2>3
<1>3. CASE ~Pass
  <2>1. \/ playing = "yes" /\ playing' = "no" /\ stopped_at' = 0
        \/ stopped_at' = stopped_at /\ playing' = playing
        \/ stopped_at' = stopped_at /\ playing = "no" /\ playing' = "yes"
    BY <1>1, <1>3, StopStep DEF SNext, QuietInv
  <2>2. CASE playing = "yes" /\ playing' = "no" /\ stopped_at' = 0
    BY <2>2 DEF SNext
  <2>3. CASE stopped_at' = stopped_at /\ playing' = playing
    <3>1. playing \in {"yes", "no"} /\ (playing = "no" => quiet_for = stopped_at)
      BY <1>1, <2>3 DEF QuietInv
    <3>2. playing = "no" => quiet_for' = quiet_for
      BY <1>3, <2>3 DEF SNext
    <3>3. QED
      BY <2>3, <3>1, <3>2
  <2>4. QED
    BY <2>1, <2>2, <2>3
<1>4. QED
  BY <1>2, <1>3

LEMMA GiveUp ==
    ASSUME NEW b, NEW k, yield_steps(b, k)
    PROVE  released'
  BY DEF yield_steps

LEMMA GraceStep ==
    ASSUME Next, ~Pass, ~Takes
    PROVE  \/ /\ took_over_at' = took_over_at /\ (released' <=> released)
              /\ phase' = "down" <=> phase = "down"
           \/ released' /\ phase' # "down"
           \/ LinkClosed
           \/ phase = "down" /\ took_over_at' = STREAM_GRACE /\ phase' # "down"
<1> DEFINE G == \/ /\ took_over_at' = took_over_at /\ (released' <=> released)
                   /\ phase' = "down" <=> phase = "down"
                \/ released' /\ phase' # "down"
                \/ LinkClosed
                \/ phase = "down" /\ took_over_at' = STREAM_GRACE /\ phase' # "down"
<1> USE DEF linkVars, beliefVars, holdVars, playVars, startVars
<1>1. CASE LinkOpened
  BY <1>1 DEF LinkOpened, reset_link, end_stream_start
<1>2. CASE Promote
  BY <1>2 DEF Promote
<1>3. CASE OpeningSettled
  BY <1>3 DEF OpeningSettled
<1>4. CASE LinkClosed
  BY <1>4 DEF LinkClosed, reset_link, end_stream_start
<1>5. ASSUME NEW h \in Hosts \cup {Local}, NEW st \in Statuses, AudioSourceHere(h, st)
      PROVE  G
  BY <1>5 DEF AudioSourceHere, repause
<1>6. ASSUME NEW h \in Hosts \cup {Local}, NEW st \in Statuses, AudioSourceOther(h, st)
      PROVE  G
  BY <1>6, GiveUp DEF AudioSourceOther, link_up
<1>7. ASSUME NEW L \in SUBSET Hosts, ConnectedDevices(L)
      PROVE  G
  BY <1>7 DEF ConnectedDevices
<1>8. ASSUME NEW b \in BOOLEAN, OwnsConnection(b)
      PROVE  G
  BY <1>8, GiveUp DEF OwnsConnection, link_up
<1>9. CASE SmartRouting
  BY <1>9, GiveUp DEF SmartRouting, link_up
<1>10. ASSUME NEW p \in Players \cup {NoPlayer}, Playback(p)
      PROVE  G
  BY <1>10 DEF Playback, Flag
<1>11. CASE AudioLinkChanged
  BY <1>11 DEF AudioLinkChanged
<1>12. ASSUME NEW b \in BOOLEAN, A2dpTransport(b)
      PROVE  G
  BY <1>12 DEF A2dpTransport, announce
<1>13. CASE TickElse
  BY <1>13 DEF TickElse
<1>14. CASE Yield
  BY <1>14, GiveUp DEF Yield, link_up
<1>15. ASSUME NEW b \in BOOLEAN, SetHandoff(b)
      PROVE  G
  BY <1>15 DEF SetHandoff
<1> QED
  BY <1>1, <1>2, <1>3, <1>4, <1>5, <1>6, <1>7, <1>8, <1>9, <1>10, <1>11, <1>12,
     <1>13, <1>14, <1>15
  DEF Next, Report, Command, Tick, Takes


LEMMA GraceAges ==
    ASSUME GraceInv, SNext
    PROVE  GraceInv'
<1>1. CASE Takes
  <2>1. since_take' = 0 /\ took_over_at' = 0 /\ phase' # "down"
    BY <1>1 DEF SNext, Takes, TickTakesOver, TakeOver, take_over_steps, take_over_allowed,
                link_up, linkVars
  <2>2. QED
    BY <2>1 DEF GraceInv
<1>2. CASE ~Takes /\ Pass
  <2>1. /\ since_take' = Older(since_take, STREAM_GRACE)
        /\ took_over_at' = Older(took_over_at, STREAM_GRACE)
        /\ phase' = phase /\ (released' <=> released)
    BY <1>2 DEF SNext, Pass, beliefVars
  <2>2. relinked => relinked'
    BY <1>2 DEF SNext
  <2>3. since_take = STREAM_GRACE => since_take' = STREAM_GRACE
    BY <2>1 DEF Older
  <2>4. QED
    BY <2>1, <2>2, <2>3 DEF GraceInv
<1>3. CASE ~Takes /\ ~Pass
  <2>1. since_take' = since_take /\ (relinked' <=> relinked \/ LinkClosed)
    BY <1>3 DEF SNext
  <2>2. \/ /\ took_over_at' = took_over_at /\ (released' <=> released)
           /\ phase' = "down" <=> phase = "down"
        \/ released' /\ phase' # "down"
        \/ LinkClosed
        \/ phase = "down" /\ took_over_at' = STREAM_GRACE /\ phase' # "down"
    BY <1>3, GraceStep DEF SNext
  <2>3. QED
    BY <2>1, <2>2 DEF GraceInv
<1>4. QED
  BY <1>1, <1>2, <1>3

LEMMA YesIsNotNo ==
    ASSUME NEW A, NEW B
    PROVE  SendMediaInfo(TRUE, A) # SendMediaInfo(FALSE, B)
<1>1. SendMediaInfo(TRUE, A).streaming = TRUE /\ SendMediaInfo(FALSE, B).streaming = FALSE
  BY DEF SendMediaInfo
<1>2. QED
  BY <1>1

(* NO leaves only from stop_tick, and only while this host owns the audio. *)
LEMMA StopComesFromTick ==
    ASSUME Next, Returned(SendMediaInfo(FALSE, devices))'
    PROVE  stop_due /\ owns_audio
<1> DEFINE no == SendMediaInfo(FALSE, devices')
<1>0. Holds(out', no)
  BY DEF Returned, Holds, SendMediaInfo
<1>1. ~nothing
  BY <1>0, HoldsNothing DEF nothing
<1>2. ASSUME NEW k, NEW b, yield_steps(b, k)
      PROVE  FALSE
  BY <1>0, <1>2
  DEF yield_steps, Holds, SendMediaInfo, PauseLocalPlayers, SetAudioRoute, SendOwnership,
      Record
<1>3. ~announce(TRUE)
  <2>1. SendMediaInfo(TRUE, devices) # no
    BY YesIsNotNo
  <2>2. QED
    BY <1>0, <2>1, HoldsOne DEF announce
<1>4. ASSUME NEW p, out' = <<RepausePlayer(p)>>
      PROVE  FALSE
  BY <1>0, <1>4 DEF Holds, RepausePlayer, SendMediaInfo
<1>5. ASSUME NEW h \in Hosts \cup {Local}, NEW st \in Statuses,
             AudioSourceHere(h, st) \/ AudioSourceOther(h, st)
      PROVE  FALSE
  BY <1>5, <1>1, <1>2, <1>4 DEF AudioSourceHere, AudioSourceOther, repause
<1>6. ASSUME NEW L \in SUBSET Hosts, ConnectedDevices(L)
      PROVE  FALSE
  BY <1>6, <1>0 DEF ConnectedDevices, When, Holds, SendMediaInfo, SendNewDevice
<1>7. ASSUME NEW b \in BOOLEAN, OwnsConnection(b)
      PROVE  FALSE
  BY <1>7, <1>1, <1>2 DEF OwnsConnection
<1>8. ~SmartRouting
  BY <1>1, <1>2, <1>4 DEF SmartRouting
<1>9. ASSUME NEW p \in Players \cup {NoPlayer}, Playback(p)
      PROVE  FALSE
  BY <1>9, <1>1, <1>3, <1>4 DEF Playback
<1>10. ASSUME NEW b \in BOOLEAN, A2dpTransport(b)
       PROVE  FALSE
  BY <1>10, <1>1, <1>3 DEF A2dpTransport
<1>11. ~Holds(take_over_actions, no) /\ ~Holds(stream_tick, no)
       /\ ~Holds(stream_tick \o take_over_actions, no)
  <2> DEFINE S == {StreamNotStarted, SetAudioRoute("Own"), SendOwnership(TRUE),
                   SendMediaInfo(TRUE, devices), SendHijack(devices), ClaimAudio,
                   Record("TookOver")}
  <2>1. no \notin S
    <3>1. SendMediaInfo(TRUE, devices) # no
      BY YesIsNotNo
    <3>2. QED
      BY <3>1 DEF StreamNotStarted, SetAudioRoute, SendOwnership, SendMediaInfo, SendHijack,
                  ClaimAudio, Record
  <2>2. take_over_actions \in Seq(S)
    BY DEF take_over_actions
  <2>3. stream_tick \in Seq(S)
    <3>1. stream_tick = <<>> \/ stream_tick = <<StreamNotStarted>>
      BY DEF stream_tick, When
    <3>2. <<>> \in Seq(S) /\ <<StreamNotStarted>> \in Seq(S)
      OBVIOUS
    <3>3. QED BY <3>1, <3>2
  <2> HIDE DEF S, no
  <2>4. \A s \in Seq(S) : ~Holds(s, no)
    BY <2>1 DEF Holds
  <2>5. QED
    BY <2>2, <2>3, <2>4, HoldsConcat
<1>12. CASE Tick
  BY <1>12, <1>0, <1>11 DEF Tick, TickTakesOver, TickElse
<1>13. ~TakeOver /\ ~Yield
  BY <1>0, <1>2, <1>11 DEF TakeOver, Yield
<1>14. QED
  BY <1>1, <1>5, <1>6, <1>7, <1>8, <1>9, <1>10, <1>12, <1>13
  DEF Next, Report, Command, LinkOpened, Promote, OpeningSettled, LinkClosed,
      AudioLinkChanged, SetHandoff, Pass

(* For any durations: NO goes out only after the full silence, and not     *)
(* inside the grace of a take-over made on the same link.                  *)
THEOREM StopTimely == SSpec => StopNeverEarly
<1>1. SInit => TypeOK /\ QuietInv /\ GraceInv
  BY ValuesInit DEF SInit, Init, QuietInv, GraceInv, TypeOK, SwitchesOK
<1>2. TypeOK /\ QuietInv /\ GraceInv /\ [SNext]_svars => (TypeOK /\ QuietInv /\ GraceInv)'
  <2>1. SNext => [Next]_vars
    BY DEF SNext
  <2>2. UNCHANGED svars => UNCHANGED vars
    BY DEF svars
  <2>3. QuietInv /\ UNCHANGED svars => QuietInv'
    BY DEF svars, vars, playVars, QuietInv
  <2>4. GraceInv /\ UNCHANGED svars => GraceInv'
    BY DEF svars, vars, linkVars, startVars, beliefVars, GraceInv
  <2>5. TypeOK /\ [Next]_vars => TypeOK'
    BY ValuesNext, SwitchesNext DEF TypeOK
  <2>6. QED
    BY <2>1, <2>2, <2>3, <2>4, <2>5, QuietAges, GraceAges
<1>3. TypeOK /\ QuietInv /\ GraceInv /\ [SNext]_svars
        => [Returned(SendMediaInfo(FALSE, devices))' =>
                /\ quiet_for = PLAYBACK_STOPPED
                /\ since_take = STREAM_GRACE \/ relinked]_svars
  <2>1. ASSUME TypeOK, QuietInv, GraceInv, SNext, Returned(SendMediaInfo(FALSE, devices))'
        PROVE  quiet_for = PLAYBACK_STOPPED /\ (since_take = STREAM_GRACE \/ relinked)
    <3>1. stop_due /\ owns_audio
      BY <2>1, StopComesFromTick DEF SNext
    <3>2. quiet_for = PLAYBACK_STOPPED
      BY <2>1, <3>1, DurationAssumption DEF stop_due, QuietInv, None
    <3>3. took_over_at = STREAM_GRACE
      BY <2>1, <3>1, DurationAssumption
      DEF stop_due, in_stream_grace, TypeOK, ValuesOK, Windows
    <3>4. QED
      BY <2>1, <3>1, <3>2, <3>3 DEF owns_audio, GraceInv
  <2>2. QED
    BY <2>1
<1>4. QED
  BY <1>1, <1>2, <1>3, PTL DEF SSpec, StopNeverEarly

----------------------------------------------------------------------------
(* Inductive: while the check is pending nothing has been said, and the    *)
(* time left to it and the age of the take-over make up STREAM_CHECK.      *)
WarnInv ==
    /\ since_take \in Windows(STREAM_GRACE)
    /\ stream_check # None => ~warned /\ since_take + stream_check >= STREAM_CHECK

LEMMA WarnComesFromTick ==
    ASSUME Next, Returned(StreamNotStarted)'
    PROVE  Tick /\ stream_check = 0 /\ owns_audio
<1>0. Holds(out', StreamNotStarted)
  BY DEF Returned, Holds, StreamNotStarted
<1>1. ~nothing
  BY <1>0, HoldsNothing DEF nothing
<1>2. ASSUME NEW k, NEW b, yield_steps(b, k)
      PROVE  FALSE
  BY <1>0, <1>2
  DEF yield_steps, Holds, StreamNotStarted, PauseLocalPlayers, SetAudioRoute, SendOwnership,
      Record
<1>3. ASSUME NEW b, NEW T, out' = <<SendMediaInfo(b, T)>>
      PROVE  FALSE
  BY <1>0, <1>3 DEF Holds, SendMediaInfo, StreamNotStarted
<1>4. ASSUME NEW p, out' = <<RepausePlayer(p)>>
      PROVE  FALSE
  BY <1>0, <1>4 DEF Holds, RepausePlayer, StreamNotStarted
<1>5. ASSUME NEW h \in Hosts \cup {Local}, NEW st \in Statuses,
             AudioSourceHere(h, st) \/ AudioSourceOther(h, st)
      PROVE  FALSE
  BY <1>5, <1>1, <1>2, <1>4 DEF AudioSourceHere, AudioSourceOther, repause
<1>6. ASSUME NEW L \in SUBSET Hosts, ConnectedDevices(L)
      PROVE  FALSE
  BY <1>6, <1>0 DEF ConnectedDevices, When, Holds, StreamNotStarted, SendNewDevice
<1>7. ASSUME NEW b \in BOOLEAN, OwnsConnection(b)
      PROVE  FALSE
  BY <1>7, <1>1, <1>2 DEF OwnsConnection
<1>8. ~SmartRouting
  BY <1>1, <1>2, <1>4 DEF SmartRouting
<1>9. ASSUME NEW p \in Players \cup {NoPlayer}, Playback(p)
      PROVE  FALSE
  BY <1>9, <1>1, <1>3, <1>4 DEF Playback, announce
<1>10. ASSUME NEW b \in BOOLEAN, A2dpTransport(b)
       PROVE  FALSE
  BY <1>10, <1>1, <1>3 DEF A2dpTransport, announce
<1>11. ~Holds(take_over_actions, StreamNotStarted)
  BY DEF take_over_actions, Holds, StreamNotStarted, SetAudioRoute, SendOwnership,
         SendMediaInfo, SendHijack, ClaimAudio, Record
<1>12. CASE Tick
  <2>1. stream_tick # <<>>
    <3>1. <<>> \o take_over_actions = take_over_actions
      BY DEF take_over_actions
    <3>2. ~Holds(<<>> \o <<SendMediaInfo(FALSE, devices)>>, StreamNotStarted)
      BY DEF Holds, SendMediaInfo, StreamNotStarted
    <3>3. QED
      BY <1>12, <1>0, <1>11, <3>1, <3>2, HoldsNothing DEF Tick, TickTakesOver, TickElse
  <2>2. QED
    BY <1>12, <2>1 DEF stream_tick, When
<1>13. ~TakeOver /\ ~Yield
  BY <1>0, <1>2, <1>11 DEF TakeOver, Yield
<1>14. QED
  BY <1>1, <1>5, <1>6, <1>7, <1>8, <1>9, <1>10, <1>12, <1>13
  DEF Next, Report, Command, LinkOpened, Promote, OpeningSettled, LinkClosed,
      AudioLinkChanged, SetHandoff, Pass

LEMMA CheckStep ==
    ASSUME Next, ~Pass, ~Takes
    PROVE  stream_check' = stream_check \/ stream_check' = None
<1> DEFINE G == stream_check' = stream_check \/ stream_check' = None
<1> USE DEF linkVars, beliefVars, holdVars, playVars, startVars
<1>1. CASE LinkOpened
  BY <1>1 DEF LinkOpened, reset_link, end_stream_start
<1>2. CASE Promote
  BY <1>2 DEF Promote
<1>3. CASE OpeningSettled
  BY <1>3 DEF OpeningSettled
<1>4. CASE LinkClosed
  BY <1>4 DEF LinkClosed, reset_link, end_stream_start
<1>5. ASSUME NEW h \in Hosts \cup {Local}, NEW st \in Statuses, AudioSourceHere(h, st)
      PROVE  G
  BY <1>5 DEF AudioSourceHere, repause
<1>6. ASSUME NEW h \in Hosts \cup {Local}, NEW st \in Statuses, AudioSourceOther(h, st)
      PROVE  G
  BY <1>6 DEF AudioSourceOther, yield_steps, end_stream_start, note_request, renew_hold
<1>7. ASSUME NEW L \in SUBSET Hosts, ConnectedDevices(L)
      PROVE  G
  BY <1>7 DEF ConnectedDevices
<1>8. ASSUME NEW b \in BOOLEAN, OwnsConnection(b)
      PROVE  G
  BY <1>8 DEF OwnsConnection, yield_steps, end_stream_start, note_request, renew_hold
<1>9. CASE SmartRouting
  BY <1>9 DEF SmartRouting, yield_steps, end_stream_start, note_request, renew_hold
<1>10. ASSUME NEW p \in Players \cup {NoPlayer}, Playback(p)
      PROVE  G
  BY <1>10 DEF Playback, Flag
<1>11. CASE AudioLinkChanged
  BY <1>11 DEF AudioLinkChanged
<1>12. ASSUME NEW b \in BOOLEAN, A2dpTransport(b)
      PROVE  G
  BY <1>12 DEF A2dpTransport, announce
<1>13. CASE TickElse
  BY <1>13 DEF TickElse, stream_check_after
<1>14. CASE Yield
  BY <1>14 DEF Yield, yield_steps, end_stream_start, note_request, renew_hold
<1>15. ASSUME NEW b \in BOOLEAN, SetHandoff(b)
      PROVE  G
  BY <1>15 DEF SetHandoff
<1> QED
  BY <1>1, <1>2, <1>3, <1>4, <1>5, <1>6, <1>7, <1>8, <1>9, <1>10, <1>11, <1>12,
     <1>13, <1>14, <1>15
  DEF Next, Report, Command, Tick, Takes

LEMMA WarnAges ==
    ASSUME TypeOK, WarnInv, SNext
    PROVE  WarnInv'
<1> USE DurationAssumption
<1>1. since_take' \in Windows(STREAM_GRACE)
  BY OlderInWindow DEF SNext, WarnInv, Windows, Older, None
<1>2. CASE Takes
  <2>1. since_take' = 0 /\ ~warned' /\ stream_check' \in {None, STREAM_CHECK}
    BY <1>2 DEF SNext, Takes, TickTakesOver, TakeOver, take_over_steps
  <2>2. QED
    BY <1>1, <2>1 DEF WarnInv
<1>3. CASE ~Takes /\ Pass
  <2>1. ~Returned(StreamNotStarted)'
    BY <1>3 DEF Pass, nothing, Returned
  <2>2. warned' <=> warned
    BY <1>3, <2>1 DEF SNext
  <2>3. since_take' = Older(since_take, STREAM_GRACE)
    BY <1>3 DEF SNext
  <2>4. stream_check' # None =>
            stream_check # None /\ since_take' + stream_check' >= STREAM_CHECK
    BY <1>3, <2>3
    DEF Pass, Older, WarnInv, TypeOK, ValuesOK, Windows, None
  <2>5. QED
    BY <1>1, <2>2, <2>4 DEF WarnInv
<1>4. CASE ~Takes /\ ~Pass
  <2>1. since_take' = since_take
    BY <1>4 DEF SNext
  <2>2. stream_check' = stream_check \/ stream_check' = None
    BY <1>4, CheckStep DEF SNext
  <2>3. ASSUME Returned(StreamNotStarted)'
        PROVE  stream_check' = None
    <3>1. TickElse /\ stream_check = 0
      BY <1>4, <2>3, WarnComesFromTick DEF SNext, Tick, Takes
    <3>2. QED
      BY <3>1 DEF TickElse, stream_check_after
  <2>4. stream_check' # None => (warned' <=> warned)
    BY <1>4, <2>3 DEF SNext
  <2>5. QED
    BY <1>1, <2>1, <2>2, <2>4 DEF WarnInv
<1>5. QED
  BY <1>2, <1>3, <1>4

(* For any durations: the silent-stream warning is said once per take-over *)
(* at most, not before STREAM_CHECK, and only by the owner.                *)
THEOREM WarnedOnce == SSpec => WarnedOncePerTakeOver
<1>1. SInit => TypeOK /\ WarnInv
  <2>1. SInit => TypeOK
    BY ValuesInit DEF SInit, Init, TypeOK, SwitchesOK
  <2>2. SInit => WarnInv
    BY Ages DEF SInit, Init, WarnInv
  <2>3. QED BY <2>1, <2>2
<1>2. TypeOK /\ WarnInv /\ [SNext]_svars => (TypeOK /\ WarnInv)'
  <2>1. SNext => [Next]_vars
    BY DEF SNext
  <2>2. UNCHANGED svars => UNCHANGED vars
    BY DEF svars
  <2>3. WarnInv /\ UNCHANGED svars => WarnInv'
    BY DEF svars, vars, startVars, WarnInv
  <2>4. TypeOK /\ [Next]_vars => TypeOK'
    BY ValuesNext, SwitchesNext DEF TypeOK
  <2>5. QED
    BY <2>1, <2>2, <2>3, <2>4, WarnAges
<1>3. TypeOK /\ WarnInv /\ [SNext]_svars
        => [Returned(StreamNotStarted)' =>
                ~warned /\ since_take >= STREAM_CHECK /\ owns_audio]_svars
  <2>1. ASSUME WarnInv, SNext, Returned(StreamNotStarted)'
        PROVE  ~warned /\ since_take >= STREAM_CHECK /\ owns_audio
    <3>1. stream_check = 0 /\ owns_audio
      BY <2>1, WarnComesFromTick DEF SNext
    <3>2. ~warned /\ since_take + stream_check >= STREAM_CHECK
      BY <2>1, <3>1 DEF WarnInv, None
    <3>3. since_take >= STREAM_CHECK
      BY <2>1, <3>1, <3>2, DurationAssumption DEF WarnInv, Windows
    <3>4. QED
      BY <3>1, <3>2, <3>3
  <2>2. QED
    BY <2>1
<1>4. QED
  BY <1>1, <1>2, <1>3, PTL DEF SSpec, WarnedOncePerTakeOver

=============================================================================
