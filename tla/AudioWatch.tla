----------------------------- MODULE AudioWatch -----------------------------
(***************************************************************************)
(* The task that follows the media transports of the AirPods on D-Bus      *)
(* (bluez.rs watch_audio_objects) and tells the supervisor whether audio   *)
(* is streaming, which is half of what the handoff decides from.           *)
(*                                                                         *)
(* BlueZ emits its signals in order, but the task sorts them into three    *)
(* streams and select! takes from any that has something: a signal may     *)
(* overtake an older one.  Of a transport's State only whether audio flows *)
(* or is about to (streaming_state) is kept, and of the log text nothing.  *)
(***************************************************************************)
EXTENDS Naturals, Sequences, FiniteSets, SequencesExt

CONSTANTS
    A2dp,           \* the object paths of the device's A2DP transports
    HandsFree,      \* and of its hands-free transports
    MAX_SIGNALS     \* bound: the signals BlueZ emits

ASSUME AudioAssumption == A2dp \cap HandsFree = {} /\ MAX_SIGNALS \in Nat

Transports == A2dp \cup HandsFree
Streams == {"added", "removed", "props"}

VARIABLES
    objects,        \* BlueZ: the transports that exist, and whether each streams
    emitted,        \* signals emitted so far, which number them
    watch_phase,          \* ended, unsubscribed, subscribed or watching
    stream,         \* the unread signals: [path, active, at]
    by_path,        \* AudioTransports: the transports known, and their `active`
    reported,       \* the latest LinkEvent::A2dpTransport
    overtaken       \* the transports one signal of which overtook an older one

objectVars == <<objects, emitted, watch_phase, stream, by_path, reported, overtaken>>

NoTransports == [t \in {} |-> FALSE]
NothingUnread == [k \in Streams |-> <<>>]
With(known, t, a) == [u \in DOMAIN known \cup {t} |-> IF u = t THEN a ELSE known[u]]
Without(known, t) == [u \in DOMAIN known \ {t} |-> known[u]]
active(known) == \E t \in DOMAIN known \cap A2dp : known[t]

AudioInit ==
    /\ objects = NoTransports /\ emitted = 0
    /\ watch_phase = "unsubscribed" /\ stream = NothingUnread
    /\ by_path = NoTransports /\ reported = FALSE /\ overtaken = {}

----------------------------------------------------------------------------
(* BlueZ.  A signal reaches the streams once their matches are added. *)
subscribed == watch_phase \in {"subscribed", "watching"}
Emit(k, t, a) ==
    /\ emitted < MAX_SIGNALS /\ emitted' = emitted + 1
    /\ stream' = IF subscribed
                 THEN [stream EXCEPT ![k] = Append(@, [path |-> t, active |-> a, at |-> emitted])]
                 ELSE stream
    /\ UNCHANGED <<watch_phase, by_path, reported, overtaken>>

TransportAppears(t) ==
    /\ t \notin DOMAIN objects
    /\ objects' = With(objects, t, FALSE)
    /\ Emit("added", t, FALSE)
TransportDisappears(t) ==
    /\ t \in DOMAIN objects
    /\ objects' = Without(objects, t)
    /\ Emit("removed", t, FALSE)
StateChanges(t) ==
    /\ t \in DOMAIN objects
    /\ objects' = With(objects, t, ~objects[t])
    /\ Emit("props", t, ~objects[t])

----------------------------------------------------------------------------
(* watch_audio_objects. *)
Subscribe ==
    /\ watch_phase = "unsubscribed"
    /\ watch_phase' = "subscribed"
    /\ UNCHANGED <<objects, emitted, stream, by_path, reported, overtaken>>

GetManagedObjects ==
    /\ watch_phase = "subscribed"
    /\ watch_phase' = "watching"
    /\ by_path' = objects
    /\ reported' = active(objects)
    /\ overtaken' = {}
    /\ UNCHANGED <<objects, emitted, stream>>

(* AudioTransports add, changed and remove. *)
Folded_KeepsRemoved(k, s) ==
    IF k = "added" \/ (k = "props" /\ s.path \in DOMAIN by_path)
    THEN With(by_path, s.path, s.active) ELSE by_path
Folded(k, s) ==
    CASE k = "added" -> With(by_path, s.path, s.active)
      [] k = "props" -> IF s.path \in DOMAIN by_path THEN With(by_path, s.path, s.active) ELSE by_path
      [] k = "removed" -> Without(by_path, s.path)

OlderUnread(k, s) == {o \in UNION {Range(stream[j]) : j \in Streams \ {k}} : o.path = s.path /\ o.at < s.at}

Read(k) ==
    /\ watch_phase = "watching" /\ stream[k] # <<>>
    /\ LET s == Head(stream[k]) IN
       /\ by_path' = Folded(k, s)
       /\ overtaken' = IF OlderUnread(k, s) = {} THEN overtaken ELSE overtaken \cup {s.path}
    /\ reported' = active(by_path')
    /\ stream' = [stream EXCEPT ![k] = Tail(@)]
    /\ UNCHANGED <<objects, emitted, watch_phase>>

(* The bus connection is lost: the task ends, and runs again only when the *)
(* watch of the device (once) is rebuilt.                                  *)
BusLost ==
    /\ watch_phase # "ended"
    /\ watch_phase' = "ended"
    /\ stream' = NothingUnread
    /\ by_path' = NoTransports
    /\ overtaken' = {}
    /\ UNCHANGED <<objects, emitted, reported>>
Rebuilt ==
    /\ watch_phase = "ended"
    /\ watch_phase' = "unsubscribed"
    /\ UNCHANGED <<objects, emitted, stream, by_path, reported, overtaken>>

AudioNext ==
    \/ \E t \in Transports : TransportAppears(t) \/ TransportDisappears(t) \/ StateChanges(t)
    \/ Subscribe \/ GetManagedObjects \/ (\E k \in Streams : Read(k))
    \/ BusLost \/ Rebuilt
AudioSpec == AudioInit /\ [][AudioNext]_objectVars

----------------------------------------------------------------------------
(* When the task has read all there is, what the supervisor was last told  *)
(* is what BlueZ has, whatever was missed before the subscription and      *)
(* however the answer to GetManagedObjects and the signals it already      *)
(* reflects overlap - unless a signal of an A2DP transport was taken       *)
(* before an older one of the same transport ("Subscribed first, so no     *)
(* change between this read and the signals is lost", bluez.rs:574).       *)
ReportIsTrue ==
    watch_phase = "watching" /\ stream = NothingUnread /\ overtaken \cap A2dp = {}
        => reported = active(objects)

(* The same without the exception, which the code does not provide: a      *)
(* transport added idle that starts streaming at once may be read as       *)
(* started (unknown, dropped) and then as added idle; one removed and one  *)
(* still unread change of it may leave a transport that is gone.           *)
ReportIsAlwaysTrue ==
    watch_phase = "watching" /\ stream = NothingUnread => reported = active(objects)
=============================================================================
