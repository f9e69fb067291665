---------------------------- MODULE LinkRecovery ----------------------------
(***************************************************************************)
(* The two reconnect policies at work together (aap/session.rs with        *)
(* rejoin.rs, autoconnect.rs and bluez.rs): the supervisor folds what the  *)
(* BlueZ watcher, the AirPods, the scanner and the user tell it into both  *)
(* machines, in the order the code does, and performs their Connects in    *)
(* spawned tasks whose results come back on channels of their own.         *)
(*                                                                         *)
(* The properties and the Disconnected signals of BlueZ are two D-Bus      *)
(* streams which the watcher merges as they come, so they are kept as two  *)
(* queues and merged when the supervisor reads.  As a signal may be on its *)
(* way for any time, no wake of the supervisor waits for another.          *)
(*                                                                         *)
(* A task checks the device and its epoch, calls Device1.Connect, and      *)
(* reports, or is given up after REJOIN_CONNECT_TIMEOUT, which is left     *)
(* untimed here: a check takes one step, a call ends in its own time.      *)
(***************************************************************************)
EXTENDS Integers, Sequences

CONSTANTS
    Hosts, AppleOuis, Allowed, EVICTION_WINDOW, REJOIN_DELAY, MANUAL_QUIET, BUSY_RETRY,
    REJOIN_ATTEMPTS, RATE_LIMIT, LOOP_WINDOW, KNOWN_HOSTS_CAP,      \* of Rejoin
    AutoEnabled, SETTLE, ABSENCE, FALLBACK_FIRST, FALLBACK_INTERVAL, FALLBACK_BUDGET,
    ADVERT_FRESH, RETRY_BACKOFF, AUTO_ATTEMPTS,                     \* of AutoConnect
    DropReasons,         \* the reasons BlueZ gives for a disconnect
    MaxSignals           \* BlueZ signals of a kind on their way at once

ASSUME PoliciesAssumption ==
    /\ RATE_LIMIT \in Nat /\ REJOIN_DELAY \in Nat /\ SETTLE \in Nat
    /\ REJOIN_ATTEMPTS \in Nat \ {0} /\ BUSY_RETRY \in [1..REJOIN_ATTEMPTS - 1 -> Nat]
    /\ AUTO_ATTEMPTS \in Nat \ {0} /\ RETRY_BACKOFF \in [1..AUTO_ATTEMPTS - 1 -> Nat]
ASSUME SignalsAssumption ==
    /\ DropReasons \subseteq {"Remote", "Timeout", "Local", "Unknown", "Other"}
    /\ MaxSignals \in Nat \ {0}

VARIABLES
    handoff_enabled, known, listed, up, report_age, both_in_case, last_manual,
    last_sequence, last_success, looped, rejoin, rejoin_seq, rejoin_does,
    connected, disarmed, last_seen, auto, auto_seq, fallback_start, fallback_from,
    fallback_next, auto_does,
    link,               \* BlueZ: the device is connected
    props,              \* property changes of the watcher, on their way
    drops,              \* Disconnected signals of the watcher, on their way
    acl,                \* the supervisor's belief about link
    rejoin_epoch, auto_epoch,
    tasks,              \* spawned connects: [by, seq, stage]
    results             \* reported outcomes, a channel for each policy

R == INSTANCE Rejoin WITH MAX_ATTEMPTS <- REJOIN_ATTEMPTS
A == INSTANCE AutoConnect

rejoinVars == <<handoff_enabled, known, listed, up, report_age, both_in_case, last_manual,
                last_sequence, last_success, looped, rejoin, rejoin_seq>>
autoVars == <<connected, disarmed, last_seen, auto, auto_seq, fallback_start, fallback_from,
              fallback_next>>
bluezVars == <<link, props, drops>>
taskVars == <<rejoin_epoch, auto_epoch, tasks>>
lvars == <<rejoinVars, rejoin_does, autoVars, auto_does, bluezVars, acl, taskVars, results>>

Policies == {"rejoin", "auto"}
Signals == {"up", "down", "gone", "identity"}
Stages == {"checking", "calling", "linked"}
Epoch(by) == IF by = "rejoin" THEN rejoin_epoch ELSE auto_epoch

LinkInit ==
    /\ R!RejoinInit /\ A!AutoInit
    /\ link = FALSE /\ props = <<>> /\ drops = <<>> /\ acl = FALSE
    /\ rejoin_epoch = 0 /\ auto_epoch = 0 /\ tasks = {}
    /\ results = [by \in Policies |-> <<>>]

----------------------------------------------------------------------------
(* What the supervisor does about the decisions of one wake. *)
NoRejoinEvent == rejoin_does' = {} /\ UNCHANGED rejoinVars
NoAutoEvent == auto_does' = {} /\ UNCHANGED autoVars

Spawned(by, does, seq) ==
    IF "Connect" \in does THEN {[by |-> by, seq |-> seq, stage |-> "checking"]} ELSE {}

rejoin_event_KeepsEpoch ==
    rejoin_epoch' = IF "Connect" \in rejoin_does' THEN rejoin'.seq ELSE rejoin_epoch
rejoin_event ==
    rejoin_epoch' = IF "Cancelled" \in rejoin_does' THEN 0
                    ELSE IF "Connect" \in rejoin_does' THEN rejoin'.seq ELSE rejoin_epoch
autoconnect_event ==
    auto_epoch' = IF auto_does' \cap {"Cancelled", "GaveUp"} # {} THEN 0
                  ELSE IF "Connect" \in auto_does' THEN auto'.seq ELSE auto_epoch

Perform ==
    /\ rejoin_event /\ autoconnect_event
    /\ tasks' = tasks \cup Spawned("rejoin", rejoin_does', rejoin'.seq)
                      \cup Spawned("auto", auto_does', auto'.seq)

(* What autoconnect_event copies into the auto-connect state first. *)
rejoin_is_pending == rejoin' # R!NoRejoin

----------------------------------------------------------------------------
(* LinkEvent::Connected(true). *)
OnConnected ==
    /\ props # <<>> /\ Head(props) = "up"
    /\ props' = Tail(props)
    /\ R!Connected(~acl) /\ A!LocalConnected
    /\ acl' = TRUE
    /\ Perform /\ UNCHANGED <<link, drops, results>>

(* Connected(false), AdapterGone: a bare change of the link. *)
OnLinkDown ==
    /\ props # <<>> /\ Head(props) \in {"down", "gone"}
    /\ props' = Tail(props)
    /\ IF Head(props) = "gone" THEN R!AdapterGone ELSE NoRejoinEvent
    /\ A!LocalDisconnected("Unknown")
    /\ acl' = FALSE
    /\ Perform /\ UNCHANGED <<link, drops, results>>

(* Identity of other AirPods: only the rejoin hears of it. *)
OnIdentity ==
    /\ props # <<>> /\ Head(props) = "identity"
    /\ props' = Tail(props)
    /\ R!IdentityChanged /\ NoAutoEvent
    /\ acl' = FALSE
    /\ Perform /\ UNCHANGED <<link, drops, results>>

(* LinkEvent::Disconnected: auto-connect first, then the rejoin.  A closed *)
(* lid stops a rejoin as unfit facts do.                                   *)
OnDisconnected(facts_ok) ==
    /\ drops # <<>>
    /\ drops' = Tail(drops)
    /\ A!LocalDisconnected(Head(drops))
    /\ R!Disconnected(Head(drops), ~facts_ok, facts_ok)
    /\ Perform /\ UNCHANGED <<link, props, acl, results>>

(* A packet on the AAP link; it needs the link to have been seen up. *)
OnPacket ==
    /\ acl
    /\ \/ \E L \in SUBSET Hosts : \E U \in SUBSET L : R!ReportsDevices(L, U)
       \/ \E h \in Hosts : R!Relay(h)
       \/ \E b \in BOOLEAN : R!Ear(b)
    /\ NoAutoEvent
    /\ Perform /\ UNCHANGED <<bluezVars, acl, results>>

OnSighting ==
    /\ NoRejoinEvent
    /\ \E near \in BOOLEAN : A!Seen(near, rejoin_is_pending)
    /\ Perform /\ UNCHANGED <<bluezVars, acl, results>>

(* reconnect or connect-once; what they do to the link is up to BlueZ. *)
OnManualCommand ==
    /\ R!ManualCommand /\ A!AutoManualCommand
    /\ Perform /\ UNCHANGED <<bluezVars, acl, results>>

OnSetHandoff(b) ==
    /\ R!SetEnabled(b) /\ NoAutoEvent
    /\ Perform /\ UNCHANGED <<bluezVars, acl, results>>

OnTick ==
    /\ R!RejoinTick
    /\ A!AutoTick(rejoin_is_pending)
    /\ Perform /\ UNCHANGED <<bluezVars, acl, results>>

RejoinOutcome(outcome) ==
    IF outcome \in {"Connected", "Busy", "Failed"} THEN outcome ELSE "NotReady"

OnRejoinResult ==
    LET r == Head(results["rejoin"]) IN
    /\ results["rejoin"] # <<>>
    /\ results' = [results EXCEPT !["rejoin"] = Tail(@)]
    /\ R!ConnectFinished(r.seq, RejoinOutcome(r.outcome)) /\ NoAutoEvent
    /\ Perform /\ UNCHANGED <<bluezVars, acl>>

OnAutoResult ==
    LET r == Head(results["auto"]) IN
    /\ results["auto"] # <<>>
    /\ results' = [results EXCEPT !["auto"] = Tail(@)]
    /\ A!AutoFinished(r.seq, r.outcome) /\ NoRejoinEvent
    /\ Perform /\ UNCHANGED <<bluezVars, acl>>

Supervisor ==
    \/ OnConnected \/ OnLinkDown \/ OnIdentity
    \/ OnPacket \/ OnSighting \/ OnManualCommand
    \/ \E b \in BOOLEAN : OnDisconnected(b) \/ OnSetHandoff(b)
    \/ OnTick \/ OnRejoinResult \/ OnAutoResult

----------------------------------------------------------------------------
(* The spawned connects (spawn_rejoin, spawn_autoconnect, rejoin_connect). *)
Quiet == NoRejoinEvent /\ NoAutoEvent /\ UNCHANGED <<acl, rejoin_epoch, auto_epoch>>

Reports_OneChannel(t, outcome) ==
    /\ tasks' = tasks \ {t}
    /\ results' = [results EXCEPT !["rejoin"] =
                       Append(@, [seq |-> t.seq, outcome |-> outcome])]
Reports(t, outcome) ==
    /\ tasks' = tasks \ {t}
    /\ results' = [results EXCEPT ![t.by] = Append(@, [seq |-> t.seq, outcome |-> outcome])]

(* The readings end in a refusal, or in the call. *)
Check(t) ==
    /\ t.stage = "checking"
    /\ \/ Reports(t, "AdapterGone")         \* or unpowered, not paired, blocked
       \/ Reports(t, "Failed")              \* a reading failed, or took too long
       \/ link /\ Reports(t, "ConnectedOtherwise")
       \/ ~link /\ Epoch(t.by) # t.seq /\ Reports(t, "Superseded")
    /\ Quiet /\ UNCHANGED bluezVars

Call(t) ==
    /\ t.stage = "checking" /\ ~link /\ Epoch(t.by) = t.seq
    /\ tasks' = (tasks \ {t}) \cup {[t EXCEPT !.stage = "calling"]}
    /\ Quiet /\ UNCHANGED <<bluezVars, results>>

(* The page brings the link up; the profiles follow. *)
Linked(t) ==
    /\ t.stage = "calling" /\ ~link /\ Len(props) < MaxSignals
    /\ link' = TRUE /\ props' = Append(props, "up")
    /\ tasks' = (tasks \ {t}) \cup {[t EXCEPT !.stage = "linked"]}
    /\ Quiet /\ UNCHANGED <<drops, results>>

Return(t) ==
    /\ \/ t.stage \in {"calling", "linked"} /\ link /\ Reports(t, "Connected")
       \/ t.stage = "calling" /\ link /\ Reports(t, "ConnectedOtherwise")
       \/ t.stage \in {"calling", "linked"} /\ Reports(t, "Failed")
       \/ t.stage = "calling" /\ Reports(t, "Busy")
    /\ Quiet /\ UNCHANGED bluezVars

Task == \E t \in tasks : Check(t) \/ Call(t) \/ Linked(t) \/ Return(t)

----------------------------------------------------------------------------
(* BlueZ, the AirPods, the other hosts and the user.  The Disconnected     *)
(* signal can be missing: its watch may be down.                           *)
LinkUp ==
    /\ ~link /\ Len(props) < MaxSignals
    /\ link' = TRUE /\ props' = Append(props, "up")
    /\ UNCHANGED drops

LinkDown(reason) ==
    /\ link /\ Len(props) < MaxSignals
    /\ link' = FALSE /\ props' = Append(props, "down")
    /\ \/ UNCHANGED drops
       \/ Len(drops) < MaxSignals /\ drops' = Append(drops, reason)

(* The watch fails, or the adapter goes. *)
WatchFails ==
    /\ Len(props) < MaxSignals
    /\ link' \in {link, FALSE} /\ props' = Append(props, "gone")
    /\ UNCHANGED drops

(* The watcher starts over after REBUILD_DELAY, on the same AirPods or on  *)
(* others.                                                                 *)
WatchStarts ==
    /\ props = <<>>
    /\ LET now == IF link' THEN "up" ELSE "down" IN
       \/ link' = link /\ props' = Append(props, now)
       \/ link' \in BOOLEAN /\ props' = props \o <<"identity", now>>
    /\ UNCHANGED drops

Environment ==
    /\ \/ LinkUp \/ WatchFails \/ WatchStarts
       \/ \E reason \in DropReasons : LinkDown(reason)
    /\ Quiet /\ UNCHANGED <<tasks, results>>

Pass ==
    /\ R!RejoinPass /\ A!AutoPass
    /\ UNCHANGED <<bluezVars, acl, taskVars, results>>

LinkNext == Supervisor \/ Task \/ Environment \/ Pass

LinkSpec == LinkInit /\ [][LinkNext]_lvars

----------------------------------------------------------------------------
LinkTypeOK ==
    /\ link \in BOOLEAN /\ acl \in BOOLEAN
    /\ props \in Seq(Signals) /\ drops \in Seq(DropReasons)
    /\ rejoin_epoch \in 0..rejoin_seq /\ auto_epoch \in 0..auto_seq
    /\ tasks \subseteq [by : Policies, seq : Nat, stage : Stages]

(* The policies together keep the promise of OnePager: no two of them have *)
(* a sequence, "because each refuses to start while the other is pending"  *)
(* (aap/session.rs 2192-2193).  The rejoin does not look; it relies on the *)
(* drop having cancelled the other.                                        *)
owner == IF R!rejoin_pending /\ A!auto_pending THEN "both"
         ELSE IF R!rejoin_pending THEN "rejoin"
         ELSE IF A!auto_pending THEN "auto" ELSE "nobody"
pending_attempt(p) == p.attempt - 1 + (IF p.in_flight THEN 1 ELSE 0)
tries == IF R!rejoin_pending THEN pending_attempt(rejoin)
         ELSE IF A!auto_pending THEN pending_attempt(auto) ELSE 0
Limit == [rejoin |-> REJOIN_ATTEMPTS, auto |-> AUTO_ATTEMPTS]

Promise == INSTANCE OnePager
OnePagerHolds == Promise!Spec

(* A rejoin calls Device1.Connect only while its sequence still stands:    *)
(* whatever cancelled it in the meantime, the epoch stops the task         *)
(* (aap/session.rs rejoin_event, spawn_rejoin).                            *)
Calls(by) == {t \in tasks : t.by = by /\ t.stage = "checking"
                              /\ [t EXCEPT !.stage = "calling"] \in tasks'}
RejoinCallsStand ==
    [][\A t \in Calls("rejoin") : rejoin.seq = t.seq /\ rejoin.in_flight]_lvars

(* autoconnect.rs:16-18: "A manual command, or a local disconnect this     *)
(* daemon did not cause, disarms the machine until the next absence.  [..] *)
(* telling this host to let go, has to stick."  While the machine is       *)
(* disarmed no auto-connect calls Device1.Connect.                         *)
DisarmedNeverCalls == [][Calls("auto") # {} => ~disarmed]_lvars

=============================================================================
