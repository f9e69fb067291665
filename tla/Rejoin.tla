------------------------------- MODULE Rejoin -------------------------------
(***************************************************************************)
(* Reconnecting after another Apple host evicted this one                  *)
(* (daemon/src/rejoin.rs): decide(state, event, now), one action per event.*)
(*                                                                         *)
(* Instants are ages frozen at the window they are compared with, as in    *)
(* module Handoff; the due time of a connect counts down.  Pass is the     *)
(* clock, Tick the supervisor's own tick.                                  *)
(*                                                                         *)
(* A 0x002E report is the hosts it lists and those of them whose link is   *)
(* up; a report that lists nobody decides the same as no report.  This     *)
(* host's own entry is only logged.  `rejoin_does` names the side effects  *)
(* of the latest event: a Connect is for the sequence in `rejoin`.  The    *)
(* published reason (MatchKind) is left out.                               *)
(***************************************************************************)
EXTENDS Integers, Sequences

CONSTANTS
    Hosts,               \* the other hosts the AirPods may list
    AppleOuis,           \* those of them with an Apple OUI
    Allowed,             \* [handoff] rejoin_after_eviction
    EVICTION_WINDOW, REJOIN_DELAY, MANUAL_QUIET, BUSY_RETRY, MAX_ATTEMPTS,
    RATE_LIMIT, LOOP_WINDOW, KNOWN_HOSTS_CAP     \* rejoin.rs, in clock units

ASSUME RejoinAssumption ==
    /\ AppleOuis \subseteq Hosts
    /\ Allowed \in BOOLEAN
    /\ EVICTION_WINDOW \in Nat /\ REJOIN_DELAY \in Nat /\ MANUAL_QUIET \in Nat
    /\ RATE_LIMIT \in Nat /\ LOOP_WINDOW \in Nat
    /\ MAX_ATTEMPTS \in Nat \ {0}
    /\ BUSY_RETRY \in [1..MAX_ATTEMPTS - 1 -> Nat]
    /\ KNOWN_HOSTS_CAP \in Nat \ {0}

VARIABLES
    handoff_enabled,
    known,              \* hosts learned from their relays, oldest first
    listed, up, report_age,
    both_in_case, last_manual, last_sequence, last_success, looped,
    rejoin,             \* the pending sequence
    rejoin_seq,
    rejoin_does

evidenceVars == <<known, listed, up, report_age, both_in_case>>
limitVars == <<last_manual, last_sequence, last_success, looped>>
rvars == <<handoff_enabled, evidenceVars, limitVars, rejoin, rejoin_seq, rejoin_does>>

Reasons == {"Remote", "Timeout", "Other"}     \* the rest decide alike
Outcomes == {"Connected", "Busy", "Failed", "NotReady"}
Effects == {"Persist", "Scheduled", "Deferred", "Skipped", "Cancelled", "Connect",
            "Retry", "Rejoined", "GaveUp", "EvictionLoop"}

NoRejoin == [seq |-> 0, attempt |-> 0, due |-> 0, in_flight |-> FALSE]
rejoin_pending == rejoin # NoRejoin

Learned(h) == \E i \in DOMAIN known : known[i] = h
match_host(h) == Learned(h) \/ h \in AppleOuis

(* The longest wait a pending connect can have. *)
Waits == 0 .. RATE_LIMIT + REJOIN_DELAY

----------------------------------------------------------------------------
no_report_Stale == UNCHANGED <<listed, up, report_age>>
no_report == listed' = {} /\ up' = {} /\ report_age' = EVICTION_WINDOW + 1

(* Drop the pending sequence; "Cancelled" only if there was one. *)
Cancelled == IF rejoin_pending THEN {"Cancelled"} ELSE {}
cancel == rejoin' = NoRejoin /\ rejoin_does' = Cancelled
keep == UNCHANGED rejoin /\ rejoin_does' = {}

device_report_evidence(reason) ==
    \/ reason = "Remote" /\ report_age <= EVICTION_WINDOW /\ \E h \in listed : match_host(h)
    \/ \E h \in up : match_host(h)

qualify(reason, lid_closed, facts_ok) ==
    /\ handoff_enabled /\ Allowed
    /\ reason \in {"Remote", "Timeout"}
    /\ ~looped
    /\ last_manual = MANUAL_QUIET
    /\ device_report_evidence(reason)
    /\ ~both_in_case /\ ~lid_closed /\ facts_ok

defer_None == 0
defer == RATE_LIMIT - last_sequence

loops_Never(reason) == FALSE
loops(reason) ==
    /\ handoff_enabled /\ Allowed /\ ~looped
    /\ reason \in {"Remote", "Timeout"}
    /\ last_success < LOOP_WINDOW

----------------------------------------------------------------------------
RejoinInit ==
    /\ handoff_enabled \in BOOLEAN
    /\ known \in {<<>>} \cup {<<h>> : h \in Hosts}        \* the saved list
    /\ listed = {} /\ up = {} /\ report_age = EVICTION_WINDOW + 1
    /\ both_in_case = FALSE
    /\ last_manual = MANUAL_QUIET /\ last_sequence = RATE_LIMIT
    /\ last_success = LOOP_WINDOW /\ looped = FALSE
    /\ rejoin = NoRejoin /\ rejoin_seq = 0 /\ rejoin_does = {}

ReportsDevices(L, U) ==
    /\ listed' = L /\ up' = U /\ report_age' = 0
    /\ keep
    /\ UNCHANGED <<handoff_enabled, known, both_in_case, limitVars, rejoin_seq>>

remember(h) ==
    IF Len(known) < KNOWN_HOSTS_CAP THEN Append(known, h) ELSE Append(Tail(known), h)

Relay(h) ==
    /\ IF Learned(h)
       THEN UNCHANGED known /\ rejoin_does' = {}
       ELSE known' = remember(h) /\ rejoin_does' = {"Persist"}
    /\ UNCHANGED <<handoff_enabled, listed, up, report_age, both_in_case, limitVars,
                   rejoin, rejoin_seq>>

Ear(both) ==
    /\ both_in_case' = both
    /\ IF both THEN cancel ELSE keep
    /\ UNCHANGED <<handoff_enabled, known, listed, up, report_age, limitVars, rejoin_seq>>

(* Device1.Disconnected: any drop ends the pending sequence; this one may  *)
(* be a ping-pong with the other host, or start a sequence of its own,     *)
(* which waits out the rate limit.                                         *)
Disconnected(reason, lid_closed, facts_ok) ==
    /\ \/ /\ loops(reason)
          /\ looped' = TRUE
          /\ rejoin' = NoRejoin /\ rejoin_does' = Cancelled \cup {"EvictionLoop"}
          /\ UNCHANGED <<listed, up, report_age, last_sequence, rejoin_seq>>
       \/ /\ ~loops(reason) /\ ~qualify(reason, lid_closed, facts_ok)
          /\ rejoin' = NoRejoin /\ rejoin_does' = Cancelled \cup {"Skipped"}
          /\ UNCHANGED <<listed, up, report_age, last_sequence, looped, rejoin_seq>>
       \/ /\ ~loops(reason) /\ qualify(reason, lid_closed, facts_ok)
          /\ rejoin_seq' = rejoin_seq + 1
          /\ last_sequence' = 0
          /\ no_report
          /\ rejoin' = [seq |-> rejoin_seq + 1, attempt |-> 1,
                        due |-> defer + REJOIN_DELAY, in_flight |-> FALSE]
          /\ rejoin_does' = Cancelled \cup {IF defer = 0 THEN "Scheduled" ELSE "Deferred"}
          /\ UNCHANGED looped
    /\ UNCHANGED <<handoff_enabled, known, both_in_case, last_manual, last_success>>

(* The link is up: most likely this rejoin's own connect when one is in    *)
(* flight.  A new link session (the session had no link) forgets the       *)
(* report: nothing observed before this link describes it.                 *)
Connected_Keeps(new_session) ==
    /\ keep
    /\ IF new_session THEN no_report ELSE UNCHANGED <<listed, up, report_age>>
    /\ UNCHANGED <<handoff_enabled, known, both_in_case, limitVars, rejoin_seq>>
Connected(new_session) ==
    /\ IF rejoin.in_flight THEN keep ELSE cancel
    /\ IF new_session THEN no_report ELSE UNCHANGED <<listed, up, report_age>>
    /\ UNCHANGED <<handoff_enabled, known, both_in_case, limitVars, rejoin_seq>>

AdapterGone ==
    /\ cancel
    /\ UNCHANGED <<handoff_enabled, evidenceVars, limitVars, rejoin_seq>>

(* The watcher points at other AirPods, or at another adapter. *)
IdentityChanged ==
    /\ no_report
    /\ both_in_case' = FALSE /\ last_success' = LOOP_WINDOW /\ looped' = FALSE
    /\ cancel
    /\ UNCHANGED <<handoff_enabled, known, last_manual, last_sequence, rejoin_seq>>

(* An explicit reconnect or connect-once. *)
ManualCommand ==
    /\ last_manual' = 0 /\ looped' = FALSE
    /\ cancel
    /\ UNCHANGED <<handoff_enabled, evidenceVars, last_sequence, last_success, rejoin_seq>>

SetEnabled(b) ==
    /\ handoff_enabled' = b
    /\ IF b THEN keep ELSE cancel
    /\ UNCHANGED <<evidenceVars, limitVars, rejoin_seq>>

Due == rejoin_pending /\ ~rejoin.in_flight /\ rejoin.due = 0

RejoinTick ==
    /\ IF ~Due THEN keep
       ELSE IF ~(handoff_enabled /\ Allowed) THEN cancel
       ELSE rejoin' = [rejoin EXCEPT !.in_flight = TRUE] /\ rejoin_does' = {"Connect"}
    /\ UNCHANGED <<handoff_enabled, evidenceVars, limitVars, rejoin_seq>>

may_retry == rejoin.attempt < MAX_ATTEMPTS
next_attempt_Same == rejoin.attempt
next_attempt == rejoin.attempt + 1

(* The result of a connect.  One of an earlier sequence changes nothing. *)
ConnectFinished(seq, outcome) ==
    /\ \/ /\ rejoin.seq # seq \/ ~rejoin.in_flight
          /\ keep
          /\ UNCHANGED last_success
       \/ /\ rejoin.seq = seq /\ rejoin.in_flight
          /\ outcome = "Connected"
          /\ rejoin' = NoRejoin /\ rejoin_does' = {"Rejoined"}
          /\ last_success' = 0
       \/ /\ rejoin.seq = seq /\ rejoin.in_flight
          /\ outcome = "Busy" /\ may_retry
          /\ rejoin' = [rejoin EXCEPT !.attempt = next_attempt, !.in_flight = FALSE,
                                      !.due = BUSY_RETRY[rejoin.attempt]]
          /\ rejoin_does' = {"Retry"}
          /\ UNCHANGED last_success
       \/ /\ rejoin.seq = seq /\ rejoin.in_flight
          /\ outcome \in {"Failed", "NotReady"} \/ (outcome = "Busy" /\ ~may_retry)
          /\ rejoin' = NoRejoin
          /\ rejoin_does' = {IF outcome = "NotReady" THEN "Cancelled" ELSE "GaveUp"}
          /\ UNCHANGED last_success
    /\ UNCHANGED <<handoff_enabled, evidenceVars, last_manual, last_sequence, looped,
                   rejoin_seq>>

AgedTo(age, window) == IF age = window THEN age ELSE age + 1

RejoinPass ==
    /\ report_age' = AgedTo(report_age, EVICTION_WINDOW + 1)
    /\ last_manual' = AgedTo(last_manual, MANUAL_QUIET)
    /\ last_sequence' = AgedTo(last_sequence, RATE_LIMIT)
    /\ last_success' = AgedTo(last_success, LOOP_WINDOW)
    /\ rejoin' = IF rejoin.due > 0 THEN [rejoin EXCEPT !.due = @ - 1] ELSE rejoin
    /\ rejoin_does' = {}
    /\ UNCHANGED <<handoff_enabled, known, listed, up, both_in_case, looped, rejoin_seq>>

----------------------------------------------------------------------------
(* Alone, the machine meets every order of events.  A result comes for the *)
(* connect in flight; module LinkRecovery adds the late ones.              *)
RejoinNext ==
    \/ \E L \in SUBSET Hosts : \E U \in SUBSET L : ReportsDevices(L, U)
    \/ \E h \in Hosts : Relay(h)
    \/ \E b \in BOOLEAN : Ear(b)
    \/ \E reason \in Reasons, lid_closed, facts_ok \in BOOLEAN :
           Disconnected(reason, lid_closed, facts_ok)
    \/ AdapterGone \/ IdentityChanged \/ ManualCommand
    \/ \E b \in BOOLEAN : Connected(b) \/ SetEnabled(b)
    \/ RejoinTick
    \/ rejoin.in_flight /\ \E outcome \in Outcomes : ConnectFinished(rejoin.seq, outcome)
    \/ RejoinPass

RejoinSpec == RejoinInit /\ [][RejoinNext]_rvars

----------------------------------------------------------------------------
RejoinTypeOK ==
    /\ handoff_enabled \in BOOLEAN
    /\ known \in Seq(Hosts) /\ Len(known) <= KNOWN_HOSTS_CAP
    /\ listed \subseteq Hosts /\ up \subseteq listed
    /\ report_age \in 0 .. EVICTION_WINDOW + 1
    /\ both_in_case \in BOOLEAN /\ looped \in BOOLEAN
    /\ last_manual \in 0..MANUAL_QUIET /\ last_sequence \in 0..RATE_LIMIT
    /\ last_success \in 0..LOOP_WINDOW
    /\ rejoin_seq \in Nat
    /\ rejoin_does \subseteq Effects
    /\ rejoin \in [seq : Nat, attempt : 0..MAX_ATTEMPTS, due : Nat, in_flight : BOOLEAN]

=============================================================================
