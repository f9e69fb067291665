---------------------------- MODULE AutoConnect ----------------------------
(***************************************************************************)
(* Paging the AirPods when their advert appears after an absence, and,     *)
(* when no advert comes, on a bounded schedule after a drop this host did  *)
(* not ask for (daemon/src/autoconnect.rs): decide(state, event, now), one *)
(* action per event.                                                       *)
(*                                                                         *)
(* Ages as in module Handoff.  last_seen frozen at SEEN_WINDOW also stands *)
(* for "never", and fallback_from past the budget for "does not apply":    *)
(* both decide alike.  fallback_next and a pending due time count down.    *)
(* rejoin_pending is an argument, because the session sets it from the     *)
(* rejoin machine before every event.  The field `episode` is never read   *)
(* and left out.  `auto_does` names the side effects of the latest event.  *)
(***************************************************************************)
EXTENDS Integers

CONSTANTS
    AutoEnabled,                      \* [autoconnect] enabled
    SETTLE, ABSENCE,                  \* settle_seconds, absence_seconds
    FALLBACK_FIRST, FALLBACK_INTERVAL, FALLBACK_BUDGET,
    ADVERT_FRESH, RETRY_BACKOFF,
    AUTO_ATTEMPTS                     \* MAX_ATTEMPTS of autoconnect.rs

ASSUME AutoAssumption ==
    /\ AutoEnabled \in BOOLEAN
    /\ SETTLE \in Nat /\ ABSENCE \in Nat /\ ADVERT_FRESH \in Nat
    /\ FALLBACK_FIRST \in Nat /\ FALLBACK_INTERVAL \in Nat /\ FALLBACK_BUDGET \in Nat
    /\ AUTO_ATTEMPTS \in Nat \ {0}
    /\ RETRY_BACKOFF \in [1..AUTO_ATTEMPTS - 1 -> Nat]

VARIABLES
    connected, disarmed,
    last_seen,          \* age of the latest advert or link change
    auto,               \* the pending sequence
    auto_seq,
    fallback_start, fallback_from, fallback_next,
    auto_does

presenceVars == <<connected, disarmed, last_seen>>
fallbackVars == <<fallback_start, fallback_from, fallback_next>>
avars == <<presenceVars, auto, auto_seq, fallbackVars, auto_does>>

AutoReasons == {"Remote", "Timeout", "Local", "Unknown", "Other"}
AutoOutcomes == {"Connected", "Busy", "Failed", "AdapterGone", "ConnectedOtherwise",
                 "Superseded"}
AutoEffects == {"Rearmed", "EpisodeStarted", "Skipped", "Cancelled", "Disarmed", "Connect",
                "FallbackPage", "Connected", "Retry", "GaveUp", "FallbackFailed"}

NotDue == -1            \* fallback_next: None
SEEN_WINDOW == IF ABSENCE > ADVERT_FRESH THEN ABSENCE ELSE ADVERT_FRESH + 1
NoFallback == FALLBACK_BUDGET + 1

NoAuto == [seq |-> 0, attempt |-> 0, due |-> 0, in_flight |-> FALSE, fallback |-> FALSE]
auto_pending == auto # NoAuto

----------------------------------------------------------------------------
(* The first event of a daemon that starts with the AirPods away anchors   *)
(* the fallback.                                                           *)
away == IF fallback_start /\ ~connected THEN 0 ELSE fallback_from
anchored == fallback_start' = FALSE /\ fallback_from' = away /\ UNCHANGED fallback_next
end_fallback == fallback_start' = FALSE /\ fallback_from' = NoFallback /\ fallback_next' = NotDue
start_fallback == fallback_start' = FALSE /\ fallback_from' = 0 /\ fallback_next' = NotDue

AutoCancelled == IF auto_pending THEN {"Cancelled"} ELSE {}
disarm_Once == disarmed' = disarmed
disarm == disarmed' = TRUE
Disarmed == IF disarmed THEN {} ELSE {"Disarmed"}

absent == last_seen >= ABSENCE
stale_adverts_Never == FALSE
stale_adverts == last_seen > ADVERT_FRESH

AutoInit ==
    /\ connected = FALSE /\ disarmed = FALSE /\ last_seen = SEEN_WINDOW
    /\ auto = NoAuto /\ auto_seq = 0
    /\ fallback_start = TRUE /\ fallback_from = NoFallback /\ fallback_next = NotDue
    /\ auto_does = {}

(* A qualifying advert; a weak one is another room. *)
Seen(near, rejoin_pending) ==
    /\ anchored
    /\ \/ /\ ~AutoEnabled \/ ~near
          /\ auto_does' = IF AutoEnabled THEN {"Skipped"} ELSE {}
          /\ UNCHANGED <<presenceVars, auto, auto_seq>>
       \/ /\ AutoEnabled /\ near
          /\ auto_pending \/ ~absent
          /\ last_seen' = 0
          /\ auto_does' = {}
          /\ UNCHANGED <<connected, disarmed, auto, auto_seq>>
       \/ /\ AutoEnabled /\ near /\ ~auto_pending /\ absent
          /\ connected \/ rejoin_pending
          /\ last_seen' = 0 /\ disarmed' = FALSE
          /\ auto_does' = {"Skipped"} \cup (IF disarmed THEN {"Rearmed"} ELSE {})
          /\ UNCHANGED <<connected, auto, auto_seq>>
       \/ /\ AutoEnabled /\ near /\ ~auto_pending /\ absent
          /\ ~connected /\ ~rejoin_pending
          /\ last_seen' = 0 /\ disarmed' = FALSE
          /\ auto_seq' = auto_seq + 1
          /\ auto' = [seq |-> auto_seq + 1, attempt |-> 1, due |-> SETTLE,
                      in_flight |-> FALSE, fallback |-> FALSE]
          /\ auto_does' = {"EpisodeStarted"} \cup (IF disarmed THEN {"Rearmed"} ELSE {})
          /\ UNCHANGED connected

fallback_due_NoBudget == away >= FALLBACK_FIRST
fallback_due ==
    /\ FALLBACK_BUDGET > 0
    /\ away <= FALLBACK_BUDGET
    /\ IF fallback_next = NotDue THEN away >= FALLBACK_FIRST ELSE fallback_next = 0

(* Page without an advert, if this away period still has a slot for it. *)
fallback_page(rejoin_pending) ==
    IF AutoEnabled /\ ~connected /\ ~disarmed /\ ~rejoin_pending /\ fallback_due
    THEN /\ auto_seq' = auto_seq + 1
         /\ fallback_start' = FALSE /\ fallback_from' = away
         /\ fallback_next' = FALLBACK_INTERVAL
         /\ auto' = [seq |-> auto_seq + 1, attempt |-> 1, due |-> 0, in_flight |-> TRUE,
                     fallback |-> TRUE]
         /\ auto_does' = {"FallbackPage", "Connect"}
    ELSE anchored /\ UNCHANGED <<auto, auto_seq>> /\ auto_does' = {}

must_cancel(rejoin_pending) ==
    \/ ~AutoEnabled \/ connected \/ rejoin_pending
    \/ auto.attempt > 1 /\ stale_adverts

AutoTick(rejoin_pending) ==
    /\ \/ ~auto_pending /\ fallback_page(rejoin_pending)
       \/ /\ auto_pending /\ (auto.in_flight \/ auto.due > 0)
          /\ anchored /\ auto_does' = {}
          /\ UNCHANGED <<auto, auto_seq>>
       \/ /\ auto_pending /\ ~auto.in_flight /\ auto.due = 0
          /\ must_cancel(rejoin_pending)
          /\ anchored /\ auto' = NoAuto /\ auto_does' = {"Cancelled"}
          /\ UNCHANGED auto_seq
       \/ /\ auto_pending /\ ~auto.in_flight /\ auto.due = 0
          /\ ~must_cancel(rejoin_pending)
          /\ anchored /\ auto' = [auto EXCEPT !.in_flight = TRUE]
          /\ auto_does' = {"Connect"}
          /\ UNCHANGED auto_seq
    /\ UNCHANGED presenceVars

(* The link is up, by whatever means.  A connect in flight is taken to be  *)
(* what brought it up.                                                     *)
LocalConnected ==
    /\ connected' = TRUE /\ last_seen' = 0
    /\ end_fallback
    /\ auto' = NoAuto
    /\ auto_does' = IF auto.in_flight THEN {"Connected"} ELSE AutoCancelled
    /\ UNCHANGED <<disarmed, auto_seq>>

(* The link is down.  A drop by this host is the user's: disarm. *)
LocalDisconnected(reason) ==
    /\ connected' = FALSE /\ last_seen' = 0
    /\ auto' = NoAuto
    /\ \/ reason \in {"Remote", "Timeout"} /\ start_fallback
       \/ reason = "Unknown" /\ anchored
       \/ reason \in {"Local", "Other"} /\ end_fallback
    /\ IF reason = "Local"
       THEN disarm /\ auto_does' = AutoCancelled \cup Disarmed
       ELSE UNCHANGED disarmed /\ auto_does' = AutoCancelled
    /\ UNCHANGED auto_seq

(* An explicit reconnect or connect-once. *)
AutoManualCommand ==
    /\ disarm
    /\ auto' = NoAuto
    /\ auto_does' = AutoCancelled \cup Disarmed
    /\ anchored
    /\ UNCHANGED <<connected, last_seen, auto_seq>>

last_attempt == auto.attempt = AUTO_ATTEMPTS
next_auto_attempt_Same == auto.attempt
next_auto_attempt == auto.attempt + 1

(* The result of a connect.  One of an earlier sequence changes nothing. *)
AutoFinished(seq, outcome) ==
    LET current == auto.seq = seq /\ auto.in_flight
        gone == outcome \in {"ConnectedOtherwise", "Superseded"}
    IN
    /\ \/ ~current /\ anchored /\ auto_does' = {} /\ UNCHANGED <<connected, auto>>
       \/ /\ current /\ outcome = "Connected"
          /\ auto' = NoAuto /\ connected' = TRUE
          /\ auto_does' = {"Connected"}
          /\ IF auto.fallback THEN end_fallback ELSE anchored
       \/ /\ current /\ gone
          /\ auto' = NoAuto
          /\ auto_does' = {"Cancelled"}
          /\ IF auto.fallback /\ outcome = "ConnectedOtherwise" THEN end_fallback ELSE anchored
          /\ UNCHANGED connected
       \/ /\ current /\ auto.fallback /\ ~gone /\ outcome # "Connected"
          /\ auto' = NoAuto /\ auto_does' = {"FallbackFailed"}
          /\ anchored /\ UNCHANGED connected
       \/ /\ current /\ ~auto.fallback /\ ~gone /\ outcome # "Connected"
          /\ IF last_attempt
             THEN auto' = NoAuto /\ auto_does' = {"GaveUp"}
             ELSE /\ auto' = [auto EXCEPT !.attempt = next_auto_attempt, !.in_flight = FALSE,
                                          !.due = RETRY_BACKOFF[auto.attempt]]
                  /\ auto_does' = {"Retry"}
          /\ anchored /\ UNCHANGED connected
    /\ UNCHANGED <<disarmed, last_seen, auto_seq>>

Later(age, window) == IF age = window THEN age ELSE age + 1
Sooner(wait) == IF wait > 0 THEN wait - 1 ELSE wait

AutoPass ==
    /\ last_seen' = Later(last_seen, SEEN_WINDOW)
    /\ fallback_from' = Later(fallback_from, NoFallback)
    /\ fallback_next' = Sooner(fallback_next)
    /\ auto' = [auto EXCEPT !.due = Sooner(@)]
    /\ auto_does' = {}
    /\ UNCHANGED <<connected, disarmed, auto_seq, fallback_start>>

----------------------------------------------------------------------------
(* Alone, the machine meets every order of events, and the result of the   *)
(* connect in flight; module LinkRecovery adds the late ones.              *)
AutoNext ==
    \/ \E near, rejoin_pending \in BOOLEAN : Seen(near, rejoin_pending)
    \/ \E rejoin_pending \in BOOLEAN : AutoTick(rejoin_pending)
    \/ LocalConnected
    \/ \E reason \in AutoReasons : LocalDisconnected(reason)
    \/ AutoManualCommand
    \/ auto.in_flight /\ \E outcome \in AutoOutcomes : AutoFinished(auto.seq, outcome)
    \/ AutoPass

AutoSpec == AutoInit /\ [][AutoNext]_avars

AutoTypeOK ==
    /\ connected \in BOOLEAN /\ disarmed \in BOOLEAN /\ fallback_start \in BOOLEAN
    /\ last_seen \in 0..SEEN_WINDOW
    /\ fallback_from \in 0..NoFallback
    /\ fallback_next \in 0..FALLBACK_INTERVAL \cup {NotDue}
    /\ auto_seq \in Nat
    /\ auto_does \subseteq AutoEffects
    /\ auto \in [seq : Nat, attempt : 0..AUTO_ATTEMPTS, due : Nat, in_flight : BOOLEAN,
                 fallback : BOOLEAN]

=============================================================================
