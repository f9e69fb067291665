-------------------------- MODULE AutoConnectWatch --------------------------
(***************************************************************************)
(* Module AutoConnect watched by history variables: what was heard of the  *)
(* AirPods, what the user decided and what was paged, measured apart from  *)
(* the machine's own bookkeeping.                                          *)
(***************************************************************************)
EXTENDS AutoConnect

VARIABLES
    vetoed,         \* a command or a local disconnect stands, no absence since
    silent,         \* age of the latest near advert or link change
    heard,          \* age of the latest near advert
    arrival,        \* the AirPods were heard after an absence, nothing happened since
    away_for,       \* age of the drop, or of the start, this host is away from
    since_page      \* age of the latest fallback page of this away period

autoWatch == <<vetoed, silent, heard, arrival, away_for, since_page>>
awvars == <<avars, autoWatch>>

AutoPages == "Connect" \in auto_does'
FallbackPages == "FallbackPage" \in auto_does'

AutoWatchInit ==
    /\ AutoInit
    /\ vetoed = FALSE /\ silent = ABSENCE /\ heard = ADVERT_FRESH + 1
    /\ arrival = FALSE
    /\ away_for = NoFallback /\ since_page = FALLBACK_INTERVAL

(* What the history keeps of an event, by kind. *)
AutoWatchStep(kind) ==
    LET Measured(age, window, restarts) ==
            IF restarts THEN 0 ELSE IF kind = "pass" THEN Later(age, window) ELSE age
        away_now == IF fallback_start /\ kind # "pass" THEN 0 ELSE away_for
    IN
    /\ vetoed' = (kind \in {"manual", "local drop"}
                    \/ (vetoed /\ ~(kind = "advert" /\ silent = ABSENCE)))
    /\ silent' = Measured(silent, ABSENCE,
                          kind \in {"advert", "up", "eviction", "local drop", "other drop",
                                   "drop"})
    /\ heard' = Measured(heard, ADVERT_FRESH + 1, kind = "advert")
    /\ arrival' = IF kind = "advert" THEN arrival \/ silent = ABSENCE
                  ELSE arrival /\ kind \in {"pass", "tick", "weak", "result"}
    /\ away_for' = IF kind = "eviction" THEN 0
                   ELSE IF kind \in {"up", "local drop", "other drop"} THEN NoFallback
                   ELSE IF kind = "pass" THEN Later(away_for, NoFallback) ELSE away_now
    /\ since_page' = IF kind = "eviction" THEN FALLBACK_INTERVAL
                     ELSE Measured(since_page, FALLBACK_INTERVAL, FallbackPages)

DropKind(reason) ==
    IF reason \in {"Remote", "Timeout"} THEN "eviction"
    ELSE IF reason = "Local" THEN "local drop"
    ELSE IF reason = "Other" THEN "other drop" ELSE "drop"

AutoWatchNext ==
    \/ \E near, rejoin_pending \in BOOLEAN :
           Seen(near, rejoin_pending) /\ AutoWatchStep(IF near THEN "advert" ELSE "weak")
    \/ \E rejoin_pending \in BOOLEAN : AutoTick(rejoin_pending) /\ AutoWatchStep("tick")
    \/ LocalConnected /\ AutoWatchStep("up")
    \/ \E reason \in AutoReasons :
           LocalDisconnected(reason) /\ AutoWatchStep(DropKind(reason))
    \/ AutoManualCommand /\ AutoWatchStep("manual")
    \/ \E outcome \in AutoOutcomes :
           auto.in_flight /\ AutoFinished(auto.seq, outcome) /\ AutoWatchStep("result")
    \/ AutoPass /\ AutoWatchStep("pass")

AutoWatchSpec == AutoWatchInit /\ [][AutoWatchNext]_awvars

----------------------------------------------------------------------------
(* Telling this host to let go, or to connect, sticks: after a manual      *)
(* command or a local disconnect nothing pages by itself, advert or        *)
(* fallback, until the AirPods were silent for the whole absence and heard *)
(* again (autoconnect.rs 16-18).                                           *)
UserDecisionSticks == [][AutoPages => ~vetoed]_awvars

(* An advert only pages as an arrival: the first connect of a sequence     *)
(* follows an advert that ended an absence, with no link or command since, *)
(* and a retry needs one heard within ADVERT_FRESH (autoconnect.rs 13-15,  *)
(* 78-80).                                                                 *)
AdvertPageNeedsArrival ==
    [][AutoPages /\ ~FallbackPages =>
            arrival /\ (auto.attempt > 1 => heard <= ADVERT_FRESH)]_awvars

(* Without an advert this host pages only inside the budget of a drop it   *)
(* did not ask for (or of its own start), not before FALLBACK_FIRST, and   *)
(* at most once per FALLBACK_INTERVAL (autoconnect.rs 22-30).              *)
FallbackBounded ==
    [][FallbackPages =>
            /\ (IF fallback_start THEN 0 ELSE away_for) \in FALLBACK_FIRST .. FALLBACK_BUDGET
            /\ since_page = FALLBACK_INTERVAL]_awvars

=============================================================================
