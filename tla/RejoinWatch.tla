---------------------------- MODULE RejoinWatch ----------------------------
(***************************************************************************)
(* Module Rejoin watched by history variables: why this host is away, what *)
(* it has paged for, and when, measured apart from the machine's own       *)
(* bookkeeping.                                                            *)
(***************************************************************************)
EXTENDS Rejoin

VARIABLES
    wanted,         \* the latest drop was an eviction, and no user, connection, new
                    \* identity, case or switch overrode it since
    pages,          \* connects started since the latest disconnect
    decided,        \* age of the latest decision to rejoin
    spacing,        \* how long before it the decision before that one was
    since_first,    \* age of the latest first page of a sequence
    since_rejoined, \* age of the latest successful rejoin to these AirPods
    ping_pong,      \* evicted again within LOOP_WINDOW of it, and nobody stepped in
    told            \* a report of this link session is not used up yet

watchVars == <<wanted, pages, decided, spacing, since_first, since_rejoined, ping_pong, told>>
rwvars == <<rvars, watchVars>>

SPACING == RATE_LIMIT + REJOIN_DELAY
Evictions == {"Remote", "Timeout"}
Pages == "Connect" \in rejoin_does'
Decides == rejoin_does' \cap {"Scheduled", "Deferred"} # {}

(* What the history keeps of an event, by kind. *)
Overriding(kind) ==
    \/ kind \in {"dropped", "override", "manual", "identity"}
    \/ kind \in {"up", "session"} /\ ~rejoin.in_flight

WatchInit ==
    /\ RejoinInit
    /\ wanted = FALSE /\ pages = 0 /\ decided = SPACING /\ spacing = SPACING
    /\ since_first = RATE_LIMIT /\ since_rejoined = LOOP_WINDOW
    /\ ping_pong = FALSE /\ told = FALSE

Watch(kind) ==
    LET Measured(age, window, restarts) ==
            IF restarts THEN 0 ELSE IF kind = "pass" THEN AgedTo(age, window) ELSE age
    IN
    /\ wanted' = (kind = "evicted" \/ (wanted /\ ~Overriding(kind)))
    /\ pages' = (IF kind \in {"evicted", "dropped"} THEN 0 ELSE pages) + (IF Pages THEN 1 ELSE 0)
    /\ decided' = Measured(decided, SPACING, Decides)
    /\ spacing' = IF Decides THEN decided ELSE spacing
    /\ since_first' = Measured(since_first, RATE_LIMIT, Pages /\ rejoin.attempt = 1)
    /\ since_rejoined' = IF kind = "identity" THEN LOOP_WINDOW
                         ELSE Measured(since_rejoined, LOOP_WINDOW, "Rejoined" \in rejoin_does')
    /\ ping_pong' = (kind \notin {"manual", "identity"} /\
                        (ping_pong \/ (kind = "evicted" /\ handoff_enabled /\ Allowed
                                         /\ since_rejoined < LOOP_WINDOW)))
    /\ told' = (kind = "report" \/ (told /\ kind \notin {"session", "identity"} /\ ~Decides))

WatchNext ==
    \/ \E reason \in Reasons, lid_closed, facts_ok \in BOOLEAN :
           /\ Disconnected(reason, lid_closed, facts_ok)
           /\ Watch(IF reason \in Evictions THEN "evicted" ELSE "dropped")
    \/ \E b \in BOOLEAN : Connected(b) /\ Watch(IF b THEN "session" ELSE "up")
    \/ AdapterGone /\ Watch("override")
    \/ \E b \in BOOLEAN : Ear(b) /\ Watch(IF b THEN "override" ELSE "other")
    \/ \E b \in BOOLEAN : SetEnabled(b) /\ Watch(IF b THEN "other" ELSE "override")
    \/ IdentityChanged /\ Watch("identity")
    \/ ManualCommand /\ Watch("manual")
    \/ \E L \in SUBSET Hosts : \E U \in SUBSET L : ReportsDevices(L, U) /\ Watch("report")
    \/ \E h \in Hosts : Relay(h) /\ Watch("other")
    \/ RejoinTick /\ Watch("other")
    \/ \E outcome \in Outcomes :
           rejoin.in_flight /\ ConnectFinished(rejoin.seq, outcome) /\ Watch("other")
    \/ RejoinPass /\ Watch("pass")

WatchSpec == WatchInit /\ [][WatchNext]_rwvars

----------------------------------------------------------------------------
(* This host pages the AirPods only to answer an eviction, or a link that  *)
(* died on its own, which nothing has overridden since: no user command,   *)
(* no other connection, no new identity, no AirPods put away in their case *)
(* and no handoff switched off (rejoin.rs 65-67 and every cancel), however *)
(* long the rate limit or the busy retries make it wait.                   *)
PageAnswersEviction == [][Pages => wanted /\ handoff_enabled /\ ~both_in_case]_rwvars

(* One drop is paged for at most MAX_ATTEMPTS times, busy retries included *)
(* (rejoin.rs 92-93).                                                      *)
AttemptsBounded == pages <= MAX_ATTEMPTS

(* A sequence pages no sooner than REJOIN_DELAY after its drop, and no     *)
(* sooner than RATE_LIMIT + REJOIN_DELAY after the decision of the         *)
(* sequence before it, however that one ended (rejoin.rs 94-96, qualify). *)
SequencesSpaced ==
    [][Pages /\ rejoin.attempt = 1 =>
            decided >= REJOIN_DELAY /\ decided + spacing >= SPACING]_rwvars

(* rejoin.rs:53-54: "[`RATE_LIMIT`] keeps this host from paging more than  *)
(* once a minute".  First pages of two sequences are RATE_LIMIT apart.     *)
OnePageAMinute ==
    [][Pages /\ rejoin.attempt = 1 => since_first = RATE_LIMIT]_rwvars

(* Evicted again within LOOP_WINDOW of its own rejoin, this host leaves    *)
(* the AirPods alone until the user steps in or the AirPods change         *)
(* (rejoin.rs 60-61 and 97-98).                                           *)
PingPongStops == [][Pages => ~ping_pong]_rwvars

(* Every sequence rests on a report of the link session that just ended,   *)
(* and one report is evidence for one sequence only (rejoin.rs 43-44).     *)
EvidenceUsedOnce == [][Decides => told]_rwvars

=============================================================================
