--------------------------- MODULE RecoveryProofs ---------------------------
(***************************************************************************)
(* Proofs about the two reconnect policies at work together, for any       *)
(* hosts, delays, attempts, drop reasons and signals on their way: that    *)
(* they implement OnePager, and that no superseded rejoin pages.           *)
(*                                                                         *)
(* PagerInv is what keeps them apart: a pending rejoin has found handoff   *)
(* enabled, so no tick can cancel it and let a fallback page in the same   *)
(* wake, and has cancelled the auto-connect.  CallInv follows the connects *)
(* of the rejoin: one is out for a sequence at a time, and the epoch names *)
(* a task only while its sequence waits for it.  Where the code leaves the *)
(* epoch standing, after an answer, no task of that sequence is left.      *)
(***************************************************************************)
EXTENDS LinkRecovery, TLAPS

RejoinSequence == [seq : Nat \ {0}, attempt : 1..REJOIN_ATTEMPTS, due : Nat, in_flight : BOOLEAN]
AutoSequence == [seq : Nat \ {0}, attempt : 1..AUTO_ATTEMPTS, due : Nat, in_flight : BOOLEAN,
                 fallback : BOOLEAN]

PagerInv ==
    /\ rejoin_seq \in Nat /\ auto_seq \in Nat /\ last_sequence \in 0..RATE_LIMIT
    /\ rejoin = R!NoRejoin \/ rejoin \in RejoinSequence
    /\ auto = A!NoAuto \/ auto \in AutoSequence
    /\ rejoin # R!NoRejoin => handoff_enabled /\ Allowed /\ auto = A!NoAuto

LEMMA PagerStart == LinkInit => PagerInv /\ Promise!Init
<1> SUFFICES ASSUME LinkInit PROVE PagerInv /\ Promise!Init
  OBVIOUS
<1>1. rejoin = R!NoRejoin /\ auto = A!NoAuto /\ rejoin_seq = 0 /\ auto_seq = 0 /\ last_sequence = RATE_LIMIT
  BY DEF LinkInit, R!RejoinInit, A!AutoInit
<1>2. PagerInv
  BY <1>1, PoliciesAssumption DEF PagerInv
<1>3. Promise!Init
  BY <1>1 DEF Promise!Init, owner, tries, R!rejoin_pending, A!auto_pending
<1> QED BY <1>2, <1>3

(* What a wake that starts, pages and retries nothing does to a policy. *)
RejoinStays == rejoin' = rejoin \/ rejoin' = R!NoRejoin
AutoStays == auto' = auto \/ auto' = A!NoAuto

LEMMA NobodyStarts ==
    ASSUME PagerInv, RejoinStays, AutoStays
    PROVE  [Promise!Next]_<<owner, tries>>
<1> USE DEF owner, tries, R!rejoin_pending, A!auto_pending, RejoinStays, AutoStays
<1>1. CASE rejoin # R!NoRejoin /\ rejoin' = R!NoRejoin
  BY <1>1 DEF PagerInv, Promise!Next, Promise!End
<1>2. CASE rejoin # R!NoRejoin /\ rejoin' = rejoin
  BY <1>2 DEF PagerInv
<1>3. CASE rejoin = R!NoRejoin /\ auto # A!NoAuto /\ auto' = A!NoAuto
  BY <1>3 DEF PagerInv, Promise!Next, Promise!End
<1>4. CASE rejoin = R!NoRejoin /\ auto' = auto
  BY <1>4 DEF PagerInv
<1> QED BY <1>1, <1>2, <1>3, <1>4

----------------------------------------------------------------------------
(* What each event of the two machines does to its sequence. *)
Unmoved == UNCHANGED <<rejoin_seq, last_sequence>>
Told == rejoin_does' \cap {"Cancelled", "Connect"}
Keeps == rejoin' = rejoin /\ Told = {}
Ends == rejoin' = R!NoRejoin /\ Told = R!Cancelled

LEMMA CancelEnds == R!cancel => Ends
BY DEF R!cancel, R!Cancelled, Ends, Told

LEMMA KeepKeeps == R!keep => Keeps
BY DEF R!keep, Keeps, Told

LEMMA RejoinListens ==
    ASSUME \/ NoRejoinEvent \/ R!AdapterGone \/ R!IdentityChanged \/ R!ManualCommand
           \/ \E b \in BOOLEAN : R!Connected(b) \/ R!Ear(b) \/ R!SetEnabled(b)
           \/ \E L, U : R!ReportsDevices(L, U)
           \/ \E h : R!Relay(h)
    PROVE  /\ Keeps \/ Ends
           /\ Unmoved /\ (handoff_enabled' = handoff_enabled \/ handoff_enabled' = TRUE \/ Ends)
<1>1. CASE NoRejoinEvent
  BY <1>1 DEF NoRejoinEvent, rejoinVars, Keeps, Told, Unmoved
<1>2. CASE R!AdapterGone
  BY <1>2, CancelEnds DEF R!AdapterGone, R!limitVars, Unmoved
<1>3. CASE R!IdentityChanged
  BY <1>3, CancelEnds DEF R!IdentityChanged, Unmoved
<1>4. CASE R!ManualCommand
  BY <1>4, CancelEnds DEF R!ManualCommand, Unmoved
<1>5. ASSUME NEW b \in BOOLEAN, R!Connected(b) PROVE (Keeps \/ Ends) /\ Unmoved /\ UNCHANGED handoff_enabled
  BY <1>5, CancelEnds, KeepKeeps DEF R!Connected, R!limitVars, Unmoved
<1>6. ASSUME NEW b \in BOOLEAN, R!Ear(b) PROVE (Keeps \/ Ends) /\ Unmoved /\ UNCHANGED handoff_enabled
  BY <1>6, CancelEnds, KeepKeeps DEF R!Ear, R!limitVars, Unmoved
<1>7. ASSUME NEW b \in BOOLEAN, R!SetEnabled(b)
      PROVE (Keeps \/ Ends) /\ Unmoved /\ (handoff_enabled' = TRUE \/ Ends)
  BY <1>7, CancelEnds, KeepKeeps DEF R!SetEnabled, R!limitVars, Unmoved
<1>8. ASSUME NEW L, NEW U, R!ReportsDevices(L, U) PROVE Keeps /\ Unmoved /\ UNCHANGED handoff_enabled
  BY <1>8, KeepKeeps DEF R!ReportsDevices, R!limitVars, Unmoved
<1>9. ASSUME NEW h, R!Relay(h) PROVE Keeps /\ Unmoved /\ UNCHANGED handoff_enabled
  BY <1>9 DEF R!Relay, R!limitVars, Unmoved, Keeps, Told
<1> QED BY <1>1, <1>2, <1>3, <1>4, <1>5, <1>6, <1>7, <1>8, <1>9
       DEF NoRejoinEvent, rejoinVars, R!AdapterGone, R!IdentityChanged, R!ManualCommand

LEMMA AutoListens ==
    ASSUME NoAutoEvent \/ A!LocalConnected \/ A!AutoManualCommand \/ \E r : A!LocalDisconnected(r)
    PROVE  AutoStays /\ auto_seq' = auto_seq
BY DEF NoAutoEvent, autoVars, A!LocalConnected, A!AutoManualCommand, A!LocalDisconnected, AutoStays

(* A wake in which both machines only listen. *)
LEMMA ListeningKeeps ==
    ASSUME PagerInv, Keeps \/ Ends, Unmoved,
           handoff_enabled' = handoff_enabled \/ handoff_enabled' = TRUE \/ Ends,
           AutoStays, auto_seq' = auto_seq
    PROVE  PagerInv' /\ [Promise!Next]_<<owner, tries>>
<1>1. PagerInv'
  BY DEF PagerInv, Keeps, Ends, Unmoved, AutoStays
<1>2. RejoinStays
  BY DEF Keeps, Ends, RejoinStays
<1> QED BY <1>1, <1>2, NobodyStarts

(* A drop ends whatever was pending, and may start a rejoin. *)
LEMMA DropKeeps ==
    ASSUME PagerInv, NEW r, NEW c, NEW f, R!Disconnected(r, c, f), auto' = A!NoAuto, auto_seq' = auto_seq
    PROVE  PagerInv' /\ [Promise!Next]_<<owner, tries>>
<1>0. handoff_enabled' = handoff_enabled
  BY DEF R!Disconnected
<1>1. CASE rejoin' = R!NoRejoin /\ UNCHANGED <<last_sequence, rejoin_seq>>
  <2>1. PagerInv'
    BY <1>1 DEF PagerInv
  <2> QED BY <1>1, <2>1, NobodyStarts DEF RejoinStays, AutoStays
<1>2. CASE /\ R!qualify(r, c, f) /\ rejoin_seq' = rejoin_seq + 1 /\ last_sequence' = 0
           /\ rejoin' = [seq |-> rejoin_seq + 1, attempt |-> 1,
                         due |-> R!defer + REJOIN_DELAY, in_flight |-> FALSE]
  <2>1. handoff_enabled /\ Allowed
    BY <1>2 DEF R!qualify
  <2>2. R!defer + REJOIN_DELAY \in Nat
    BY PoliciesAssumption DEF PagerInv, R!defer
  <2>3. rejoin' \in RejoinSequence /\ rejoin' # R!NoRejoin /\ rejoin'.attempt = 1 /\ ~rejoin'.in_flight
    BY <1>2, <2>2, PoliciesAssumption DEF PagerInv, RejoinSequence, R!NoRejoin
  <2>4. PagerInv'
    BY <1>0, <1>2, <2>1, <2>3, PoliciesAssumption DEF PagerInv
  <2>5. owner' = "rejoin" /\ tries' = 0
    BY <2>3 DEF owner, tries, R!rejoin_pending, A!auto_pending, pending_attempt
  <2> QED BY <2>4, <2>5 DEF Promise!Next, Promise!Drop
<1> QED BY <1>1, <1>2 DEF R!Disconnected

----------------------------------------------------------------------------
(* A sighting may start an auto-connect, when no rejoin is pending. *)
LEMMA SightingKeeps ==
    ASSUME PagerInv, NoRejoinEvent, NEW near, A!Seen(near, rejoin_is_pending)
    PROVE  PagerInv' /\ [Promise!Next]_<<owner, tries>>
<1>0. UNCHANGED <<rejoin, rejoin_seq, last_sequence, handoff_enabled>>
  BY DEF NoRejoinEvent, rejoinVars
<1>1. CASE UNCHANGED <<auto, auto_seq>>
  <2>1. PagerInv'
    BY <1>0, <1>1 DEF PagerInv
  <2> QED BY <1>0, <1>1, <2>1, NobodyStarts DEF RejoinStays, AutoStays
<1>2. CASE /\ ~A!auto_pending /\ ~rejoin_is_pending /\ auto_seq' = auto_seq + 1
           /\ auto' = [seq |-> auto_seq + 1, attempt |-> 1, due |-> SETTLE,
                       in_flight |-> FALSE, fallback |-> FALSE]
  <2>1. auto' \in AutoSequence /\ auto' # A!NoAuto /\ auto'.attempt = 1 /\ ~auto'.in_flight
    BY <1>2, PoliciesAssumption DEF PagerInv, AutoSequence, A!NoAuto
  <2>2. rejoin = R!NoRejoin /\ rejoin' = R!NoRejoin /\ auto = A!NoAuto
    BY <1>0, <1>2 DEF rejoin_is_pending, A!auto_pending
  <2>3. PagerInv'
    BY <1>0, <1>2, <2>1, <2>2 DEF PagerInv
  <2>4. owner = "nobody" /\ owner' = "auto" /\ tries' = 0
    BY <2>1, <2>2 DEF owner, tries, R!rejoin_pending, A!auto_pending, pending_attempt
  <2> QED BY <2>3, <2>4 DEF Promise!Next, Promise!Arrive
<1> QED BY <1>1, <1>2 DEF A!Seen

----------------------------------------------------------------------------
(* The tick pages for whichever policy is due, or a fallback slot. *)
LEMMA RejoinPages ==
    ASSUME PagerInv, R!RejoinTick
    PROVE  /\ UNCHANGED <<rejoin_seq, last_sequence, handoff_enabled>>
           /\ \/ rejoin' = rejoin /\ Told = {}
              \/ /\ rejoin # R!NoRejoin /\ rejoin' \in RejoinSequence /\ ~rejoin.in_flight
                 /\ rejoin' = [rejoin EXCEPT !.in_flight = TRUE] /\ Told = {"Connect"}
<1>1. UNCHANGED <<rejoin_seq, last_sequence, handoff_enabled>>
  BY DEF R!RejoinTick, R!limitVars
<1>2. CASE R!Due
  <2>1. rejoin # R!NoRejoin /\ ~rejoin.in_flight
    BY <1>2 DEF R!Due, R!rejoin_pending
  <2>2. rejoin \in RejoinSequence /\ handoff_enabled /\ Allowed
    BY <2>1 DEF PagerInv
  <2>3. rejoin' = [rejoin EXCEPT !.in_flight = TRUE] /\ rejoin_does' = {"Connect"}
    BY <1>2, <2>2 DEF R!RejoinTick
  <2>4. rejoin' \in RejoinSequence
    BY <2>2, <2>3 DEF RejoinSequence
  <2> QED BY <1>1, <2>1, <2>3, <2>4 DEF Told
<1>3. CASE ~R!Due
  BY <1>1, <1>3, KeepKeeps DEF R!RejoinTick, Keeps
<1> QED BY <1>2, <1>3

LEMMA AutoPages ==
    ASSUME PagerInv, NEW busy \in BOOLEAN, A!AutoTick(busy)
    PROVE  \/ AutoStays /\ auto_seq' = auto_seq
           \/ /\ auto = A!NoAuto /\ ~busy /\ auto' \in AutoSequence /\ auto'.attempt = 1
              /\ auto'.in_flight /\ auto' # A!NoAuto /\ auto_seq' = auto_seq + 1
           \/ /\ auto # A!NoAuto /\ auto' \in AutoSequence /\ auto_seq' = auto_seq
              /\ auto' # A!NoAuto /\ ~auto.in_flight /\ auto' = [auto EXCEPT !.in_flight = TRUE]
<1>1. CASE ~A!auto_pending /\ A!fallback_page(busy)
  <2>1. CASE auto' = auto /\ auto_seq' = auto_seq
    BY <2>1 DEF AutoStays
  <2>2. CASE /\ ~busy /\ auto_seq' = auto_seq + 1
             /\ auto' = [seq |-> auto_seq + 1, attempt |-> 1, due |-> 0, in_flight |-> TRUE,
                         fallback |-> TRUE]
    BY <1>1, <2>2, PoliciesAssumption DEF PagerInv, AutoSequence, A!NoAuto, A!auto_pending
  <2> QED BY <1>1, <2>1, <2>2 DEF A!fallback_page
<1>2. CASE auto' = auto /\ auto_seq' = auto_seq
  BY <1>2 DEF AutoStays
<1>3. CASE auto' = A!NoAuto /\ auto_seq' = auto_seq
  BY <1>3 DEF AutoStays
<1>4. CASE /\ A!auto_pending /\ ~auto.in_flight /\ auto' = [auto EXCEPT !.in_flight = TRUE]
           /\ auto_seq' = auto_seq
  BY <1>4 DEF PagerInv, AutoSequence, A!NoAuto, A!auto_pending
<1> QED BY <1>1, <1>2, <1>3, <1>4 DEF A!AutoTick

LEMMA TickKeeps ==
    ASSUME PagerInv, R!RejoinTick, A!AutoTick(rejoin_is_pending)
    PROVE  PagerInv' /\ [Promise!Next]_<<owner, tries>>
<1>0. rejoin_is_pending \in BOOLEAN
  BY DEF rejoin_is_pending
<1>1. UNCHANGED <<rejoin_seq, last_sequence, handoff_enabled>>
  BY RejoinPages
<1>2. CASE rejoin # R!NoRejoin /\ rejoin' \in RejoinSequence /\ ~rejoin.in_flight
           /\ rejoin' = [rejoin EXCEPT !.in_flight = TRUE]
  <2>1. rejoin \in RejoinSequence /\ auto = A!NoAuto /\ handoff_enabled /\ Allowed
    BY <1>2 DEF PagerInv
  <2>2. rejoin' # R!NoRejoin /\ rejoin'.attempt = rejoin.attempt /\ rejoin'.in_flight
    BY <1>2, <2>1 DEF RejoinSequence, R!NoRejoin
  <2>3. auto' = A!NoAuto /\ auto_seq' = auto_seq
    BY <1>0, <2>1, <2>2, AutoPages DEF AutoStays, rejoin_is_pending
  <2>4. PagerInv'
    BY <1>1, <1>2, <2>1, <2>3 DEF PagerInv
  <2>5. owner = "rejoin" /\ owner' = "rejoin"
    BY <1>2, <2>1, <2>2, <2>3 DEF owner, R!rejoin_pending, A!auto_pending
  <2>6. tries = rejoin.attempt - 1 /\ tries' = rejoin.attempt
    BY <1>2, <2>1, <2>2 DEF tries, R!rejoin_pending, pending_attempt, RejoinSequence
  <2>7. rejoin.attempt - 1 < Limit["rejoin"] /\ rejoin.attempt = (rejoin.attempt - 1) + 1
    BY <2>1, PoliciesAssumption DEF RejoinSequence, Limit
  <2> QED BY <2>4, <2>5, <2>6, <2>7 DEF Promise!Next, Promise!Page
<1>3. CASE rejoin' = rejoin
  <2>1. CASE AutoStays /\ auto_seq' = auto_seq
    <3>1. PagerInv'
      BY <1>1, <1>3, <2>1 DEF PagerInv, AutoStays
    <3> QED BY <1>3, <2>1, <3>1, NobodyStarts DEF RejoinStays
  <2>2. CASE /\ auto = A!NoAuto /\ ~rejoin_is_pending /\ auto' \in AutoSequence /\ auto'.attempt = 1
             /\ auto'.in_flight /\ auto' # A!NoAuto /\ auto_seq' = auto_seq + 1
    <3>1. rejoin = R!NoRejoin
      BY <1>3, <2>2 DEF rejoin_is_pending
    <3>2. PagerInv'
      BY <1>1, <1>3, <2>2, <3>1 DEF PagerInv
    <3>3. owner = "nobody" /\ owner' = "auto" /\ tries' = 1
      BY <1>3, <2>2, <3>1 DEF owner, tries, R!rejoin_pending, A!auto_pending, pending_attempt
    <3> QED BY <3>2, <3>3 DEF Promise!Next, Promise!Arrive
  <2>3. CASE /\ auto # A!NoAuto /\ auto' \in AutoSequence /\ auto_seq' = auto_seq
             /\ auto' # A!NoAuto /\ ~auto.in_flight /\ auto' = [auto EXCEPT !.in_flight = TRUE]
    <3>1. rejoin = R!NoRejoin /\ auto \in AutoSequence
      BY <2>3 DEF PagerInv
    <3>2. PagerInv'
      BY <1>1, <1>3, <2>3, <3>1 DEF PagerInv
    <3>3. owner = "auto" /\ owner' = "auto" 
      BY <1>3, <2>3, <3>1 DEF owner, R!rejoin_pending, A!auto_pending
    <3>4. tries = auto.attempt - 1 /\ tries' = auto.attempt
      BY <1>3, <2>3, <3>1 DEF tries, R!rejoin_pending, A!auto_pending, pending_attempt, AutoSequence
    <3>5. auto.attempt - 1 < Limit["auto"] /\ auto.attempt = (auto.attempt - 1) + 1
      BY <3>1, PoliciesAssumption DEF AutoSequence, Limit
    <3> QED BY <3>2, <3>3, <3>4, <3>5 DEF Promise!Next, Promise!Page
  <2> QED BY <1>0, <2>1, <2>2, <2>3, AutoPages
<1> QED BY <1>2, <1>3, RejoinPages

----------------------------------------------------------------------------
(* A result ends its sequence, or has it retried: the pages made stay. *)
LEMMA RejoinHears ==
    ASSUME PagerInv, NEW s, NEW outcome, R!ConnectFinished(s, outcome)
    PROVE  /\ UNCHANGED <<rejoin_seq, last_sequence, handoff_enabled>>
           /\ \/ rejoin' = rejoin /\ Told = {} /\ (rejoin.seq # s \/ ~rejoin.in_flight)
              \/ /\ rejoin.seq = s /\ rejoin.in_flight /\ rejoin' = R!NoRejoin /\ "Connect" \notin Told
              \/ /\ rejoin.seq = s /\ rejoin.in_flight /\ rejoin' \in RejoinSequence
                 /\ rejoin'.seq = s /\ rejoin'.attempt = rejoin.attempt + 1 /\ ~rejoin'.in_flight
                 /\ Told = {}
<1>1. UNCHANGED <<rejoin_seq, last_sequence, handoff_enabled>>
  BY DEF R!ConnectFinished
<1>2. CASE (rejoin.seq # s \/ ~rejoin.in_flight) /\ R!keep
  BY <1>1, <1>2, KeepKeeps DEF Keeps
<1>3. CASE rejoin.seq = s /\ rejoin.in_flight /\ rejoin' = R!NoRejoin /\ "Connect" \notin rejoin_does'
  BY <1>1, <1>3 DEF Told
<1>4. CASE /\ rejoin.seq = s /\ rejoin.in_flight /\ R!may_retry
           /\ rejoin' = [rejoin EXCEPT !.attempt = R!next_attempt, !.in_flight = FALSE,
                                       !.due = BUSY_RETRY[rejoin.attempt]]
           /\ rejoin_does' = {"Retry"}
  <2>1. rejoin \in RejoinSequence
    BY <1>4 DEF PagerInv, R!NoRejoin
  <2>2. rejoin.attempt \in 1..REJOIN_ATTEMPTS - 1
    BY <1>4, <2>1, PoliciesAssumption DEF RejoinSequence, R!may_retry
  <2>3. BUSY_RETRY[rejoin.attempt] \in Nat
    BY <2>2, PoliciesAssumption
  <2> DEFINE n == rejoin.attempt + 1
             d == BUSY_RETRY[rejoin.attempt]
  <2>4. n \in 1..REJOIN_ATTEMPTS /\ d \in Nat
    BY <2>2, <2>3, PoliciesAssumption
  <2>5. rejoin' = [rejoin EXCEPT !.attempt = n, !.in_flight = FALSE, !.due = d]
    BY <1>4 DEF R!next_attempt
  <2> HIDE DEF n, d
  <2>6. rejoin' \in RejoinSequence /\ rejoin'.attempt = n /\ ~rejoin'.in_flight
        /\ rejoin'.seq = rejoin.seq
    BY <2>1, <2>4, <2>5 DEF RejoinSequence
  <2> QED BY <1>1, <1>4, <2>6 DEF Told, n
<1> QED BY <1>2, <1>3, <1>4 DEF R!ConnectFinished

LEMMA RejoinResultKeeps ==
    ASSUME PagerInv, NEW s, NEW outcome, R!ConnectFinished(s, outcome), NoAutoEvent
    PROVE  PagerInv' /\ [Promise!Next]_<<owner, tries>>
<1>0. auto' = auto /\ auto_seq' = auto_seq /\ UNCHANGED <<rejoin_seq, last_sequence, handoff_enabled>>
  BY RejoinHears DEF NoAutoEvent, autoVars
<1>1. CASE RejoinStays
  <2>1. PagerInv'
    BY <1>0, <1>1 DEF PagerInv, RejoinStays
  <2> QED BY <1>0, <1>1, <2>1, NobodyStarts DEF AutoStays
<1>2. CASE rejoin.in_flight /\ rejoin' \in RejoinSequence /\ rejoin'.attempt = rejoin.attempt + 1
           /\ ~rejoin'.in_flight
  <2>1. rejoin \in RejoinSequence /\ rejoin # R!NoRejoin /\ rejoin' # R!NoRejoin
    BY <1>2 DEF PagerInv, R!NoRejoin, RejoinSequence
  <2>2. PagerInv'
    BY <1>0, <1>2, <2>1 DEF PagerInv
  <2>3. owner' = owner
    BY <1>0, <2>1 DEF owner, R!rejoin_pending, A!auto_pending
  <2>4. tries' = tries
    BY <1>2, <2>1 DEF tries, R!rejoin_pending, pending_attempt, RejoinSequence
  <2> QED BY <2>2, <2>3, <2>4
<1> QED BY <1>1, <1>2, RejoinHears DEF RejoinStays

LEMMA AutoResultKeeps ==
    ASSUME PagerInv, NEW s, NEW outcome, A!AutoFinished(s, outcome), NoRejoinEvent
    PROVE  PagerInv' /\ [Promise!Next]_<<owner, tries>>
<1>0. auto_seq' = auto_seq /\ UNCHANGED <<rejoin, rejoin_seq, last_sequence, handoff_enabled>>
  BY DEF A!AutoFinished, NoRejoinEvent, rejoinVars
<1>1. CASE AutoStays
  <2>1. PagerInv'
    BY <1>0, <1>1 DEF PagerInv, AutoStays
  <2> QED BY <1>0, <1>1, <2>1, NobodyStarts DEF RejoinStays
<1>2. CASE /\ auto.seq = s /\ auto.in_flight /\ ~A!last_attempt
           /\ auto' = [auto EXCEPT !.attempt = A!next_auto_attempt, !.in_flight = FALSE,
                                   !.due = RETRY_BACKOFF[auto.attempt]]
  <2>1. auto \in AutoSequence /\ auto # A!NoAuto
    BY <1>2 DEF PagerInv, A!NoAuto
  <2>2. auto.attempt \in 1..AUTO_ATTEMPTS - 1
    BY <1>2, <2>1, PoliciesAssumption DEF AutoSequence, A!last_attempt
  <2>3. RETRY_BACKOFF[auto.attempt] \in Nat
    BY <2>2, PoliciesAssumption
  <2> DEFINE n == auto.attempt + 1
             d == RETRY_BACKOFF[auto.attempt]
  <2>4. auto' \in AutoSequence /\ auto'.attempt = auto.attempt + 1 /\ ~auto'.in_flight
        /\ auto' # A!NoAuto
    <3>1. n \in 1..AUTO_ATTEMPTS /\ d \in Nat
      BY <2>2, <2>3, PoliciesAssumption
    <3>2. auto' = [auto EXCEPT !.attempt = n, !.in_flight = FALSE, !.due = d]
      BY <1>2 DEF A!next_auto_attempt
    <3> HIDE DEF n, d
    <3>3. auto' \in AutoSequence /\ auto'.attempt = n /\ ~auto'.in_flight
      BY <2>1, <3>1, <3>2 DEF AutoSequence
    <3> QED BY <3>3 DEF n, AutoSequence, A!NoAuto
  <2>5. rejoin = R!NoRejoin
    BY <2>1 DEF PagerInv
  <2>6. PagerInv'
    BY <1>0, <2>4, <2>5 DEF PagerInv
  <2>7. owner' = owner
    BY <1>0, <2>1, <2>4, <2>5 DEF owner, R!rejoin_pending, A!auto_pending
  <2>8. tries' = tries
    BY <1>0, <1>2, <2>1, <2>4, <2>5
       DEF tries, R!rejoin_pending, A!auto_pending, pending_attempt, AutoSequence
  <2> QED BY <2>6, <2>7, <2>8
<1> QED BY <1>1, <1>2 DEF A!AutoFinished, AutoStays

----------------------------------------------------------------------------
(* Time ends and starts nothing. *)
LEMMA PassKeeps ==
    ASSUME PagerInv, R!RejoinPass, A!AutoPass
    PROVE  PagerInv' /\ [Promise!Next]_<<owner, tries>>
<1>1. UNCHANGED <<rejoin_seq, auto_seq, handoff_enabled>> /\ last_sequence' \in 0..RATE_LIMIT
  BY PoliciesAssumption DEF PagerInv, R!RejoinPass, A!AutoPass, R!AgedTo
<1>2. \/ rejoin = R!NoRejoin /\ rejoin' = R!NoRejoin
      \/ /\ rejoin \in RejoinSequence /\ rejoin' \in RejoinSequence /\ rejoin'.seq = rejoin.seq
         /\ rejoin'.attempt = rejoin.attempt /\ rejoin'.in_flight = rejoin.in_flight
  <2>1. CASE rejoin = R!NoRejoin
    BY <2>1 DEF R!RejoinPass, R!NoRejoin
  <2>2. CASE rejoin \in RejoinSequence
    BY <2>2 DEF R!RejoinPass, RejoinSequence
  <2> QED BY <2>1, <2>2 DEF PagerInv
<1>3. \/ auto = A!NoAuto /\ auto' = A!NoAuto
      \/ /\ auto \in AutoSequence /\ auto' \in AutoSequence
         /\ auto'.attempt = auto.attempt /\ auto'.in_flight = auto.in_flight
  <2>1. CASE auto = A!NoAuto
    BY <2>1 DEF A!AutoPass, A!NoAuto, A!Sooner
  <2>2. CASE auto \in AutoSequence
    BY <2>2 DEF A!AutoPass, AutoSequence, A!Sooner
  <2> QED BY <2>1, <2>2 DEF PagerInv
<1>4. R!NoRejoin \notin RejoinSequence /\ A!NoAuto \notin AutoSequence
  BY DEF R!NoRejoin, RejoinSequence, A!NoAuto, AutoSequence
<1>5. PagerInv'
  BY <1>1, <1>2, <1>3, <1>4 DEF PagerInv
<1>6. owner' = owner
  BY <1>2, <1>3, <1>4 DEF owner, R!rejoin_pending, A!auto_pending
<1>7. tries' = tries
  BY <1>2, <1>3, <1>4 DEF tries, R!rejoin_pending, A!auto_pending, pending_attempt
<1> QED BY <1>5, <1>6, <1>7

----------------------------------------------------------------------------
(* A task and the world outside move neither machine. *)
Elsewhere == Task \/ Environment

LEMMA ElsewhereQuiet == Elsewhere => NoRejoinEvent /\ NoAutoEvent /\ UNCHANGED <<rejoin_epoch, auto_epoch>>
BY DEF Elsewhere, Task, Check, Call, Linked, Return, Environment, Quiet

LEMMA PagerStep == PagerInv /\ [LinkNext]_lvars => PagerInv' /\ [Promise!Next]_<<owner, tries>>
<1> SUFFICES ASSUME PagerInv, [LinkNext]_lvars
             PROVE  PagerInv' /\ [Promise!Next]_<<owner, tries>>
  OBVIOUS
<1>1. CASE \/ OnConnected \/ OnLinkDown \/ OnIdentity \/ OnPacket \/ OnManualCommand
           \/ (\E b \in BOOLEAN : OnSetHandoff(b)) \/ Elsewhere
  <2>1. /\ Keeps \/ Ends
        /\ Unmoved /\ (handoff_enabled' = handoff_enabled \/ handoff_enabled' = TRUE \/ Ends)
    BY <1>1, RejoinListens, ElsewhereQuiet
       DEF OnConnected, OnLinkDown, OnIdentity, OnPacket, OnManualCommand, OnSetHandoff
  <2>2. AutoStays /\ auto_seq' = auto_seq
    BY <1>1, AutoListens, ElsewhereQuiet
       DEF OnConnected, OnLinkDown, OnIdentity, OnPacket, OnManualCommand, OnSetHandoff
  <2> QED BY <2>1, <2>2, ListeningKeeps
<1>2. ASSUME NEW b \in BOOLEAN, OnDisconnected(b)
      PROVE  PagerInv' /\ [Promise!Next]_<<owner, tries>>
  BY <1>2, DropKeeps DEF OnDisconnected, A!LocalDisconnected
<1>3. CASE OnSighting
  BY <1>3, SightingKeeps DEF OnSighting
<1>4. CASE OnTick
  BY <1>4, TickKeeps DEF OnTick
<1>5. CASE OnRejoinResult
  BY <1>5, RejoinResultKeeps DEF OnRejoinResult
<1>6. CASE OnAutoResult
  BY <1>6, AutoResultKeeps DEF OnAutoResult
<1>7. CASE Pass
  BY <1>7, PassKeeps DEF Pass
<1>8. CASE UNCHANGED lvars
  <2>1. PagerInv'
    BY <1>8 DEF lvars, rejoinVars, autoVars, PagerInv
  <2>2. RejoinStays /\ AutoStays
    BY <1>8 DEF lvars, rejoinVars, autoVars, RejoinStays, AutoStays
  <2> QED BY <2>1, <2>2, NobodyStarts
<1> QED BY <1>1, <1>2, <1>3, <1>4, <1>5, <1>6, <1>7, <1>8 DEF LinkNext, Supervisor, Elsewhere

(* The rejoin and the auto-connect together implement OnePager: at most    *)
(* one of them has a sequence, its pages are bounded, and only a drop      *)
(* hands the paging over, whatever BlueZ, the AirPods and the user do      *)
(* (session.rs 2192-2193, publish_link).                                   *)
THEOREM PoliciesShareOnePager == LinkSpec => OnePagerHolds
BY PagerStart, PagerStep, PTL DEF LinkSpec, OnePagerHolds, Promise!Spec

----------------------------------------------------------------------------
(* The rejoin's connects: what is still out, and where its answer is. *)
Connects == {t \in tasks : t.by = "rejoin"}
Answers == results["rejoin"]
Answered(s) == \E i \in DOMAIN Answers : Answers[i].seq = s
Out(s) == Answered(s) \/ \E t \in Connects : t.seq = s

CallType ==
    /\ tasks \subseteq [by : Policies, seq : Nat, stage : Stages]
    /\ results \in [Policies -> Seq([seq : Nat, outcome : A!AutoOutcomes])]
    /\ rejoin.seq \in 0..rejoin_seq

(* A sequence has one connect out at a time, as a task or as an answer not *)
(* read yet, and none unless it waits for it; the epoch names no task of   *)
(* a sequence that is over.                                                *)
OneAnswer ==
    /\ \A s : Out(s) => s \in 1..rejoin_seq /\ (s = rejoin.seq => rejoin.in_flight)
    /\ \A t, u \in Connects : t.seq = u.seq => t = u
    /\ \A t \in Connects : ~Answered(t.seq)
    /\ \A i, j \in DOMAIN Answers : Answers[i].seq = Answers[j].seq => i = j
    /\ \A t \in Connects : t.seq = rejoin_epoch => t.seq = rejoin.seq

CallInv == CallType /\ OneAnswer

LEMMA CallStart == LinkInit => CallInv
<1> SUFFICES ASSUME LinkInit PROVE CallInv
  OBVIOUS
<1>1. tasks = {} /\ rejoin.seq = 0 /\ rejoin_seq = 0 /\ results = [by \in Policies |-> <<>>]
  BY DEF LinkInit, R!RejoinInit, R!NoRejoin
<1>2. CallType
  BY <1>1 DEF CallType
<1>3. Connects = {} /\ Answers = <<>>
  BY <1>1 DEF Connects, Answers, Policies
<1>4. OneAnswer
  BY <1>3 DEF OneAnswer, Out, Answered
<1> QED BY <1>2, <1>4 DEF CallInv

(* What Perform leaves of the rejoin's connects. *)
LEMMA PerformSpawns ==
    ASSUME PagerInv', CallInv, Perform
    PROVE  /\ tasks' \subseteq [by : Policies, seq : Nat, stage : Stages]
           /\ "Connect" \notin Told => Connects' = Connects
           /\ "Connect" \in Told =>
                 Connects' = Connects \cup {[by |-> "rejoin", seq |-> rejoin'.seq, stage |-> "checking"]}
           /\ rejoin_epoch' = IF "Cancelled" \in Told THEN 0
                              ELSE IF "Connect" \in Told THEN rejoin'.seq ELSE rejoin_epoch
<1>1. rejoin'.seq \in Nat /\ auto'.seq \in Nat
  BY DEF PagerInv, RejoinSequence, AutoSequence, R!NoRejoin, A!NoAuto
<1> DEFINE r == Spawned("rejoin", rejoin_does', rejoin'.seq)
           a == Spawned("auto", auto_does', auto'.seq)
<1>2. tasks' = tasks \cup r \cup a
  BY DEF Perform
<1>3. r \subseteq [by : Policies, seq : Nat, stage : Stages]
      /\ a \subseteq [by : Policies, seq : Nat, stage : Stages]
  BY <1>1 DEF Spawned, Policies, Stages
<1>4. \A t \in a : t.by # "rejoin"
  BY DEF Spawned
<1>5. "Connect" \notin Told => r = {}
  BY DEF Spawned, Told
<1>6. "Connect" \in Told => r = {[by |-> "rejoin", seq |-> rejoin'.seq, stage |-> "checking"]}
  BY DEF Spawned, Told
<1> HIDE DEF r, a
<1>7. "Connect" \notin Told => Connects' = Connects
  BY <1>2, <1>4, <1>5 DEF Connects
<1>8. "Connect" \in Told => Connects' = Connects \cup {[by |-> "rejoin", seq |-> rejoin'.seq, stage |-> "checking"]}
  BY <1>2, <1>4, <1>6 DEF Connects
<1> QED BY <1>2, <1>3, <1>7, <1>8 DEF CallInv, CallType, Perform, rejoin_event, Told

(* A wake that starts and pages nothing. *)
LEMMA QuietWake ==
    ASSUME PagerInv, PagerInv', CallInv, Perform, UNCHANGED <<results, rejoin_seq>>, Keeps \/ Ends
    PROVE  CallInv'
<1>1. Connects' = Connects /\ tasks' \subseteq [by : Policies, seq : Nat, stage : Stages]
      /\ rejoin_epoch' = IF "Cancelled" \in Told THEN 0 ELSE rejoin_epoch
  BY PerformSpawns DEF Keeps, Ends, R!Cancelled
<1>2. Answers' = Answers /\ \A s : (Answered(s) <=> Answered(s)') /\ (Out(s) <=> Out(s)')
  BY <1>1 DEF Answers, Answered, Out
<1>3. CallType'
  <2>1. rejoin'.seq \in 0..rejoin_seq'
    BY DEF CallInv, CallType, PagerInv, Keeps, Ends, R!NoRejoin
  <2> QED BY <1>1, <2>1 DEF CallInv, CallType
<1>4. \A t \in Connects : t.seq # 0
  BY DEF CallInv, OneAnswer, Out
<1>5. OneAnswer'
  <2>1. CASE Keeps
    BY <1>1, <1>2, <2>1 DEF CallInv, OneAnswer, Keeps
  <2>2. CASE Ends /\ R!rejoin_pending
    BY <1>1, <1>2, <1>4, <2>2 DEF CallInv, OneAnswer, Ends, R!Cancelled, R!NoRejoin
  <2>3. CASE Ends /\ ~R!rejoin_pending
    BY <1>1, <1>2, <2>3 DEF CallInv, OneAnswer, Ends, R!Cancelled, R!rejoin_pending
  <2> QED BY <2>1, <2>2, <2>3
<1> QED BY <1>3, <1>5 DEF CallInv

LEMMA DropCalls ==
    ASSUME PagerInv, PagerInv', CallInv, Perform, UNCHANGED results,
           NEW r, NEW c, NEW f, R!Disconnected(r, c, f)
    PROVE  CallInv'
<1>1. Told = R!Cancelled
  BY DEF R!Disconnected, R!Cancelled, Told
<1>2. CASE rejoin' = R!NoRejoin /\ UNCHANGED rejoin_seq
  BY <1>1, <1>2, QuietWake DEF Ends
<1>3. CASE rejoin_seq' = rejoin_seq + 1 /\ rejoin'.seq = rejoin_seq + 1
  <2>1. Connects' = Connects /\ tasks' \subseteq [by : Policies, seq : Nat, stage : Stages]
        /\ rejoin_epoch' = IF R!rejoin_pending THEN 0 ELSE rejoin_epoch
    BY <1>1, PerformSpawns DEF R!Cancelled
  <2>2. Answers' = Answers /\ \A s : (Answered(s) <=> Answered(s)') /\ (Out(s) <=> Out(s)')
    BY <2>1 DEF Answers, Answered, Out
  <2>3. CallType'
    <3>1. rejoin'.seq \in 0..rejoin_seq'
      BY <1>3 DEF PagerInv
    <3> QED BY <2>1, <3>1 DEF CallInv, CallType
  <2>4. \A s : Out(s) => s \in 1..rejoin_seq' /\ s # rejoin'.seq
    BY <1>3 DEF CallInv, OneAnswer, PagerInv
  <2>5. \A t \in Connects : t.seq # rejoin_epoch'
    <3> SUFFICES ASSUME NEW t \in Connects PROVE t.seq # rejoin_epoch'
      OBVIOUS
    <3>1. t.seq \in 1..rejoin_seq
      BY DEF CallInv, OneAnswer, Out
    <3>2. CASE R!rejoin_pending
      BY <2>1, <3>1, <3>2
    <3>3. CASE ~R!rejoin_pending
      BY <2>1, <3>1, <3>3 DEF CallInv, OneAnswer, R!rejoin_pending, R!NoRejoin
    <3> QED BY <3>2, <3>3
  <2>6. OneAnswer'
    BY <2>1, <2>2, <2>4, <2>5 DEF CallInv, OneAnswer
  <2> QED BY <2>3, <2>6 DEF CallInv
<1> QED BY <1>2, <1>3 DEF R!Disconnected

LEMMA TickCalls ==
    ASSUME PagerInv, PagerInv', CallInv, Perform, UNCHANGED results, R!RejoinTick
    PROVE  CallInv'
<1>1. CASE Keeps
  BY <1>1, RejoinPages, QuietWake
<1>2. CASE /\ rejoin # R!NoRejoin /\ rejoin' \in RejoinSequence /\ ~rejoin.in_flight
           /\ rejoin' = [rejoin EXCEPT !.in_flight = TRUE] /\ Told = {"Connect"}
  <2> DEFINE n == [by |-> "rejoin", seq |-> rejoin'.seq, stage |-> "checking"]
  <2>1. Connects' = Connects \cup {n} /\ tasks' \subseteq [by : Policies, seq : Nat, stage : Stages]
        /\ rejoin_epoch' = rejoin'.seq /\ UNCHANGED rejoin_seq
    BY <1>2, PerformSpawns, RejoinPages
  <2>2. rejoin \in RejoinSequence /\ rejoin'.seq = rejoin.seq /\ rejoin'.in_flight /\ n.seq = rejoin.seq
    BY <1>2 DEF PagerInv, RejoinSequence
  <2>3. rejoin.seq \in 1..rejoin_seq /\ ~Out(rejoin.seq)
    BY <1>2, <2>2 DEF CallInv, CallType, OneAnswer, RejoinSequence
  <2>4. Answers' = Answers /\ \A s : Answered(s) <=> Answered(s)'
    BY DEF Answers, Answered
  <2> HIDE DEF n
  <2>5. \A s : Out(s)' <=> Out(s) \/ s = rejoin.seq
    BY <2>1, <2>2, <2>4 DEF Out
  <2>6. CallType'
    BY <2>1, <2>2 DEF CallInv, CallType
  <2>7. OneAnswer'
    BY <2>1, <2>2, <2>3, <2>4, <2>5 DEF CallInv, OneAnswer, Out
  <2> QED BY <2>6, <2>7 DEF CallInv
<1> QED BY <1>1, <1>2, RejoinPages DEF Keeps

LEMMA TailIsRest ==
    ASSUME NEW S, NEW q \in Seq(S), q # <<>> PROVE Tail(q) \in Seq(S)
OBVIOUS

LEMMA ResultCalls ==
    ASSUME PagerInv, PagerInv', CallInv, OnRejoinResult
    PROVE  CallInv'
<1>0. PICK s : s = Head(Answers).seq
  OBVIOUS
<1>1. Answers # <<>> /\ Answers \in Seq([seq : Nat, outcome : A!AutoOutcomes])
      /\ results' \in [Policies -> Seq([seq : Nat, outcome : A!AutoOutcomes])] /\ Answers' = Tail(Answers)
  <2>1. results \in [Policies -> Seq([seq : Nat, outcome : A!AutoOutcomes])] /\ "rejoin" \in Policies
    BY DEF CallInv, CallType, Policies
  <2>2. results["rejoin"] # <<>> /\ results' = [results EXCEPT !["rejoin"] = Tail(@)]
    BY DEF OnRejoinResult
  <2>3. Tail(results["rejoin"]) \in Seq([seq : Nat, outcome : A!AutoOutcomes])
    BY <2>1, <2>2, TailIsRest
  <2> QED BY <2>1, <2>2, <2>3 DEF Answers
<1>2. /\ DOMAIN Answers' = 1..Len(Answers) - 1 /\ DOMAIN Answers = 1..Len(Answers)
      /\ \A i \in DOMAIN Answers' : i + 1 \in DOMAIN Answers /\ Answers'[i] = Answers[i + 1]
      /\ 1 \in DOMAIN Answers /\ s = Answers[1].seq
  BY <1>0, <1>1
<1>3. Answered(s) /\ ~Answered(s)' /\ \A q : Answered(q)' => Answered(q)
  <2>1. \A i \in DOMAIN Answers' : i + 1 # 1
    BY <1>1, <1>2
  <2> QED BY <1>2, <2>1 DEF Answered, CallInv, OneAnswer
<1>4. \A i, j \in DOMAIN Answers' : Answers'[i].seq = Answers'[j].seq => i = j
  <2> SUFFICES ASSUME NEW i \in DOMAIN Answers', NEW j \in DOMAIN Answers', Answers'[i].seq = Answers'[j].seq
               PROVE i = j
    OBVIOUS
  <2>1. i + 1 = j + 1
    BY <1>2 DEF CallInv, OneAnswer
  <2> QED BY <1>2, <2>1
<1>5. PICK outcome : R!ConnectFinished(s, outcome)
  BY <1>0 DEF OnRejoinResult, Answers
<1>6. Perform
  BY DEF OnRejoinResult
<1>7. "Connect" \notin Told /\ UNCHANGED rejoin_seq
  BY <1>5, RejoinHears
<1>8. Connects' = Connects /\ tasks' \subseteq [by : Policies, seq : Nat, stage : Stages]
      /\ rejoin_epoch' = IF "Cancelled" \in Told THEN 0 ELSE rejoin_epoch
  BY <1>6, <1>7, PerformSpawns
<1>9. \A q : Out(q)' => Out(q) /\ q # s
  BY <1>3, <1>8 DEF Out, CallInv, OneAnswer
<1>10. \/ rejoin' = rejoin
       \/ rejoin.seq = s /\ (rejoin' = R!NoRejoin \/ rejoin'.seq = s)
  BY <1>5, RejoinHears
<1>11. CallType'
  <2>1. rejoin'.seq \in 0..rejoin_seq'
    BY <1>7, <1>10 DEF CallInv, CallType, PagerInv, R!NoRejoin
  <2> QED BY <1>1, <1>8, <2>1 DEF CallType
<1>12. \A q : Out(q)' => q \in 1..rejoin_seq' /\ (q = rejoin'.seq => rejoin'.in_flight)
  BY <1>7, <1>9, <1>10 DEF CallInv, OneAnswer, R!NoRejoin
<1>13. \A t \in Connects' : t.seq = rejoin_epoch' => t.seq = rejoin'.seq
  <2> SUFFICES ASSUME NEW t \in Connects, t.seq = rejoin_epoch' PROVE t.seq = rejoin'.seq
    BY <1>8
  <2>1. t.seq # 0 /\ t.seq # s
    BY <1>8, <1>9 DEF CallInv, OneAnswer, Out
  <2>2. t.seq = rejoin_epoch
    BY <1>8, <2>1
  <2> QED BY <1>10, <2>1, <2>2 DEF CallInv, OneAnswer
<1>14. OneAnswer'
  BY <1>3, <1>4, <1>8, <1>12, <1>13 DEF CallInv, OneAnswer
<1> QED BY <1>11, <1>14 DEF CallInv

----------------------------------------------------------------------------
(* The tasks. *)
LEMMA CallsMove ==
    ASSUME CallInv, NEW t \in tasks, NEW g \in Stages,
           tasks' = (tasks \ {t}) \cup {[t EXCEPT !.stage = g]},
           UNCHANGED <<results, rejoin, rejoin_seq, rejoin_epoch>>
    PROVE  CallInv'
<1> DEFINE u == [t EXCEPT !.stage = g]
<1>1. u \in [by : Policies, seq : Nat, stage : Stages] /\ u.by = t.by /\ u.seq = t.seq
  BY DEF CallInv, CallType
<1>2. tasks' = (tasks \ {t}) \cup {u}
  OBVIOUS
<1> HIDE DEF u
<1>3. CallType'
  BY <1>1, <1>2 DEF CallInv, CallType
<1>4. Connects' = IF t \in Connects THEN (Connects \ {t}) \cup {u} ELSE Connects
  BY <1>1, <1>2 DEF Connects
<1>5. Answers' = Answers /\ \A s : Answered(s) <=> Answered(s)'
  BY DEF Answers, Answered
<1>6. \A s : Out(s) <=> Out(s)'
  BY <1>1, <1>4, <1>5 DEF Out
<1>7. OneAnswer'
  BY <1>1, <1>4, <1>5, <1>6 DEF CallInv, OneAnswer
<1> QED BY <1>3, <1>7 DEF CallInv

LEMMA AppendIsLonger ==
    ASSUME NEW S, NEW q \in Seq(S), NEW e \in S
    PROVE  /\ Append(q, e) \in Seq(S) /\ DOMAIN Append(q, e) = (DOMAIN q) \cup {Len(q) + 1}
           /\ Len(q) + 1 \notin DOMAIN q /\ Append(q, e)[Len(q) + 1] = e
           /\ \A i \in DOMAIN q : Append(q, e)[i] = q[i]
OBVIOUS

LEMMA CallsAnswer ==
    ASSUME CallInv, NEW t \in tasks, NEW o \in A!AutoOutcomes, Reports(t, o),
           UNCHANGED <<rejoin, rejoin_seq, rejoin_epoch>>
    PROVE  CallInv'
<1> DEFINE e == [seq |-> t.seq, outcome |-> o]
           S == [seq : Nat, outcome : A!AutoOutcomes]
<1>1. t \in [by : Policies, seq : Nat, stage : Stages] /\ results \in [Policies -> Seq(S)]
  BY DEF CallInv, CallType
<1>2. e \in S /\ e.seq = t.seq
  BY <1>1
<1>3. tasks' = tasks \ {t} /\ results' = [results EXCEPT ![t.by] = Append(@, e)]
  BY DEF Reports
<1> HIDE DEF e, S
<1>4. t.by \in Policies /\ results[t.by] \in Seq(S)
  BY <1>1
<1>5. results' \in [Policies -> Seq(S)] /\ "rejoin" \in Policies
  BY <1>1, <1>2, <1>3, <1>4, AppendIsLonger DEF Policies
<1>6. CallType'
  BY <1>3, <1>5 DEF CallInv, CallType, S
<1>7. CASE t \notin Connects
  <2>1. Connects' = Connects /\ Answers' = Answers
    BY <1>1, <1>3, <1>5, <1>7 DEF Connects, Answers
  <2>2. \A s : (Answered(s) <=> Answered(s)') /\ (Out(s) <=> Out(s)')
    BY <2>1 DEF Out, Answered
  <2> QED BY <1>6, <2>1, <2>2 DEF CallInv, OneAnswer
<1>8. CASE t \in Connects
  <2>1. Connects' = Connects \ {t} /\ Answers' = Append(Answers, e) /\ Answers \in Seq(S)
    BY <1>1, <1>3, <1>4, <1>5, <1>8 DEF Connects, Answers
  <2>2. /\ DOMAIN Answers' = (DOMAIN Answers) \cup {Len(Answers) + 1} /\ Len(Answers) + 1 \notin DOMAIN Answers
        /\ Answers'[Len(Answers) + 1] = e /\ \A i \in DOMAIN Answers : Answers'[i] = Answers[i]
    BY <1>2, <2>1, AppendIsLonger
  <2>3. \A s : Answered(s)' <=> Answered(s) \/ s = t.seq
    BY <1>2, <2>2 DEF Answered
  <2>4. \A s : Out(s)' => Out(s)
    BY <1>8, <2>1, <2>3 DEF Out
  <2>5. \A i, j \in DOMAIN Answers' : Answers'[i].seq = Answers'[j].seq => i = j
    BY <1>2, <1>8, <2>2 DEF CallInv, OneAnswer, Answered
  <2>6. \A u \in Connects' : ~Answered(u.seq)'
    <3> SUFFICES ASSUME NEW u \in Connects \ {t} PROVE u.seq # t.seq /\ ~Answered(u.seq)
      BY <2>1, <2>3
    <3> QED BY <1>8 DEF CallInv, OneAnswer
  <2>7. OneAnswer'
    BY <2>1, <2>4, <2>5, <2>6 DEF CallInv, OneAnswer
  <2> QED BY <1>6, <2>7 DEF CallInv
<1> QED BY <1>7, <1>8

LEMMA ElsewhereCalls == ASSUME CallInv, Elsewhere PROVE CallInv'
<1>0. UNCHANGED <<rejoin, rejoin_seq, rejoin_epoch>>
  BY ElsewhereQuiet DEF NoRejoinEvent, rejoinVars
<1>1. ASSUME NEW t \in tasks, Check(t) \/ Return(t) PROVE CallInv'
  <2>1. PICK o \in A!AutoOutcomes : Reports(t, o)
    BY <1>1 DEF Check, Return, A!AutoOutcomes
  <2> QED BY <1>0, <2>1, CallsAnswer
<1>2. ASSUME NEW t \in tasks, Call(t) \/ Linked(t) PROVE CallInv'
  <2>1. /\ UNCHANGED results
        /\ \E g \in Stages : tasks' = (tasks \ {t}) \cup {[t EXCEPT !.stage = g]}
    BY <1>2 DEF Call, Linked, Stages
  <2> QED BY <1>0, <2>1, CallsMove
<1>3. CASE Environment
  BY <1>0, <1>3 DEF Environment, CallInv, CallType, OneAnswer, Out, Answered, Answers, Connects
<1> QED BY <1>1, <1>2, <1>3 DEF Elsewhere, Task

LEMMA CallStep == PagerInv /\ CallInv /\ [LinkNext]_lvars => CallInv'
<1> SUFFICES ASSUME PagerInv, CallInv, [LinkNext]_lvars PROVE CallInv'
  OBVIOUS
<1>0. PagerInv'
  BY PagerStep
<1>1. CASE \/ OnConnected \/ OnLinkDown \/ OnIdentity \/ OnPacket \/ OnManualCommand
           \/ \E b \in BOOLEAN : OnSetHandoff(b)
  <2>1. (Keeps \/ Ends) /\ Unmoved
    BY <1>1, RejoinListens
       DEF OnConnected, OnLinkDown, OnIdentity, OnPacket, OnManualCommand, OnSetHandoff
  <2>2. Perform /\ UNCHANGED results
    BY <1>1 DEF OnConnected, OnLinkDown, OnIdentity, OnPacket, OnManualCommand, OnSetHandoff
  <2> QED BY <1>0, <2>1, <2>2, QuietWake DEF Unmoved
<1>2. CASE OnSighting
  <2>1. (Keeps \/ Ends) /\ Unmoved
    BY <1>2, RejoinListens DEF OnSighting
  <2> QED BY <1>0, <1>2, <2>1, QuietWake DEF OnSighting, Unmoved
<1>3. ASSUME NEW b \in BOOLEAN, OnDisconnected(b) PROVE CallInv'
  BY <1>0, <1>3, DropCalls DEF OnDisconnected
<1>4. CASE OnTick
  BY <1>0, <1>4, TickCalls DEF OnTick
<1>5. CASE OnRejoinResult
  BY <1>0, <1>5, ResultCalls
<1>6. CASE OnAutoResult
  <2>1. Keeps /\ UNCHANGED rejoin_seq /\ Perform
    BY <1>6 DEF OnAutoResult, NoRejoinEvent, rejoinVars, Keeps, Told
  <2>2. results' = [results EXCEPT !["auto"] = Tail(@)] /\ results["auto"] # <<>>
    BY <1>6 DEF OnAutoResult
  <2> DEFINE S == [seq : Nat, outcome : A!AutoOutcomes]
  <2>3. results \in [Policies -> Seq(S)] /\ "auto" \in Policies /\ "rejoin" \in Policies
    BY DEF CallInv, CallType, Policies
  <2> HIDE DEF S
  <2>4. results' \in [Policies -> Seq(S)] /\ Answers' = Answers
    BY <2>2, <2>3, TailIsRest DEF Answers
  <2>5. Connects' = Connects /\ tasks' \subseteq [by : Policies, seq : Nat, stage : Stages]
        /\ rejoin_epoch' = rejoin_epoch /\ rejoin' = rejoin
    BY <1>0, <2>1, PerformSpawns DEF Keeps
  <2>6. \A s : (Answered(s) <=> Answered(s)') /\ (Out(s) <=> Out(s)')
    BY <2>4, <2>5 DEF Out, Answered
  <2>7. CallType'
    BY <2>1, <2>4, <2>5 DEF CallInv, CallType, S
  <2>8. OneAnswer'
    BY <2>1, <2>4, <2>5, <2>6 DEF CallInv, OneAnswer
  <2> QED BY <2>7, <2>8 DEF CallInv
<1>7. CASE Elsewhere
  BY <1>7, ElsewhereCalls
<1>8. CASE Pass \/ UNCHANGED lvars
  <2>1. UNCHANGED <<rejoin_seq, rejoin_epoch, tasks, results>>
    BY <1>8 DEF Pass, R!RejoinPass, taskVars, lvars, rejoinVars
  <2>2. rejoin'.seq = rejoin.seq /\ rejoin'.in_flight = rejoin.in_flight
    <3>1. CASE UNCHANGED rejoin
      BY <3>1
    <3>2. CASE rejoin \in RejoinSequence /\ R!RejoinPass
      BY <3>2 DEF R!RejoinPass, RejoinSequence
    <3>3. CASE rejoin = R!NoRejoin /\ R!RejoinPass
      BY <3>3 DEF R!RejoinPass, R!NoRejoin
    <3> QED BY <1>8, <3>1, <3>2, <3>3 DEF Pass, lvars, rejoinVars, PagerInv
  <2>3. Connects' = Connects /\ Answers' = Answers
        /\ \A s : (Answered(s) <=> Answered(s)') /\ (Out(s) <=> Out(s)')
    BY <2>1 DEF Connects, Answers, Answered, Out
  <2>4. CallType'
    BY <2>1, <2>2 DEF CallInv, CallType
  <2>5. OneAnswer'
    BY <2>1, <2>2, <2>3 DEF CallInv, OneAnswer
  <2> QED BY <2>4, <2>5 DEF CallInv
<1> QED BY <1>1, <1>2, <1>3, <1>4, <1>5, <1>6, <1>7, <1>8 DEF LinkNext, Supervisor, Elsewhere

(* A task that starts its call is the one its sequence waits for. *)
LEMMA CallsStand ==
    ASSUME PagerInv, CallInv, [LinkNext]_lvars, NEW t \in Calls("rejoin")
    PROVE  rejoin.seq = t.seq /\ rejoin.in_flight
<1> DEFINE u == [t EXCEPT !.stage = "calling"]
<1>1. t \in Connects /\ t.stage = "checking" /\ u \in tasks'
  BY DEF Calls, Connects
<1>2. u.seq = t.seq /\ u.by = t.by /\ u.stage = "calling" /\ u # t
  BY <1>1 DEF CallInv, CallType, Connects
<1> HIDE DEF u
<1>3. u \notin tasks
  BY <1>1, <1>2 DEF CallInv, OneAnswer, Connects
<1>4. ASSUME Perform PROVE FALSE
  <2>1. u \in Spawned("rejoin", rejoin_does', rejoin'.seq) \cup Spawned("auto", auto_does', auto'.seq)
    BY <1>1, <1>3, <1>4 DEF Perform
  <2> QED BY <1>2, <2>1 DEF Spawned
<1>5. ~Supervisor /\ ~Pass /\ ~Environment /\ ~UNCHANGED lvars
  BY <1>1, <1>3, <1>4
     DEF Supervisor, OnConnected, OnLinkDown, OnIdentity, OnPacket, OnSighting, OnManualCommand,
         OnDisconnected, OnSetHandoff, OnTick, OnRejoinResult, OnAutoResult, Pass, taskVars,
         Environment, lvars
<1>6. PICK w \in tasks : Check(w) \/ Call(w) \/ Linked(w) \/ Return(w)
  BY <1>5 DEF LinkNext, Task
<1>7. ~Check(w) /\ ~Return(w)
  BY <1>1, <1>3 DEF Check, Return, Reports
<1>8. ~Linked(w)
  <2>1. [w EXCEPT !.stage = "linked"].stage = "linked"
    BY DEF CallInv, CallType
  <2> QED BY <1>1, <1>2, <1>3, <2>1 DEF Linked
<1>9. Call(w) /\ u = [w EXCEPT !.stage = "calling"]
  BY <1>1, <1>3, <1>6, <1>7, <1>8 DEF Call
<1>10. w.seq = t.seq /\ w.by = "rejoin"
  BY <1>1, <1>2, <1>9 DEF CallInv, CallType, Connects
<1>11. w = t
  BY <1>1, <1>10 DEF Connects, CallInv, OneAnswer
<1>12. rejoin_epoch = t.seq
  BY <1>9, <1>10 DEF Call, Epoch
<1> QED BY <1>1, <1>12 DEF CallInv, OneAnswer, Out

(* A rejoin task calls Device1.Connect only for a sequence that still      *)
(* waits for it, however late it gets to the call (session.rs              *)
(* rejoin_event, spawn_rejoin, rejoin_connect).                            *)
THEOREM NoSupersededRejoinPages == LinkSpec => RejoinCallsStand
<1> DEFINE Stands == \A t \in Calls("rejoin") : rejoin.seq = t.seq /\ rejoin.in_flight
<1>1. LinkInit => PagerInv /\ CallInv
  BY PagerStart, CallStart
<1>2. PagerInv /\ CallInv /\ [LinkNext]_lvars => (PagerInv /\ CallInv)'
  BY PagerStep, CallStep
<1>3. PagerInv /\ CallInv /\ [LinkNext]_lvars => [Stands]_lvars
  BY CallsStand
<1>4. LinkSpec => [][Stands]_lvars
  BY <1>1, <1>2, <1>3, PTL DEF LinkSpec
<1> QED BY <1>4 DEF RejoinCallsStand
----------------------------------------------------------------------------
(* The types: the watcher's streams, and epochs of sequences that were. *)
StreamsType ==
    /\ link \in BOOLEAN /\ acl \in BOOLEAN
    /\ props \in Seq(Signals) /\ drops \in Seq(DropReasons)

LEMMA StreamsStep == ASSUME StreamsType, [LinkNext]_lvars PROVE StreamsType'
<1>1. link \in BOOLEAN /\ acl \in BOOLEAN /\ props \in Seq(Signals) /\ drops \in Seq(DropReasons)
  BY DEF StreamsType
<1>2. CASE Supervisor
  <2>1. acl' \in BOOLEAN /\ link' = link
    BY <1>1, <1>2
       DEF Supervisor, OnConnected, OnLinkDown, OnIdentity, OnDisconnected, OnPacket, OnSighting,
           OnManualCommand, OnSetHandoff, OnTick, OnRejoinResult, OnAutoResult, bluezVars
  <2>2. props' = props \/ (props # <<>> /\ props' = Tail(props))
    BY <1>2
       DEF Supervisor, OnConnected, OnLinkDown, OnIdentity, OnDisconnected, OnPacket, OnSighting,
           OnManualCommand, OnSetHandoff, OnTick, OnRejoinResult, OnAutoResult, bluezVars
  <2>3. drops' = drops \/ (drops # <<>> /\ drops' = Tail(drops))
    BY <1>2
       DEF Supervisor, OnConnected, OnLinkDown, OnIdentity, OnDisconnected, OnPacket, OnSighting,
           OnManualCommand, OnSetHandoff, OnTick, OnRejoinResult, OnAutoResult, bluezVars
  <2>4. props' \in Seq(Signals) /\ drops' \in Seq(DropReasons)
    BY <1>1, <2>2, <2>3, TailIsRest
  <2> QED BY <2>1, <2>4, <1>1 DEF StreamsType
<1>3. CASE Task
  <2>1. PICK t \in tasks : Check(t) \/ Call(t) \/ Linked(t) \/ Return(t)
    BY <1>3 DEF Task
  <2>2. acl' = acl /\ drops' = drops /\ link' \in BOOLEAN
        /\ (props' = props \/ props' = Append(props, "up"))
    BY <1>1, <2>1 DEF Check, Call, Linked, Return, Quiet, bluezVars
  <2>3. props' \in Seq(Signals)
    BY <1>1, <2>2 DEF Signals
  <2> QED BY <1>1, <2>2, <2>3 DEF StreamsType
<1>4. CASE Environment
  <2>1. acl' = acl
    BY <1>4 DEF Environment, Quiet
  <2>2. link' \in BOOLEAN
    BY <1>1, <1>4 DEF Environment, LinkUp, LinkDown, WatchFails, WatchStarts
  <2>3. drops' = drops \/ \E reason \in DropReasons : drops' = Append(drops, reason)
    BY <1>4 DEF Environment, LinkUp, LinkDown, WatchFails, WatchStarts
  <2>4. \/ \E s \in Signals : props' = Append(props, s)
        \/ \E s \in Signals : props' = props \o <<"identity", s>>
    BY <1>4 DEF Environment, LinkUp, LinkDown, WatchFails, WatchStarts, Signals
  <2>5. drops' \in Seq(DropReasons)
    BY <1>1, <2>3
  <2>6. props' \in Seq(Signals)
    <3>1. ASSUME NEW s \in Signals PROVE <<"identity", s>> \in Seq(Signals) /\ Append(props, s) \in Seq(Signals)
      <4>1. "identity" \in Signals
        BY DEF Signals
      <4> QED BY <1>1, <4>1
    <3>2. ASSUME NEW s \in Signals PROVE props \o <<"identity", s>> \in Seq(Signals)
      BY <1>1, <3>1
    <3> QED BY <2>4, <3>1, <3>2
  <2> QED BY <2>1, <2>2, <2>5, <2>6, <1>1 DEF StreamsType
<1>5. CASE Pass \/ UNCHANGED lvars
  BY <1>1, <1>5 DEF Pass, lvars, bluezVars, StreamsType
<1> QED BY <1>2, <1>3, <1>4, <1>5 DEF LinkNext

(* Sequences are numbered upwards, and a pending one has its number. *)
Numbered ==
    /\ auto.seq \in 0..auto_seq
    /\ rejoin_epoch \in 0..rejoin_seq /\ auto_epoch \in 0..auto_seq

LEMMA AutoCounts ==
    ASSUME PagerInv, Numbered, [LinkNext]_lvars
    PROVE  auto_seq' \in Nat /\ auto_seq' >= auto_seq /\ auto'.seq \in 0..auto_seq'
<1>1. auto_seq \in Nat /\ auto.seq \in 0..auto_seq /\ A!NoAuto.seq = 0
      /\ (auto = A!NoAuto \/ auto \in AutoSequence)
  BY DEF PagerInv, Numbered, A!NoAuto
<1>2. ASSUME auto_seq' = auto_seq, auto' = auto \/ auto' = A!NoAuto
      PROVE  auto_seq' \in Nat /\ auto_seq' >= auto_seq /\ auto'.seq \in 0..auto_seq'
  BY <1>1, <1>2
<1>3. ASSUME auto_seq' = auto_seq + 1, auto'.seq = auto_seq + 1
      PROVE  auto_seq' \in Nat /\ auto_seq' >= auto_seq /\ auto'.seq \in 0..auto_seq'
  BY <1>1, <1>3
<1>4. ASSUME auto_seq' = auto_seq, auto'.seq = auto.seq
      PROVE  auto_seq' \in Nat /\ auto_seq' >= auto_seq /\ auto'.seq \in 0..auto_seq'
  BY <1>1, <1>4
<1>5. CASE A!LocalConnected \/ A!AutoManualCommand \/ NoAutoEvent \/ (\E r : A!LocalDisconnected(r))
           \/ UNCHANGED lvars
  BY <1>2, <1>5 DEF A!LocalConnected, A!AutoManualCommand, NoAutoEvent, A!LocalDisconnected, autoVars, lvars
<1>6. ASSUME NEW near, NEW pending, A!Seen(near, pending)
      PROVE  auto_seq' \in Nat /\ auto_seq' >= auto_seq /\ auto'.seq \in 0..auto_seq'
  BY <1>2, <1>3, <1>6 DEF A!Seen
<1>7. ASSUME NEW pending, A!AutoTick(pending)
      PROVE  auto_seq' \in Nat /\ auto_seq' >= auto_seq /\ auto'.seq \in 0..auto_seq'
  <2>1. [auto EXCEPT !.in_flight = TRUE].seq = auto.seq
    BY <1>1 DEF AutoSequence, A!NoAuto
  <2>2. CASE A!fallback_page(pending)
    <3>1. CASE auto_seq' = auto_seq + 1 /\ auto' = [seq |-> auto_seq + 1, attempt |-> 1, due |-> 0,
                                                   in_flight |-> TRUE, fallback |-> TRUE]
      BY <1>3, <3>1
    <3>2. CASE UNCHANGED <<auto, auto_seq>>
      BY <1>2, <3>2
    <3> QED BY <2>2, <3>1, <3>2 DEF A!fallback_page
  <2>3. CASE UNCHANGED auto_seq /\ (auto' = auto \/ auto' = A!NoAuto)
    BY <1>2, <2>3
  <2>4. CASE UNCHANGED auto_seq /\ auto' = [auto EXCEPT !.in_flight = TRUE]
    BY <1>4, <2>1, <2>4
  <2> QED BY <1>7, <2>2, <2>3, <2>4 DEF A!AutoTick
<1>8. ASSUME NEW s, NEW o, A!AutoFinished(s, o)
      PROVE  auto_seq' \in Nat /\ auto_seq' >= auto_seq /\ auto'.seq \in 0..auto_seq'
  <2>1. \A n, w : [auto EXCEPT !.attempt = n, !.in_flight = FALSE, !.due = w].seq = auto.seq
    BY <1>1 DEF AutoSequence, A!NoAuto
  <2>2. auto_seq' = auto_seq
    BY <1>8 DEF A!AutoFinished
  <2>3. \/ auto' = auto \/ auto' = A!NoAuto
        \/ \E n, w : auto' = [auto EXCEPT !.attempt = n, !.in_flight = FALSE, !.due = w]
    BY <1>8 DEF A!AutoFinished
  <2> QED BY <1>2, <1>4, <2>1, <2>2, <2>3
<1>9. CASE A!AutoPass
  <2>1. \A w : [auto EXCEPT !.due = w].seq = auto.seq
    BY <1>1 DEF AutoSequence, A!NoAuto
  <2> QED BY <1>4, <1>9, <2>1 DEF A!AutoPass
<1> QED
  BY <1>5, <1>6, <1>7, <1>8, <1>9, ElsewhereQuiet
     DEF LinkNext, Supervisor, OnConnected, OnLinkDown, OnIdentity, OnDisconnected, OnPacket,
         OnSighting, OnManualCommand, OnSetHandoff, OnTick, OnRejoinResult, OnAutoResult, Pass,
         Elsewhere

LEMMA RejoinCounts ==
    ASSUME PagerInv, [LinkNext]_lvars PROVE rejoin_seq' \in Nat /\ rejoin_seq' >= rejoin_seq
<1>1. rejoin_seq \in Nat
  BY DEF PagerInv
<1>2. rejoin_seq' = rejoin_seq \/ rejoin_seq' = rejoin_seq + 1
  BY ElsewhereQuiet
     DEF LinkNext, Supervisor, OnConnected, OnLinkDown, OnIdentity, OnDisconnected, OnPacket,
         OnSighting, OnManualCommand, OnSetHandoff, OnTick, OnRejoinResult, OnAutoResult, Pass,
         Elsewhere, NoRejoinEvent, rejoinVars, lvars, R!ReportsDevices, R!Relay, R!Ear,
         R!Disconnected, R!Connected, R!AdapterGone, R!IdentityChanged, R!ManualCommand,
         R!SetEnabled, R!RejoinTick, R!ConnectFinished, R!RejoinPass
<1> QED BY <1>1, <1>2

LEMMA NumbersStep ==
    ASSUME PagerInv, CallInv, CallInv', Numbered, [LinkNext]_lvars PROVE Numbered'
<1>1. /\ auto_seq' \in Nat /\ auto_seq' >= auto_seq /\ auto'.seq \in 0..auto_seq'
      /\ rejoin_seq' \in Nat /\ rejoin_seq' >= rejoin_seq /\ rejoin'.seq \in 0..rejoin_seq'
      /\ rejoin_epoch \in 0..rejoin_seq /\ auto_epoch \in 0..auto_seq
      /\ rejoin_seq \in Nat /\ auto_seq \in Nat
  BY AutoCounts, RejoinCounts DEF CallInv, CallType, Numbered, PagerInv
<1>2. rejoin_epoch' \in {0, rejoin'.seq, rejoin_epoch} /\ auto_epoch' \in {0, auto'.seq, auto_epoch}
  <2>1. CASE Perform
    BY <2>1 DEF Perform, rejoin_event, autoconnect_event
  <2>2. CASE Elsewhere \/ Pass \/ UNCHANGED lvars
    BY <2>2, ElsewhereQuiet DEF Pass, taskVars, lvars
  <2> QED
    BY <2>1, <2>2
       DEF LinkNext, Supervisor, OnConnected, OnLinkDown, OnIdentity, OnDisconnected, OnPacket,
           OnSighting, OnManualCommand, OnSetHandoff, OnTick, OnRejoinResult, OnAutoResult, Elsewhere
<1> QED BY <1>1, <1>2 DEF Numbered

(* The types of the composition's state: in particular an epoch names no   *)
(* sequence that was never started, so that no task can be taken for one   *)
(* of a sequence to come (session.rs rejoin_event, autoconnect_event).     *)
THEOREM LinkTypeCorrect == LinkSpec => []LinkTypeOK
<1>1. LinkInit => PagerInv /\ CallInv /\ StreamsType /\ Numbered
  <2>1. LinkInit => StreamsType
    <3>1. LinkInit => link = FALSE /\ acl = FALSE /\ props = <<>> /\ drops = <<>>
      BY DEF LinkInit
    <3>2. <<>> \in Seq(Signals) /\ <<>> \in Seq(DropReasons)
      OBVIOUS
    <3> QED BY <3>1, <3>2 DEF StreamsType
  <2>2. LinkInit => rejoin_seq = 0 /\ auto_seq = 0 /\ auto.seq = 0 /\ rejoin_epoch = 0 /\ auto_epoch = 0
    BY DEF LinkInit, R!RejoinInit, A!AutoInit, A!NoAuto
  <2>3. LinkInit => Numbered
    BY <2>2 DEF Numbered
  <2> QED BY <2>1, <2>3, PagerStart, CallStart
<1>2. PagerInv /\ CallInv /\ StreamsType /\ Numbered /\ [LinkNext]_lvars
        => (PagerInv /\ CallInv /\ StreamsType /\ Numbered)'
  BY PagerStep, CallStep, StreamsStep, NumbersStep
<1>3. PagerInv /\ CallInv /\ StreamsType /\ Numbered => LinkTypeOK
  BY DEF CallInv, CallType, StreamsType, Numbered, LinkTypeOK
<1> QED BY <1>1, <1>2, <1>3, PTL DEF LinkSpec
=============================================================================
