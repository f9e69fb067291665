------------------------- MODULE AutoConnectProofs --------------------------
(***************************************************************************)
(* Proofs about the three parts that watch for the AirPods: the decision   *)
(* to page (AutoConnect) under any delays, budgets and backoffs that       *)
(* AutoAssumption admits, the advert scan (Scanner) for any addresses and  *)
(* waits, and the task that follows the media transports (AudioWatch) for  *)
(* any transports and signals.                                             *)
(***************************************************************************)
EXTENDS AutoConnectWatch, Scanner, AudioWatch, FiniteSetTheorems, TLAPS

(* Inductive: types, and what a pending sequence is: it has made an        *)
(* attempt, and one of the fallback is in flight as long as it exists.     *)
SequenceOK ==
    /\ auto_pending => auto.attempt >= 1
    /\ auto.fallback => auto.in_flight

AutoSequences ==
    [seq : Nat, attempt : 0..AUTO_ATTEMPTS, due : Nat, in_flight : BOOLEAN, fallback : BOOLEAN]

LEMMA AutoWindows ==
    /\ ABSENCE \in Nat /\ SETTLE \in Nat /\ ADVERT_FRESH \in Nat
    /\ FALLBACK_FIRST \in Nat /\ FALLBACK_INTERVAL \in Nat /\ FALLBACK_BUDGET \in Nat
    /\ AUTO_ATTEMPTS \in Nat /\ AUTO_ATTEMPTS >= 1
    /\ SEEN_WINDOW \in Nat /\ SEEN_WINDOW >= ABSENCE /\ SEEN_WINDOW >= ADVERT_FRESH + 1
    /\ NoFallback = FALLBACK_BUDGET + 1
    /\ NotDue = -1
  BY AutoAssumption DEF SEEN_WINDOW, NoFallback, NotDue

LEMMA NoSequence ==
    /\ NoAuto \in AutoSequences
    /\ ~NoAuto.in_flight /\ ~NoAuto.fallback /\ NoAuto.due = 0 /\ NoAuto.seq = 0
  BY AutoAssumption DEF NoAuto, AutoSequences

LEMMA LaterTyped ==
    ASSUME NEW w \in Nat, NEW a \in 0..w
    PROVE  Later(a, w) \in 0..w
  BY DEF Later

(* The anchoring and the ending of the fallback keep its types. *)
LEMMA FallbackTyped ==
    ASSUME AutoTypeOK, anchored \/ end_fallback \/ start_fallback
    PROVE  /\ fallback_start' \in BOOLEAN
           /\ fallback_from' \in 0..NoFallback
           /\ fallback_next' \in 0..FALLBACK_INTERVAL \cup {NotDue}
<1>1. away \in 0..NoFallback
  BY AutoWindows DEF AutoTypeOK, away
<1>2. 0 \in 0..NoFallback /\ NoFallback \in 0..NoFallback
  BY AutoWindows
<1>3. CASE anchored
  BY <1>1, <1>3 DEF AutoTypeOK, anchored
<1>4. CASE end_fallback \/ start_fallback
  BY <1>2, <1>4 DEF end_fallback, start_fallback
<1>5. QED
  BY <1>3, <1>4

LEMMA AutoTypeInit == AutoInit => AutoTypeOK /\ SequenceOK
<1> SUFFICES ASSUME AutoInit PROVE AutoTypeOK /\ SequenceOK
  OBVIOUS
<1>1. /\ last_seen \in 0..SEEN_WINDOW /\ fallback_from \in 0..NoFallback
      /\ fallback_next \in 0..FALLBACK_INTERVAL \cup {NotDue} /\ auto_seq \in Nat
  BY AutoWindows DEF AutoInit
<1>2. connected \in BOOLEAN /\ disarmed \in BOOLEAN /\ fallback_start \in BOOLEAN
      /\ auto_does \subseteq AutoEffects
  BY DEF AutoInit
<1>3. auto \in AutoSequences /\ SequenceOK
  BY NoSequence DEF AutoInit, SequenceOK, auto_pending
<1>4. QED
  BY <1>1, <1>2, <1>3 DEF AutoTypeOK, AutoSequences

LEMMA AutoTypeNext ==
    ASSUME AutoTypeOK, SequenceOK, [AutoNext]_avars
    PROVE  AutoTypeOK' /\ SequenceOK'
<1> USE DEF presenceVars, fallbackVars
<1> DEFINE Rest == /\ connected' \in BOOLEAN /\ disarmed' \in BOOLEAN
                   /\ last_seen' \in 0..SEEN_WINDOW /\ auto_seq' \in Nat
           Fall == /\ fallback_start' \in BOOLEAN
                   /\ fallback_from' \in 0..NoFallback
                   /\ fallback_next' \in 0..FALLBACK_INTERVAL \cup {NotDue}
           Seqn == auto' \in AutoSequences /\ SequenceOK'
           Does == auto_does' \subseteq AutoEffects
<1>t. /\ connected \in BOOLEAN /\ disarmed \in BOOLEAN
      /\ last_seen \in 0..SEEN_WINDOW /\ 0 \in 0..SEEN_WINDOW /\ auto_seq \in Nat
      /\ auto_seq + 1 \in Nat
      /\ auto \in AutoSequences
  BY AutoWindows DEF AutoTypeOK, AutoSequences
<1>n. ASSUME auto' = NoAuto PROVE Seqn
  BY <1>n, NoSequence DEF SequenceOK, auto_pending
<1>u. ASSUME auto' = auto PROVE Seqn
  BY <1>u, <1>t DEF SequenceOK, auto_pending
<1>c. AutoCancelled \subseteq AutoEffects /\ Disarmed \subseteq AutoEffects
  BY DEF AutoCancelled, Disarmed, AutoEffects
<1>q. ASSUME Rest, Fall, Seqn, Does PROVE AutoTypeOK' /\ SequenceOK'
  BY <1>q DEF AutoTypeOK, AutoSequences
<1>1. ASSUME NEW near \in BOOLEAN, NEW rp \in BOOLEAN, Seen(near, rp)
      PROVE  AutoTypeOK' /\ SequenceOK'
  <2>1. Fall
    BY <1>1, FallbackTyped DEF Seen
  <2>2. Rest
    BY <1>1, <1>t DEF Seen
  <2>3. Does
    BY <1>1 DEF Seen, AutoEffects
  <2>4. auto' = auto \/ auto' = [seq |-> auto_seq + 1, attempt |-> 1, due |-> SETTLE,
                                 in_flight |-> FALSE, fallback |-> FALSE]
    BY <1>1 DEF Seen
  <2>5. Seqn
    <3>1. CASE auto' = [seq |-> auto_seq + 1, attempt |-> 1, due |-> SETTLE,
                        in_flight |-> FALSE, fallback |-> FALSE]
      BY <3>1, <1>t, AutoWindows DEF AutoSequences, SequenceOK
    <3>2. QED
      BY <2>4, <3>1, <1>u
  <2>6. QED
    BY <2>1, <2>2, <2>3, <2>5, <1>q
<1>2. ASSUME NEW rp \in BOOLEAN, AutoTick(rp)
      PROVE  AutoTypeOK' /\ SequenceOK'
  <2>1. Rest
    BY <1>2, <1>t DEF AutoTick, fallback_page, anchored
  <2>2. Fall
    <3>1. anchored \/ (/\ fallback_start' = FALSE /\ fallback_from' = away
                       /\ fallback_next' = FALLBACK_INTERVAL)
      BY <1>2 DEF AutoTick, fallback_page
    <3>2. away \in 0..NoFallback
      BY AutoWindows DEF AutoTypeOK, away
    <3>3. FALLBACK_INTERVAL \in 0..FALLBACK_INTERVAL
      BY AutoWindows
    <3>4. QED
      BY <3>1, <3>2, <3>3, FallbackTyped
  <2>3. Does
    BY <1>2 DEF AutoTick, fallback_page, AutoEffects
  <2>4. \/ auto' = auto \/ auto' = NoAuto
        \/ auto' = [seq |-> auto_seq + 1, attempt |-> 1, due |-> 0, in_flight |-> TRUE,
                    fallback |-> TRUE]
        \/ auto_pending /\ auto' = [auto EXCEPT !.in_flight = TRUE]
    BY <1>2 DEF AutoTick, fallback_page
  <2>5. Seqn
    <3>1. CASE auto' = [seq |-> auto_seq + 1, attempt |-> 1, due |-> 0, in_flight |-> TRUE,
                        fallback |-> TRUE]
      BY <3>1, <1>t, AutoWindows DEF AutoSequences, SequenceOK
    <3>2. CASE auto_pending /\ auto' = [auto EXCEPT !.in_flight = TRUE]
      BY <3>2, <1>t DEF AutoSequences, SequenceOK
    <3>3. QED
      BY <2>4, <3>1, <3>2, <1>u, <1>n
  <2>6. QED
    BY <2>1, <2>2, <2>3, <2>5, <1>q
<1>3. CASE LocalConnected
  <2>1. Fall
    BY <1>3, FallbackTyped DEF LocalConnected
  <2>2. Rest /\ Does
    BY <1>3, <1>t, <1>c DEF LocalConnected, AutoEffects
  <2>3. QED
    BY <1>3, <2>1, <2>2, <1>n, <1>q DEF LocalConnected
<1>4. ASSUME NEW reason \in AutoReasons, LocalDisconnected(reason)
      PROVE  AutoTypeOK' /\ SequenceOK'
  <2>1. Fall
    BY <1>4, FallbackTyped DEF LocalDisconnected
  <2>2. Rest /\ Does
    BY <1>4, <1>t, <1>c DEF LocalDisconnected, disarm
  <2>3. QED
    BY <1>4, <2>1, <2>2, <1>n, <1>q DEF LocalDisconnected
<1>5. CASE AutoManualCommand
  <2>1. Fall
    BY <1>5, FallbackTyped DEF AutoManualCommand
  <2>2. Rest /\ Does
    BY <1>5, <1>t, <1>c DEF AutoManualCommand, disarm
  <2>3. QED
    BY <1>5, <2>1, <2>2, <1>n, <1>q DEF AutoManualCommand
<1>6. ASSUME auto.in_flight, NEW outcome \in AutoOutcomes, AutoFinished(auto.seq, outcome)
      PROVE  AutoTypeOK' /\ SequenceOK'
  <2>1. Fall
    BY <1>6, FallbackTyped DEF AutoFinished
  <2>2. Rest
    BY <1>6, <1>t DEF AutoFinished
  <2>3. Does
    BY <1>6 DEF AutoFinished, AutoEffects
  <2>4. \/ auto' = auto \/ auto' = NoAuto
        \/ /\ auto.attempt # AUTO_ATTEMPTS /\ ~auto.fallback
           /\ auto' = [auto EXCEPT !.attempt = auto.attempt + 1, !.in_flight = FALSE,
                                   !.due = RETRY_BACKOFF[auto.attempt]]
    BY <1>6 DEF AutoFinished, last_attempt, next_auto_attempt
  <2>5. Seqn
    <3>1. CASE /\ auto.attempt # AUTO_ATTEMPTS /\ ~auto.fallback
               /\ auto' = [auto EXCEPT !.attempt = auto.attempt + 1, !.in_flight = FALSE,
                                       !.due = RETRY_BACKOFF[auto.attempt]]
      <4>1. auto # NoAuto
        BY <1>6, NoSequence
      <4>2. auto.attempt \in 1..AUTO_ATTEMPTS - 1
        BY <3>1, <4>1, <1>t, AutoWindows DEF AutoSequences, SequenceOK, auto_pending
      <4>3. RETRY_BACKOFF[auto.attempt] \in Nat /\ auto.attempt + 1 \in 0..AUTO_ATTEMPTS
            /\ auto.attempt + 1 >= 1
        BY <4>2, AutoAssumption
      <4>4. QED
        BY <3>1, <4>3, <1>t DEF AutoSequences, SequenceOK
    <3>2. QED
      BY <2>4, <3>1, <1>u, <1>n
  <2>6. QED
    BY <2>1, <2>2, <2>3, <2>5, <1>q
<1>7. CASE AutoPass
  <2>1. Fall
    BY <1>7, AutoWindows, LaterTyped DEF AutoPass, AutoTypeOK, Sooner
  <2>2. Rest /\ Does
    BY <1>7, <1>t, AutoWindows, LaterTyped DEF AutoPass
  <2>3. Seqn
    <3>1. auto' = [auto EXCEPT !.due = Sooner(auto.due)]
      BY <1>7 DEF AutoPass
    <3>2. Sooner(auto.due) \in Nat /\ (auto.due = 0 => Sooner(auto.due) = auto.due)
      BY <1>t DEF Sooner, AutoSequences
    <3>3. CASE auto = NoAuto
      BY <3>1, <3>2, <3>3, <1>u, NoSequence DEF NoAuto
    <3>4. CASE auto # NoAuto
      BY <3>1, <3>2, <3>4, <1>t DEF AutoSequences, SequenceOK, auto_pending
    <3>5. QED
      BY <3>3, <3>4
  <2>4. QED
    BY <2>1, <2>2, <2>3, <1>q
<1>8. CASE UNCHANGED avars
  BY <1>8 DEF avars, AutoTypeOK, SequenceOK, auto_pending
<1>9. QED
  BY <1>1, <1>2, <1>3, <1>4, <1>5, <1>6, <1>7, <1>8 DEF AutoNext

(* Every event leaves the decision of the auto-connect well typed, and its *)
(* retries within the backoff table (autoconnect.rs decide).               *)
THEOREM AutoTypeCorrect == AutoSpec => []AutoTypeOK
<1>1. AutoInit => AutoTypeOK /\ SequenceOK
  BY AutoTypeInit
<1>2. AutoTypeOK /\ SequenceOK /\ [AutoNext]_avars => AutoTypeOK' /\ SequenceOK'
  BY AutoTypeNext
<1>3. QED
  BY <1>1, <1>2, PTL DEF AutoSpec

----------------------------------------------------------------------------
(* Every step of the watched machine is one of the machine. *)
LEMMA AutoWatched == [AutoWatchNext]_awvars => [AutoNext]_avars
  BY DEF AutoWatchNext, AutoNext, awvars

(* Inductive: while a decision stands the host is disarmed and pages for   *)
(* nothing, and the machine's absence is the silence the watch measures.   *)
VetoInv ==
    /\ silent \in 0..ABSENCE
    /\ AutoEnabled => silent = IF last_seen < ABSENCE THEN last_seen ELSE ABSENCE
    /\ ~AutoEnabled => ~auto_pending
    /\ vetoed => disarmed /\ ~auto_pending

(* What a step does to the silence: restarts it, lets it age, or nothing. *)
LEMMA SilenceKept ==
    ASSUME AutoTypeOK, silent \in 0..ABSENCE,
           AutoEnabled => silent = IF last_seen < ABSENCE THEN last_seen ELSE ABSENCE,
           \/ silent' = 0 /\ last_seen' = 0
           \/ silent' = silent /\ last_seen' = last_seen
           \/ silent' = 0 /\ ~AutoEnabled
           \/ silent' = Later(silent, ABSENCE) /\ last_seen' = Later(last_seen, SEEN_WINDOW)
    PROVE  /\ silent' \in 0..ABSENCE
           /\ AutoEnabled => silent' = IF last_seen' < ABSENCE THEN last_seen' ELSE ABSENCE
<1>1. last_seen \in 0..SEEN_WINDOW
  BY DEF AutoTypeOK
<1>2. silent' \in 0..ABSENCE
  BY AutoWindows DEF Later
<1>3. ASSUME AutoEnabled
      PROVE  silent' = IF last_seen' < ABSENCE THEN last_seen' ELSE ABSENCE
  BY <1>1, <1>3, AutoWindows DEF Later
<1>4. QED
  BY <1>2, <1>3

LEMMA VetoNext ==
    ASSUME AutoTypeOK, SequenceOK, VetoInv, [AutoWatchNext]_awvars
    PROVE  VetoInv'
<1> USE DEF presenceVars
<1>k. ASSUME \/ silent' = 0 /\ last_seen' = 0
             \/ silent' = silent /\ last_seen' = last_seen
             \/ silent' = 0 /\ ~AutoEnabled
             \/ silent' = Later(silent, ABSENCE) /\ last_seen' = Later(last_seen, SEEN_WINDOW),
             ~AutoEnabled => auto' = NoAuto,
             vetoed' => disarmed' /\ auto' = NoAuto
      PROVE  VetoInv'
  BY <1>k, SilenceKept DEF VetoInv, auto_pending
<1>n. (~AutoEnabled => auto = NoAuto) /\ (vetoed => disarmed /\ auto = NoAuto)
  BY DEF VetoInv, auto_pending
<1>1. ASSUME NEW near \in BOOLEAN, NEW rp \in BOOLEAN, Seen(near, rp),
             AutoWatchStep(IF near THEN "advert" ELSE "weak")
      PROVE  VetoInv'
  <2>1. CASE ~AutoEnabled \/ ~near
    <3>1. UNCHANGED <<connected, disarmed, last_seen, auto>>
      BY <1>1, <2>1 DEF Seen
    <3>2. vetoed' => vetoed
      BY <1>1 DEF AutoWatchStep
    <3>3. silent' = silent \/ (silent' = 0 /\ ~AutoEnabled)
      BY <1>1, <2>1 DEF AutoWatchStep
    <3>4. QED
      BY <3>1, <3>2, <3>3, <1>n, <1>k
  <2>2. CASE AutoEnabled /\ near
    <3>1. last_seen' = 0
      BY <1>1, <2>2 DEF Seen
    <3>2. silent' = 0 /\ vetoed' = (vetoed /\ silent # ABSENCE)
      BY <1>1, <2>2 DEF AutoWatchStep
    <3>3. absent => silent = ABSENCE
      <4>1. last_seen \in 0..SEEN_WINDOW
        BY DEF AutoTypeOK
      <4>2. QED
        BY <2>2, <4>1, AutoWindows DEF VetoInv, absent
    <3>4. ~absent => disarmed' = disarmed /\ auto' = auto
      BY <1>1, <2>2 DEF Seen
    <3>5. vetoed' => disarmed' /\ auto' = NoAuto
      BY <3>2, <3>3, <3>4, <1>n
    <3>6. QED
      BY <2>2, <3>1, <3>2, <3>5, <1>k
  <2>3. QED
    BY <2>1, <2>2
<1>2. ASSUME NEW rp \in BOOLEAN, AutoTick(rp), AutoWatchStep("tick")
      PROVE  VetoInv'
  <2>1. UNCHANGED <<disarmed, last_seen>>
    BY <1>2 DEF AutoTick
  <2>2. silent' = silent /\ (vetoed' <=> vetoed)
    BY <1>2 DEF AutoWatchStep
  <2>3. (~AutoEnabled \/ disarmed) /\ auto = NoAuto => auto' = NoAuto
    BY <1>2 DEF AutoTick, fallback_page, auto_pending
  <2>4. QED
    BY <2>1, <2>2, <2>3, <1>n, <1>k
<1>3. ASSUME LocalConnected, AutoWatchStep("up")
      PROVE  VetoInv'
  <2>1. last_seen' = 0 /\ auto' = NoAuto /\ disarmed' = disarmed
    BY <1>3 DEF LocalConnected
  <2>2. silent' = 0 /\ (vetoed' <=> vetoed)
    BY <1>3 DEF AutoWatchStep
  <2>3. QED
    BY <2>1, <2>2, <1>n, <1>k
<1>4. ASSUME NEW reason \in AutoReasons, LocalDisconnected(reason),
             AutoWatchStep(DropKind(reason))
      PROVE  VetoInv'
  <2>1. last_seen' = 0 /\ auto' = NoAuto
        /\ (reason = "Local" => disarmed') /\ (disarmed => disarmed')
    BY <1>4 DEF LocalDisconnected, disarm
  <2>2. silent' = 0 /\ (vetoed' => vetoed \/ reason = "Local")
    BY <1>4 DEF AutoWatchStep, DropKind
  <2>3. QED
    BY <2>1, <2>2, <1>n, <1>k
<1>5. ASSUME AutoManualCommand, AutoWatchStep("manual")
      PROVE  VetoInv'
  <2>1. last_seen' = last_seen /\ auto' = NoAuto /\ disarmed'
    BY <1>5 DEF AutoManualCommand, disarm
  <2>2. silent' = silent
    BY <1>5 DEF AutoWatchStep
  <2>3. QED
    BY <2>1, <2>2, <1>n, <1>k
<1>6. ASSUME NEW outcome \in AutoOutcomes, auto.in_flight, AutoFinished(auto.seq, outcome),
             AutoWatchStep("result")
      PROVE  VetoInv'
  <2>1. last_seen' = last_seen /\ auto # NoAuto
    BY <1>6, NoSequence DEF AutoFinished
  <2>2. silent' = silent /\ (vetoed' <=> vetoed)
    BY <1>6 DEF AutoWatchStep
  <2>3. QED
    BY <2>1, <2>2, <1>n, <1>k
<1>7. ASSUME AutoPass, AutoWatchStep("pass")
      PROVE  VetoInv'
  <2>1. last_seen' = Later(last_seen, SEEN_WINDOW) /\ disarmed' = disarmed
    BY <1>7 DEF AutoPass
  <2>2. silent' = Later(silent, ABSENCE) /\ (vetoed' <=> vetoed)
    BY <1>7 DEF AutoWatchStep
  <2>3. auto = NoAuto => auto' = NoAuto
    BY <1>7 DEF AutoPass, NoAuto, Sooner
  <2>4. QED
    BY <2>1, <2>2, <2>3, <1>n, <1>k
<1>8. CASE UNCHANGED awvars
  BY <1>8 DEF awvars, avars, autoWatch, VetoInv, auto_pending
<1>9. QED
  BY <1>1, <1>2, <1>3, <1>4, <1>5, <1>6, <1>7, <1>8 DEF AutoWatchNext

(* Only a tick pages, and then for a sequence that waited, or the fallback *)
(* of a host that is armed.                                                *)
LEMMA TickPages ==
    ASSUME [AutoWatchNext]_awvars, awvars' # awvars, AutoPages \/ FallbackPages
    PROVE  \E rp \in BOOLEAN : AutoTick(rp) /\ AutoWatchStep("tick")
<1> DEFINE Quiet == ~AutoPages /\ ~FallbackPages
<1>1. Quiet \/ \E rp \in BOOLEAN : AutoTick(rp) /\ AutoWatchStep("tick")
  <2>1. ASSUME NEW near \in BOOLEAN, NEW rp \in BOOLEAN, Seen(near, rp)
        PROVE  Quiet
    BY <2>1 DEF Seen, AutoPages, FallbackPages
  <2>2. LocalConnected => Quiet
    BY DEF LocalConnected, AutoPages, FallbackPages, AutoCancelled
  <2>3. ASSUME NEW reason \in AutoReasons, LocalDisconnected(reason)
        PROVE  Quiet
    BY <2>3 DEF LocalDisconnected, AutoPages, FallbackPages, AutoCancelled, Disarmed
  <2>4. AutoManualCommand => Quiet
    BY DEF AutoManualCommand, AutoPages, FallbackPages, AutoCancelled, Disarmed
  <2>5. ASSUME NEW outcome \in AutoOutcomes, AutoFinished(auto.seq, outcome)
        PROVE  Quiet
    BY <2>5 DEF AutoFinished, AutoPages, FallbackPages
  <2>6. AutoPass => Quiet
    BY DEF AutoPass, AutoPages, FallbackPages
  <2>7. QED
    BY <2>1, <2>2, <2>3, <2>4, <2>5, <2>6 DEF AutoWatchNext
<1>2. QED
  BY <1>1

LEMMA VetoInit == AutoWatchInit => VetoInv
<1> SUFFICES ASSUME AutoWatchInit PROVE VetoInv
  OBVIOUS
<1>1. silent \in 0..ABSENCE /\ silent = IF last_seen < ABSENCE THEN last_seen ELSE ABSENCE
  BY AutoWindows DEF AutoWatchInit, AutoInit
<1>2. QED
  BY <1>1 DEF AutoWatchInit, AutoInit, VetoInv, auto_pending

(* A command to connect, or a disconnect by this host, stands until the    *)
(* AirPods were away for the whole absence and heard again: nothing else   *)
(* makes decide page (autoconnect.rs decide).                              *)
THEOREM UserDecision == AutoWatchSpec => UserDecisionSticks
<1> DEFINE I == AutoTypeOK /\ SequenceOK /\ VetoInv
<1>1. AutoWatchInit => I
  BY AutoTypeInit, VetoInit DEF AutoWatchInit
<1>2. I /\ [AutoWatchNext]_awvars => I'
  BY AutoTypeNext, VetoNext, AutoWatched
<1>3. I /\ [AutoWatchNext]_awvars => [AutoPages => ~vetoed]_awvars
  <2> SUFFICES ASSUME I, [AutoWatchNext]_awvars, awvars' # awvars, AutoPages
               PROVE  ~vetoed
    OBVIOUS
  <2>1. PICK rp \in BOOLEAN : AutoTick(rp)
    BY TickPages
  <2>2. auto_pending \/ ~disarmed
    BY <2>1 DEF AutoTick, fallback_page, AutoPages
  <2>3. QED
    BY <2>2 DEF VetoInv
<1>4. QED
  BY <1>1, <1>2, <1>3, PTL DEF AutoWatchSpec, UserDecisionSticks

----------------------------------------------------------------------------
(* Inductive: a pending sequence an advert started is still the arrival it *)
(* answers, and what was heard since is no older than what the machine     *)
(* takes for the latest sign of the AirPods.                               *)
ArrivalInv ==
    /\ heard \in 0..ADVERT_FRESH + 1
    /\ auto_pending /\ ~auto.fallback => arrival /\ heard <= last_seen

LEMMA HeardLater ==
    ASSUME last_seen \in 0..SEEN_WINDOW, heard \in 0..ADVERT_FRESH + 1, heard <= last_seen
    PROVE  Later(heard, ADVERT_FRESH + 1) <= Later(last_seen, SEEN_WINDOW)
  BY AutoWindows DEF Later

LEMMA ArrivalNext ==
    ASSUME AutoTypeOK, SequenceOK, VetoInv, ArrivalInv, [AutoWatchNext]_awvars
    PROVE  ArrivalInv'
<1> USE DEF presenceVars
<1>t. last_seen \in 0..SEEN_WINDOW /\ heard \in 0..ADVERT_FRESH + 1
      /\ 0 \in 0..ADVERT_FRESH + 1
  BY AutoWindows DEF AutoTypeOK, ArrivalInv
<1>a. auto # NoAuto /\ ~auto.fallback => arrival /\ heard <= last_seen
  BY DEF ArrivalInv, auto_pending
<1>n. ASSUME auto' = NoAuto, heard' = heard \/ heard' = 0 PROVE ArrivalInv'
  BY <1>n, <1>t DEF ArrivalInv, auto_pending
(* A step that ages nothing may keep a sequence while the arrival stands. *)
<1>u. ASSUME heard' = heard, last_seen' = last_seen, arrival' <=> arrival,
             auto' # NoAuto /\ ~auto'.fallback => auto # NoAuto /\ ~auto.fallback
      PROVE  ArrivalInv'
  BY <1>u, <1>t, <1>a DEF ArrivalInv, auto_pending
<1>1. ASSUME NEW near \in BOOLEAN, NEW rp \in BOOLEAN, Seen(near, rp),
             AutoWatchStep(IF near THEN "advert" ELSE "weak")
      PROVE  ArrivalInv'
  <2>1. CASE ~near
    <3>1. UNCHANGED <<last_seen, auto>>
      BY <1>1, <2>1 DEF Seen
    <3>2. heard' = heard /\ (arrival' <=> arrival)
      BY <1>1, <2>1 DEF AutoWatchStep
    <3>3. QED
      BY <3>1, <3>2, <1>u
  <2>2. CASE near
    <3>1. heard' = 0 /\ (arrival' <=> arrival \/ silent = ABSENCE)
      BY <1>1, <2>2 DEF AutoWatchStep
    <3>2. CASE ~AutoEnabled
      <4>1. auto' = NoAuto
        BY <1>1, <3>2 DEF Seen, VetoInv, auto_pending
      <4>2. QED
        BY <3>1, <4>1, <1>n
    <3>3. CASE AutoEnabled
      <4>1. last_seen' = 0
        BY <1>1, <2>2, <3>3 DEF Seen
      <4>2. absent => silent = ABSENCE
        BY <3>3, <1>t, AutoWindows DEF VetoInv, absent
      <4>3. auto' = auto \/ absent
        BY <1>1, <2>2, <3>3 DEF Seen
      <4>4. auto' # NoAuto /\ ~auto'.fallback => arrival'
        BY <3>1, <4>2, <4>3, <1>a
      <4>5. heard' \in 0..ADVERT_FRESH + 1 /\ heard' <= last_seen'
        BY <3>1, <4>1, <1>t
      <4>6. QED
        BY <4>4, <4>5 DEF ArrivalInv, auto_pending
    <3>4. QED
      BY <3>2, <3>3
  <2>3. QED
    BY <2>1, <2>2
<1>2. ASSUME NEW rp \in BOOLEAN, AutoTick(rp), AutoWatchStep("tick")
      PROVE  ArrivalInv'
  <2>1. last_seen' = last_seen
    BY <1>2 DEF AutoTick
  <2>2. heard' = heard /\ (arrival' <=> arrival)
    BY <1>2 DEF AutoWatchStep
  <2>3. \/ auto' = auto \/ auto' = NoAuto \/ auto'.fallback
        \/ auto_pending /\ auto' = [auto EXCEPT !.in_flight = TRUE]
    BY <1>2 DEF AutoTick, fallback_page
  <2>4. auto' # NoAuto /\ ~auto'.fallback => auto # NoAuto /\ ~auto.fallback
    <3>1. CASE auto_pending /\ auto' = [auto EXCEPT !.in_flight = TRUE]
      <4>1. auto \in AutoSequences
        BY DEF AutoTypeOK, AutoSequences
      <4>2. auto'.fallback = auto.fallback
        BY <3>1, <4>1 DEF AutoSequences
      <4>3. QED
        BY <3>1, <4>2 DEF auto_pending
    <3>2. QED
      BY <2>3, <3>1
  <2>5. QED
    BY <2>1, <2>2, <2>4, <1>u
<1>3. ASSUME LocalConnected, AutoWatchStep("up")
      PROVE  ArrivalInv'
  <2>1. auto' = NoAuto
    BY <1>3 DEF LocalConnected
  <2>2. heard' = heard
    BY <1>3 DEF AutoWatchStep
  <2>3. QED
    BY <2>1, <2>2, <1>n
<1>4. ASSUME NEW reason \in AutoReasons, LocalDisconnected(reason),
             AutoWatchStep(DropKind(reason))
      PROVE  ArrivalInv'
  <2>1. auto' = NoAuto
    BY <1>4 DEF LocalDisconnected
  <2>2. heard' = heard
    BY <1>4 DEF AutoWatchStep, DropKind
  <2>3. QED
    BY <2>1, <2>2, <1>n
<1>5. ASSUME AutoManualCommand, AutoWatchStep("manual")
      PROVE  ArrivalInv'
  <2>1. auto' = NoAuto
    BY <1>5 DEF AutoManualCommand
  <2>2. heard' = heard
    BY <1>5 DEF AutoWatchStep
  <2>3. QED
    BY <2>1, <2>2, <1>n
<1>6. ASSUME NEW outcome \in AutoOutcomes, auto.in_flight, AutoFinished(auto.seq, outcome),
             AutoWatchStep("result")
      PROVE  ArrivalInv'
  <2>1. last_seen' = last_seen /\ auto # NoAuto
    BY <1>6, NoSequence DEF AutoFinished
  <2>2. heard' = heard /\ (arrival' <=> arrival)
    BY <1>6 DEF AutoWatchStep
  <2>3. auto' = auto \/ auto' = NoAuto \/ ~auto.fallback
    BY <1>6 DEF AutoFinished
  <2>4. QED
    BY <2>1, <2>2, <2>3, <1>u
<1>7. ASSUME AutoPass, AutoWatchStep("pass")
      PROVE  ArrivalInv'
  <2>1. last_seen' = Later(last_seen, SEEN_WINDOW)
    BY <1>7 DEF AutoPass
  <2>2. heard' = Later(heard, ADVERT_FRESH + 1) /\ (arrival' <=> arrival)
    BY <1>7 DEF AutoWatchStep
  <2>3. auto' # NoAuto /\ ~auto'.fallback => auto # NoAuto /\ ~auto.fallback
    <3>1. auto = NoAuto => auto' = NoAuto
      BY <1>7 DEF AutoPass, NoAuto, Sooner
    <3>2. auto \in AutoSequences
      BY DEF AutoTypeOK, AutoSequences
    <3>3. auto'.fallback = auto.fallback
      BY <1>7, <3>2 DEF AutoPass, AutoSequences
    <3>4. QED
      BY <3>1, <3>3
  <2>4. heard' \in 0..ADVERT_FRESH + 1
    BY <2>2, <1>t, LaterTyped, AutoWindows
  <2>5. heard <= last_seen => heard' <= last_seen'
    BY <2>1, <2>2, <1>t, HeardLater
  <2>6. QED
    BY <2>2, <2>3, <2>4, <2>5, <1>a DEF ArrivalInv, auto_pending
<1>8. CASE UNCHANGED awvars
  BY <1>8 DEF awvars, avars, autoWatch, ArrivalInv, auto_pending
<1>9. QED
  BY <1>1, <1>2, <1>3, <1>4, <1>5, <1>6, <1>7, <1>8 DEF AutoWatchNext

LEMMA ArrivalInit == AutoWatchInit => ArrivalInv
<1> SUFFICES ASSUME AutoWatchInit PROVE ArrivalInv
  OBVIOUS
<1>1. heard \in 0..ADVERT_FRESH + 1
  BY AutoWindows DEF AutoWatchInit
<1>2. QED
  BY <1>1 DEF AutoWatchInit, AutoInit, ArrivalInv, auto_pending

(* Whatever adverts, link changes and commands interleave with a sequence, *)
(* each of its connects still answers the arrival that started it, and its *)
(* retries a fresh advert (autoconnect.rs decide, must_cancel).            *)
THEOREM AdvertArrival == AutoWatchSpec => AdvertPageNeedsArrival
<1> DEFINE I == AutoTypeOK /\ SequenceOK /\ VetoInv /\ ArrivalInv
           P == AutoPages /\ ~FallbackPages =>
                    arrival /\ (auto.attempt > 1 => heard <= ADVERT_FRESH)
<1>1. AutoWatchInit => I
  BY AutoTypeInit, VetoInit, ArrivalInit DEF AutoWatchInit
<1>2. I /\ [AutoWatchNext]_awvars => I'
  BY AutoTypeNext, VetoNext, ArrivalNext, AutoWatched
<1>3. I /\ [AutoWatchNext]_awvars => [P]_awvars
  <2> SUFFICES ASSUME I, [AutoWatchNext]_awvars, awvars' # awvars, AutoPages, ~FallbackPages
               PROVE  arrival /\ (auto.attempt > 1 => heard <= ADVERT_FRESH)
    OBVIOUS
  <2>1. PICK rp \in BOOLEAN : AutoTick(rp)
    BY TickPages
  <2>2. auto_pending /\ ~auto.in_flight /\ ~must_cancel(rp)
    BY <2>1 DEF AutoTick, fallback_page, AutoPages, FallbackPages
  <2>3. arrival /\ heard <= last_seen
    BY <2>2 DEF ArrivalInv, SequenceOK
  <2>4. auto.attempt > 1 => last_seen <= ADVERT_FRESH
    <3>1. last_seen \in 0..SEEN_WINDOW
      BY DEF AutoTypeOK
    <3>2. auto.attempt > 1 => ~stale_adverts
      BY <2>2 DEF must_cancel
    <3>3. QED
      BY <3>1, <3>2, AutoWindows DEF stale_adverts
  <2>5. heard \in Int /\ last_seen \in Int /\ ADVERT_FRESH \in Int
    BY AutoWindows DEF AutoTypeOK, ArrivalInv
  <2>6. \A h, l, f \in Int : h <= l /\ l <= f => h <= f
    OBVIOUS
  <2>7. QED
    BY <2>3, <2>4, <2>5, <2>6
<1>4. QED
  BY <1>1, <1>2, <1>3, PTL DEF AutoWatchSpec, AdvertPageNeedsArrival

----------------------------------------------------------------------------
(* Inductive: the machine's age of the away period is the one measured     *)
(* from the drop, a due page counts down what is left of the interval      *)
(* since the latest one, and a start not yet anchored has paged nothing.   *)
AwayInv ==
    /\ away_for \in 0..NoFallback /\ since_page \in 0..FALLBACK_INTERVAL
    /\ fallback_start => ~connected /\ fallback_next = NotDue /\ since_page = FALLBACK_INTERVAL
    /\ ~fallback_start /\ fallback_from <= FALLBACK_BUDGET => away_for = fallback_from
    /\ fallback_from <= FALLBACK_BUDGET /\ fallback_next = NotDue
         => since_page = FALLBACK_INTERVAL
    /\ fallback_next # NotDue =>
         /\ ~fallback_start /\ fallback_from >= FALLBACK_FIRST
         /\ since_page + fallback_next = FALLBACK_INTERVAL

away_measured == IF fallback_start THEN 0 ELSE away_for

LEMMA AwayAnchored ==
    ASSUME AutoTypeOK, AwayInv, anchored, away_for' = away_measured, since_page' = since_page
    PROVE  AwayInv'
<1>1. away_for' \in 0..NoFallback /\ since_page' \in 0..FALLBACK_INTERVAL
  BY AutoWindows DEF AwayInv, away_measured
<1>2. CASE fallback_start
  <2>1. fallback_from' = 0 /\ fallback_next' = NotDue /\ since_page' = FALLBACK_INTERVAL
        /\ away_for' = 0 /\ ~fallback_start'
    BY <1>2 DEF AwayInv, anchored, away, away_measured
  <2>2. QED
    BY <1>1, <2>1 DEF AwayInv
<1>3. CASE ~fallback_start
  <2>1. fallback_from' = fallback_from /\ fallback_next' = fallback_next
        /\ away_for' = away_for /\ ~fallback_start'
    BY <1>3 DEF anchored, away, away_measured
  <2>2. QED
    BY <1>1, <1>3, <2>1 DEF AwayInv
<1>4. QED
  BY <1>2, <1>3

LEMMA AwayEnded ==
    ASSUME AutoTypeOK, AwayInv, end_fallback,
           away_for' \in {NoFallback, away_measured},
           since_page' = since_page
    PROVE  AwayInv'
<1>1. away_for' \in 0..NoFallback /\ since_page' \in 0..FALLBACK_INTERVAL
  BY AutoWindows DEF AwayInv, away_measured
<1>2. ~fallback_start' /\ fallback_next' = NotDue /\ ~(fallback_from' <= FALLBACK_BUDGET)
  BY AutoWindows DEF end_fallback
<1>3. QED
  BY <1>1, <1>2 DEF AwayInv

LEMMA AwayStarted ==
    ASSUME start_fallback, away_for' = 0, since_page' = FALLBACK_INTERVAL
    PROVE  AwayInv'
<1>1. away_for' \in 0..NoFallback /\ since_page' \in 0..FALLBACK_INTERVAL
  BY AutoWindows
<1>2. ~fallback_start' /\ fallback_next' = NotDue /\ fallback_from' = 0
  BY DEF start_fallback
<1>3. QED
  BY <1>1, <1>2 DEF AwayInv

(* What a fallback page meets: a time inside the budget, and the interval. *)
LEMMA FallbackMeets ==
    ASSUME AutoTypeOK, AwayInv, ~connected, fallback_due
    PROVE  /\ away = away_measured
           /\ away_measured \in FALLBACK_FIRST .. FALLBACK_BUDGET
           /\ since_page = FALLBACK_INTERVAL
<1>1. fallback_from \in Nat /\ away \in Nat /\ away_measured \in Nat
  BY AutoWindows DEF AutoTypeOK, AwayInv, away, away_measured
<1>2. CASE fallback_start
  BY <1>1, <1>2, AutoWindows DEF AwayInv, fallback_due, away, away_measured
<1>3. CASE ~fallback_start
  <2>1. away = fallback_from /\ fallback_from <= FALLBACK_BUDGET /\ away_measured = away_for
    BY <1>3 DEF away, away_measured, fallback_due
  <2>2. away_for = fallback_from
    BY <1>3, <2>1 DEF AwayInv
  <2>3. CASE fallback_next = NotDue
    BY <1>1, <2>1, <2>2, <2>3, AutoWindows DEF AwayInv, fallback_due
  <2>4. CASE fallback_next # NotDue
    <3>1. fallback_next = 0 /\ since_page \in Nat
      BY <2>4 DEF fallback_due, AwayInv
    <3>2. fallback_from >= FALLBACK_FIRST /\ since_page + 0 = FALLBACK_INTERVAL
      BY <2>4, <3>1 DEF AwayInv
    <3>3. QED
      BY <1>1, <2>1, <2>2, <3>1, <3>2, AutoWindows
  <2>5. QED
    BY <2>3, <2>4
<1>4. QED
  BY <1>2, <1>3

LEMMA AwayPass ==
    ASSUME AutoTypeOK, AwayInv, AutoPass,
           away_for' = Later(away_for, NoFallback),
           since_page' = Later(since_page, FALLBACK_INTERVAL)
    PROVE  AwayInv'
<1>1. away_for' \in 0..NoFallback /\ since_page' \in 0..FALLBACK_INTERVAL
  BY AutoWindows, LaterTyped DEF AwayInv
<1>2. /\ fallback_from' = Later(fallback_from, NoFallback)
      /\ fallback_next' = Sooner(fallback_next)
      /\ fallback_start' = fallback_start /\ connected' = connected
  BY DEF AutoPass
<1>3. fallback_next = NotDue => fallback_next' = NotDue
  BY <1>2, AutoWindows DEF Sooner
<1>4. CASE fallback_next = NotDue
  <2>1. fallback_next' = NotDue
    BY <1>3, <1>4
  <2>2. since_page = FALLBACK_INTERVAL => since_page' = FALLBACK_INTERVAL
    BY DEF Later
  <2>3. fallback_from' <= FALLBACK_BUDGET => fallback_from <= FALLBACK_BUDGET
    BY <1>2, AutoWindows DEF AutoTypeOK, Later
  <2>4. fallback_from' <= FALLBACK_BUDGET /\ away_for = fallback_from
          => away_for' = fallback_from'
    BY <1>2, AutoWindows DEF Later
  <2>5. QED
    BY <1>1, <1>2, <1>4, <2>1, <2>2, <2>3, <2>4 DEF AwayInv
<1>5. CASE fallback_next # NotDue
  <2>1. /\ ~fallback_start /\ fallback_from >= FALLBACK_FIRST
        /\ since_page + fallback_next = FALLBACK_INTERVAL
        /\ fallback_next \in Nat /\ since_page \in Nat /\ fallback_from \in 0..NoFallback
    BY <1>5 DEF AwayInv, AutoTypeOK
  <2>2. fallback_next' \in Nat /\ since_page' + fallback_next' = FALLBACK_INTERVAL
    BY <1>2, <2>1, AutoWindows DEF Later, Sooner
  <2>3. fallback_from' >= FALLBACK_FIRST
    BY <1>2, <2>1, AutoWindows DEF Later
  <2>4. fallback_from' <= FALLBACK_BUDGET => away_for' = fallback_from'
    BY <1>2, <2>1, AutoWindows DEF AwayInv, Later
  <2>5. fallback_next' # NotDue
    BY <2>2, AutoWindows
  <2>6. QED
    BY <1>1, <1>2, <2>1, <2>2, <2>3, <2>4, <2>5 DEF AwayInv
<1>6. QED
  BY <1>4, <1>5

LEMMA AwayNext ==
    ASSUME AutoTypeOK, SequenceOK, AwayInv, [AutoWatchNext]_awvars
    PROVE  AwayInv'
<1> USE DEF presenceVars, fallbackVars
<1>1. ASSUME NEW near \in BOOLEAN, NEW rp \in BOOLEAN, Seen(near, rp),
             AutoWatchStep(IF near THEN "advert" ELSE "weak")
      PROVE  AwayInv'
  <2>1. anchored /\ ~FallbackPages
    BY <1>1 DEF Seen, FallbackPages
  <2>2. away_for' = away_measured /\ since_page' = since_page
    BY <1>1, <2>1 DEF AutoWatchStep, away_measured
  <2>3. QED
    BY <2>1, <2>2, AwayAnchored
<1>2. ASSUME NEW rp \in BOOLEAN, AutoTick(rp), AutoWatchStep("tick")
      PROVE  AwayInv'
  <2>1. away_for' = away_measured /\ since_page' = IF FallbackPages THEN 0 ELSE since_page
    BY <1>2 DEF AutoWatchStep, away_measured
  <2>2. CASE ~FallbackPages
    <3>1. anchored
      BY <1>2, <2>2 DEF AutoTick, fallback_page, FallbackPages
    <3>2. QED
      BY <2>1, <2>2, <3>1, AwayAnchored
  <2>3. CASE FallbackPages
    <3>1. /\ ~connected /\ fallback_due
          /\ ~fallback_start' /\ fallback_from' = away /\ fallback_next' = FALLBACK_INTERVAL
      BY <1>2, <2>3 DEF AutoTick, fallback_page, FallbackPages
    <3>2. /\ away = away_measured /\ away_measured \in FALLBACK_FIRST .. FALLBACK_BUDGET
      BY <3>1, FallbackMeets
    <3>3. away_for' \in 0..NoFallback /\ since_page' \in 0..FALLBACK_INTERVAL
      BY <2>1, <2>3, <3>2, AutoWindows
    <3>4. fallback_from' >= FALLBACK_FIRST /\ away_for' = fallback_from'
      BY <2>1, <3>1, <3>2, AutoWindows
    <3>5. fallback_next' # NotDue /\ since_page' + fallback_next' = FALLBACK_INTERVAL
      BY <2>1, <2>3, <3>1, AutoWindows
    <3>6. QED
      BY <3>1, <3>3, <3>4, <3>5 DEF AwayInv
  <2>4. QED
    BY <2>2, <2>3
<1>3. ASSUME LocalConnected, AutoWatchStep("up")
      PROVE  AwayInv'
  <2>1. end_fallback /\ ~FallbackPages
    BY <1>3 DEF LocalConnected, FallbackPages, AutoCancelled
  <2>2. away_for' = NoFallback /\ since_page' = since_page
    BY <1>3, <2>1 DEF AutoWatchStep
  <2>3. QED
    BY <2>1, <2>2, AwayEnded
<1>4. ASSUME NEW reason \in AutoReasons, LocalDisconnected(reason),
             AutoWatchStep(DropKind(reason))
      PROVE  AwayInv'
  <2>1. ~FallbackPages
    BY <1>4 DEF LocalDisconnected, FallbackPages, AutoCancelled, Disarmed
  <2>2. CASE reason \in {"Remote", "Timeout"}
    <3>1. start_fallback
      BY <1>4, <2>2 DEF LocalDisconnected
    <3>2. away_for' = 0 /\ since_page' = FALLBACK_INTERVAL
      BY <1>4, <2>2 DEF AutoWatchStep, DropKind
    <3>3. QED
      BY <3>1, <3>2, AwayStarted
  <2>3. CASE reason = "Unknown"
    <3>1. anchored
      BY <1>4, <2>3 DEF LocalDisconnected
    <3>2. away_for' = away_measured /\ since_page' = since_page
      BY <1>4, <2>1, <2>3 DEF AutoWatchStep, DropKind, away_measured
    <3>3. QED
      BY <3>1, <3>2, AwayAnchored
  <2>4. CASE reason \in {"Local", "Other"}
    <3>1. end_fallback
      BY <1>4, <2>4 DEF LocalDisconnected
    <3>2. away_for' = NoFallback /\ since_page' = since_page
      BY <1>4, <2>1, <2>4 DEF AutoWatchStep, DropKind
    <3>3. QED
      BY <3>1, <3>2, AwayEnded
  <2>5. QED
    BY <2>2, <2>3, <2>4 DEF AutoReasons
<1>5. ASSUME AutoManualCommand, AutoWatchStep("manual")
      PROVE  AwayInv'
  <2>1. anchored /\ ~FallbackPages
    BY <1>5 DEF AutoManualCommand, FallbackPages, AutoCancelled, Disarmed
  <2>2. away_for' = away_measured /\ since_page' = since_page
    BY <1>5, <2>1 DEF AutoWatchStep, away_measured
  <2>3. QED
    BY <2>1, <2>2, AwayAnchored
<1>6. ASSUME NEW outcome \in AutoOutcomes, auto.in_flight, AutoFinished(auto.seq, outcome),
             AutoWatchStep("result")
      PROVE  AwayInv'
  <2>1. ~FallbackPages
    BY <1>6 DEF AutoFinished, FallbackPages
  <2>2. anchored \/ end_fallback
    BY <1>6 DEF AutoFinished
  <2>3. away_for' = away_measured /\ since_page' = since_page
    BY <1>6, <2>1 DEF AutoWatchStep, away_measured
  <2>4. QED
    BY <2>2, <2>3, AwayAnchored, AwayEnded
<1>7. ASSUME AutoPass, AutoWatchStep("pass")
      PROVE  AwayInv'
  <2>1. ~FallbackPages
    BY <1>7 DEF AutoPass, FallbackPages
  <2>2. /\ away_for' = Later(away_for, NoFallback)
        /\ since_page' = Later(since_page, FALLBACK_INTERVAL)
    BY <1>7, <2>1 DEF AutoWatchStep
  <2>3. QED
    BY <1>7, <2>2, AwayPass
<1>8. CASE UNCHANGED awvars
  BY <1>8 DEF awvars, avars, autoWatch, AwayInv
<1>9. QED
  BY <1>1, <1>2, <1>3, <1>4, <1>5, <1>6, <1>7, <1>8 DEF AutoWatchNext

LEMMA AwayInit == AutoWatchInit => AwayInv
<1> SUFFICES ASSUME AutoWatchInit PROVE AwayInv
  OBVIOUS
<1>1. away_for \in 0..NoFallback /\ since_page \in 0..FALLBACK_INTERVAL
  BY AutoWindows DEF AutoWatchInit
<1>2. fallback_start /\ ~connected /\ fallback_next = NotDue /\ since_page = FALLBACK_INTERVAL
  BY DEF AutoWatchInit, AutoInit
<1>3. QED
  BY <1>1, <1>2 DEF AwayInv

(* The fallback pages at most once per interval and only inside the budget *)
(* of the away period, however adverts, results, link changes and commands *)
(* fall between its ticks (autoconnect.rs fallback_due, fallback_page).    *)
THEOREM FallbackOnSchedule == AutoWatchSpec => FallbackBounded
<1> DEFINE I == AutoTypeOK /\ SequenceOK /\ AwayInv
           P == FallbackPages =>
                  /\ (IF fallback_start THEN 0 ELSE away_for)
                        \in FALLBACK_FIRST .. FALLBACK_BUDGET
                  /\ since_page = FALLBACK_INTERVAL
<1>1. AutoWatchInit => I
  BY AutoTypeInit, AwayInit DEF AutoWatchInit
<1>2. I /\ [AutoWatchNext]_awvars => I'
  BY AutoTypeNext, AwayNext, AutoWatched
<1>3. I /\ [AutoWatchNext]_awvars => [P]_awvars
  <2> SUFFICES ASSUME I, [AutoWatchNext]_awvars, awvars' # awvars, FallbackPages
               PROVE  /\ away_measured \in FALLBACK_FIRST .. FALLBACK_BUDGET
                      /\ since_page = FALLBACK_INTERVAL
    BY DEF away_measured
  <2>1. PICK rp \in BOOLEAN : AutoTick(rp)
    BY TickPages
  <2>2. ~connected /\ fallback_due
    BY <2>1 DEF AutoTick, fallback_page, FallbackPages
  <2>3. QED
    BY <2>2, FallbackMeets
<1>4. QED
  BY <1>1, <1>2, <1>3, PTL DEF AutoWatchSpec, FallbackBounded


----------------------------------------------------------------------------
(***************************************************************************)
(* The advert scan: no wait between two attempts is longer than the        *)
(* longest of the four, and no advert of the device is missed by a scan    *)
(* that has read of its address.                                           *)
(***************************************************************************)
(* The longest wait is one of the four, and none is longer. *)
LEMMA WorstBound ==
    /\ Worst \in Nat
    /\ LE_RECHECK <= Worst /\ ADAPTER_RECHECK <= Worst
    /\ SCAN_RETRY_MAX <= Worst /\ SCAN_RETRY <= Worst
<1> DEFINE W == {LE_RECHECK, ADAPTER_RECHECK, SCAN_RETRY_MAX, SCAN_RETRY}
<1>1. W \subseteq Nat
  BY ScannerAssumption
<1>2. \E n \in W : \A m \in W : n >= m
  <2>1. \A a, b, c, d \in Nat :
            \E n \in {a, b, c, d} : n >= a /\ n >= b /\ n >= c /\ n >= d
    <3> TAKE a, b, c, d \in Nat
    <3> DEFINE x == IF a >= b THEN a ELSE b
               y == IF c >= d THEN c ELSE d
               z == IF x >= y THEN x ELSE y
    <3>1. x \in {a, b, c, d} /\ y \in {a, b, c, d} /\ z \in {a, b, c, d}
      OBVIOUS
    <3>2. z >= a /\ z >= b /\ z >= c /\ z >= d
      OBVIOUS
    <3>3. QED BY <3>1, <3>2
  <2>2. \E n \in W : n >= LE_RECHECK /\ n >= ADAPTER_RECHECK
                     /\ n >= SCAN_RETRY_MAX /\ n >= SCAN_RETRY
    BY <1>1, <2>1
  <2>3. QED BY <2>2
<1>3. Worst \in W /\ \A m \in W : Worst >= m
  BY <1>2 DEF Worst
<1>4. QED
  BY <1>1, <1>3

LEMMA ScanWindows ==
    /\ SCAN_RETRY \in Nat /\ SCAN_RETRY_MAX \in Nat /\ LE_RECHECK \in Nat
    /\ ADAPTER_RECHECK \in Nat /\ ADAPTER_SETTLE \in Nat
  BY ScannerAssumption

LEMMA DelayBound == \A n : retry_delay(n) \in 0..SCAN_RETRY_MAX
  BY ScanWindows DEF retry_delay

LEMMA LimitBound == Limit \in Nat /\ Limit <= Worst
  BY ScanWindows, WorstBound, DelayBound DEF Limit

(* The limit of the park that follows a step, likewise. *)
LEMMA NextLimitBound == Limit' \in Nat /\ Limit' <= Worst
  BY ScanWindows, WorstBound, DelayBound DEF Limit

(* Inductive: how long the scan could have run, in each phase of the loop. *)
(* Before a setup and while it is diagnosed no time passes, and a fault    *)
(* that is no longer there restarts the measure.                           *)
WaitInv ==
    /\ able \in Nat /\ waited \in Nat
    /\ able > 0 => radio = "dual"
    /\ phase = "diagnosing" => able = 0
    /\ phase = "parked" => able <= waited /\ waited <= Limit
    /\ phase = "resting" => able <= waited /\ waited <= SCAN_RETRY
    /\ phase = "settling" => able <= Worst + waited /\ waited <= ADAPTER_SETTLE
    /\ able <= Worst + ADAPTER_SETTLE

LEMMA WaitKept ==
    ASSUME WaitInv, UNCHANGED <<radio, phase, fault, failures, waited, able>>
    PROVE  WaitInv'
<1>1. Limit' = Limit
  BY DEF Limit
<1>2. QED
  BY <1>1 DEF WaitInv

(* Leaving a phase: what was measured carries on, the wait starts over. *)
LEMMA WaitLeaves ==
    ASSUME WaitInv, UNCHANGED <<radio, able>>, waited' = 0,
           phase' \in {"off", "setup", "scanning"} \/ able = 0
    PROVE  WaitInv'
  BY WorstBound, NextLimitBound, ScanWindows DEF WaitInv

LEMMA WaitRestarts ==
    ASSUME WaitInv, able' = 0,
           \/ UNCHANGED <<phase, fault, failures, waited>>
           \/ phase' = "settling" /\ waited' = 0
    PROVE  WaitInv'
<1>1. CASE UNCHANGED <<phase, fault, failures, waited>>
  <2>1. Limit' = Limit
    BY <1>1 DEF Limit
  <2>2. QED
    BY <1>1, <2>1, WorstBound, ScanWindows DEF WaitInv
<1>2. CASE phase' = "settling" /\ waited' = 0
  BY <1>2, WorstBound, ScanWindows DEF WaitInv
<1>3. QED
  BY <1>1, <1>2

LEMMA WaitNext ==
    ASSUME WaitInv, [ScannerNext]_nvars
    PROVE  WaitInv'
<1> USE DEF loopVars, discoveryVars, Idle
<1>1. ASSUME NEW a \in Addresses, DeviceAppears(a) \/ DeviceDisappears(a) \/ Advert(a)
      PROVE  WaitInv'
  BY <1>1, WaitKept DEF DeviceAppears, DeviceDisappears, Advert
<1>2. CASE ReadsDiscovery
  BY <1>2, WaitKept DEF ReadsDiscovery
<1>3. CASE Loop
  BY <1>3, WaitLeaves DEF Loop, Goes
<1>4. CASE ScanStarts
  BY <1>4, WorstBound, ScanWindows DEF ScanStarts, WaitInv
<1>5. CASE SetupFails
  <2>1. able = 0
    BY <1>5 DEF SetupFails, WaitInv
  <2>2. QED
    BY <1>5, <2>1, WaitLeaves DEF SetupFails, Goes
<1>6. CASE Diagnose
  <2>1. able = 0
    BY <1>6 DEF Diagnose, WaitInv
  <2>2. QED
    BY <1>6, <2>1, WaitLeaves DEF Diagnose, Goes
<1>7. CASE WaitEnds
  BY <1>7, WaitLeaves DEF WaitEnds, Goes
<1>8. CASE ScanTold
  BY <1>8, WaitKept, WaitLeaves DEF ScanTold, Goes
<1>9. CASE ScanBreaks
  <2>1. able = 0
    BY <1>9 DEF ScanBreaks, WaitInv
  <2>2. QED
    BY <1>9, <2>1, WaitLeaves DEF ScanBreaks, Goes
<1>10. CASE Wish
  BY <1>10, WaitRestarts DEF Wish
<1>11. ASSUME NEW to \in {"off", "bredr", "away", "dual"}, AdapterEvent(to)
       PROVE  WaitInv'
  <2>1. fault' = fault /\ failures' = failures
    BY <1>11 DEF AdapterEvent
  <2>2. \/ UNCHANGED <<phase, waited>>
        \/ phase = "parked" /\ phase' = "settling" /\ waited' = 0
    BY <1>11 DEF AdapterEvent
  <2>3. CASE radio = to
    <3>1. able' = able /\ radio' = radio
      BY <1>11, <2>3 DEF AdapterEvent
    <3>2. CASE UNCHANGED <<phase, waited>>
      BY <2>1, <3>1, <3>2, WaitKept
    <3>3. CASE phase = "parked" /\ phase' = "settling" /\ waited' = 0
      <4>1. able <= Worst
        BY <3>3, LimitBound, WorstBound DEF WaitInv
      <4>2. QED
        BY <3>1, <3>3, <4>1, WorstBound, ScanWindows DEF WaitInv
    <3>4. QED
      BY <2>2, <3>2, <3>3
  <2>4. CASE radio # to
    <3>1. able' = 0
      BY <1>11, <2>4 DEF AdapterEvent
    <3>2. QED
      BY <2>1, <2>2, <3>1, WaitRestarts
  <2>5. QED
    BY <2>3, <2>4
<1>12. CASE DidKnown
  BY <1>12, WaitKept DEF DidKnown
<1>13. CASE ScannerPass
  <2>1. UNCHANGED <<radio, phase, fault, failures>> /\ ~Over
    BY <1>13 DEF ScannerPass
  <2>2. phase \notin {"diagnosing", "setup"}
    BY <1>13 DEF ScannerPass
  <2>3. CASE ~Rests
    BY <1>13, <2>1, <2>2, <2>3, WorstBound, ScanWindows DEF ScannerPass, Rests, WaitInv
  <2>4. CASE Rests
    <3>1. waited' = waited + 1
      BY <1>13, <2>4 DEF ScannerPass
    <3>2. able' = 0 \/ (able' = able + 1 /\ radio = "dual")
      BY <1>13 DEF ScannerPass
    <3>3. Limit' = Limit
      BY <2>1 DEF Limit
    <3>4. CASE phase = "parked"
      <4>1. ~(waited >= Limit)
        BY <2>1, <3>4 DEF Over
      <4>2. QED
        BY <2>1, <3>1, <3>2, <3>3, <3>4, <4>1, LimitBound, WorstBound, ScanWindows DEF WaitInv
    <3>5. CASE phase = "settling"
      <4>1. ~(waited >= ADAPTER_SETTLE)
        BY <2>1, <3>5 DEF Over
      <4>2. QED
        BY <2>1, <3>1, <3>2, <3>5, <4>1, WorstBound, ScanWindows DEF WaitInv
    <3>6. CASE phase = "resting"
      <4>1. ~(waited >= SCAN_RETRY)
        BY <2>1, <3>6 DEF Over
      <4>2. QED
        BY <2>1, <3>1, <3>2, <3>6, <4>1, WorstBound, ScanWindows DEF WaitInv
    <3>7. QED
      BY <2>4, <3>4, <3>5, <3>6 DEF Rests
  <2>5. QED
    BY <2>3, <2>4
<1>14. CASE UNCHANGED nvars
  BY <1>14, WaitKept DEF nvars
<1>15. QED
  BY <1>1, <1>2, <1>3, <1>4, <1>5, <1>6, <1>7, <1>8, <1>9, <1>10, <1>11, <1>12, <1>13, <1>14
  DEF ScannerNext

(* However the adapter's events, the supervisor's wishes and the failures  *)
(* of the setup interleave, a scan that could run is waited for no longer  *)
(* than the longest park and one settling (autoconnect.rs run, park).      *)
THEOREM ScanWaitBounded == ScannerSpec => []ScanResumes
<1>1. ScannerInit => WaitInv
  BY WorstBound, ScanWindows DEF ScannerInit, WaitInv
<1>2. WaitInv /\ [ScannerNext]_nvars => WaitInv'
  BY WaitNext
<1>3. WaitInv => ScanResumes
  BY DEF WaitInv, ScanResumes
<1>4. QED
  BY <1>1, <1>2, <1>3, PTL DEF ScannerSpec


----------------------------------------------------------------------------
(* An unread event of an address, later than the one numbered `from`. *)
UnreadOf(added, a, from) ==
    \E i \in DOMAIN unread : i > from /\ unread[i] = [added |-> added, address |-> a]

(* Inductive: what discovery still has to say is enough to bring the scan  *)
(* up to date.  A device never announced is followed, or was refused;      *)
(* a followed address without a stream has its removal ahead; and the      *)
(* latest event of an address is what BlueZ has.                           *)
Events == [added : BOOLEAN, address : Addresses]
DiscoveryOK ==
    /\ IsFiniteSet(present) /\ present \subseteq Addresses
    /\ unread \in Seq(Events)
    /\ phase # "scanning" => watched = {} /\ refused = {} /\ unread = <<>>
AllMet == \A a \in present : Met(a) => a \in watched \cup refused
AllFollowed == \A a \in watched : a \notin present \/ a \notin streams => UnreadOf(FALSE, a, 0)
LatestTrue ==
    \A i \in DOMAIN unread : \A a \in Addresses :
        /\ unread[i] = [added |-> TRUE, address |-> a] =>
               a \in present \/ UnreadOf(FALSE, a, i)
        /\ unread[i] = [added |-> FALSE, address |-> a] =>
               (a \in present => UnreadOf(TRUE, a, i))
FollowInv ==
    /\ DiscoveryOK
    /\ phase = "scanning" /\ radio = "dual" => AllMet /\ AllFollowed /\ LatestTrue

LEMMA UnreadMet ==
    ASSUME NEW a, NEW x, UnreadOf(x, a, 0)
    PROVE  ~Met(a)
  BY DEF UnreadOf, Met

(* An event is appended: what was unread still is, and it is the latest. *)
LEMMA AppendUnread ==
    ASSUME unread \in Seq(Events), NEW x \in BOOLEAN, NEW a \in Addresses,
           unread' = Append(unread, [added |-> x, address |-> a])
    PROVE  /\ unread' \in Seq(Events)
           /\ \A y, b : \A f \in Nat : UnreadOf(y, b, f) => UnreadOf(y, b, f)'
           /\ \A f \in 0..Len(unread) : UnreadOf(x, a, f)'
           /\ \A b : Met(b)' => Met(b) /\ b # a
           /\ \A i \in DOMAIN unread' :
                 \/ i \in DOMAIN unread /\ i \in 0..Len(unread) /\ unread'[i] = unread[i]
                 \/ i = Len(unread) + 1 /\ unread'[i] = [added |-> x, address |-> a]
<1> DEFINE e == [added |-> x, address |-> a]
<1>1. e \in Events /\ e.address = a
  BY DEF Events
<1> HIDE DEF e
<1>2. /\ unread' \in Seq(Events) /\ Len(unread') = Len(unread) + 1 /\ Len(unread) \in Nat
      /\ DOMAIN unread = 1..Len(unread) /\ DOMAIN unread' = 1..Len(unread) + 1
      /\ \A i \in 1..Len(unread) : unread'[i] = unread[i]
      /\ unread'[Len(unread) + 1] = e
  BY <1>1 DEF e
<1>3. \A i \in DOMAIN unread : i \in DOMAIN unread' /\ unread'[i] = unread[i]
  BY <1>2
<1>4. Len(unread) + 1 \in DOMAIN unread' /\ \A f \in 0..Len(unread) : Len(unread) + 1 > f
  BY <1>2
<1>5. \A y, b : \A f \in Nat : UnreadOf(y, b, f) => UnreadOf(y, b, f)'
  BY <1>3 DEF UnreadOf
<1>6. \A f \in 0..Len(unread) : UnreadOf(x, a, f)'
  BY <1>2, <1>4 DEF UnreadOf, e
<1>7. \A b : Met(b)' => Met(b) /\ b # a
  BY <1>1, <1>2, <1>3, <1>4 DEF Met
<1>8. \A i \in DOMAIN unread' :
         \/ i \in DOMAIN unread /\ i \in 0..Len(unread) /\ unread'[i] = unread[i]
         \/ i = Len(unread) + 1 /\ unread'[i] = e
  BY <1>2
<1>9. QED
  BY <1>2, <1>5, <1>6, <1>7, <1>8 DEF e

(* The head is read: what comes after it is unread still. *)
LEMMA TailUnread ==
    ASSUME unread \in Seq(Events), unread # <<>>, unread' = Tail(unread)
    PROVE  /\ unread' \in Seq(Events)
           /\ \A y, b : \A f \in Nat : UnreadOf(y, b, f + 1) => UnreadOf(y, b, f)'
           /\ \A y, b : UnreadOf(y, b, 0) /\ Head(unread) # [added |-> y, address |-> b]
                           => UnreadOf(y, b, 0)'
           /\ \A b : Met(b)' /\ Head(unread).address # b => Met(b)
           /\ \A i \in DOMAIN unread' :
                 i \in Nat /\ i + 1 \in DOMAIN unread /\ unread'[i] = unread[i + 1]
           /\ 1 \in DOMAIN unread /\ unread[1] = Head(unread)
<1>1. /\ unread' \in Seq(Events) /\ Len(unread') = Len(unread) - 1 /\ Len(unread) \in Nat
      /\ Len(unread) >= 1
      /\ DOMAIN unread = 1..Len(unread) /\ DOMAIN unread' = 1..Len(unread) - 1
      /\ \A i \in 1..Len(unread) - 1 : unread'[i] = unread[i + 1]
      /\ unread[1] = Head(unread)
  OBVIOUS
<1>2. \A i \in DOMAIN unread : i # 1 => i - 1 \in DOMAIN unread' /\ unread'[i - 1] = unread[i]
  <2> TAKE i \in DOMAIN unread
  <2> HAVE i # 1
  <2>1. i \in 1..Len(unread) /\ i - 1 \in 1..Len(unread) - 1 /\ (i - 1) + 1 = i
    BY <1>1
  <2>2. QED
    BY <1>1, <2>1
<1>3. ASSUME NEW y, NEW b, NEW f \in Nat, UnreadOf(y, b, f + 1)
      PROVE  UnreadOf(y, b, f)'
  <2>1. PICK i \in DOMAIN unread : i > f + 1 /\ unread[i] = [added |-> y, address |-> b]
    BY <1>3 DEF UnreadOf
  <2>2. i # 1 /\ i - 1 > f
    BY <1>1, <2>1
  <2>3. QED
    BY <1>2, <2>1, <2>2 DEF UnreadOf
<1>4. ASSUME NEW y, NEW b, UnreadOf(y, b, 0), Head(unread) # [added |-> y, address |-> b]
      PROVE  UnreadOf(y, b, 0)'
  <2>1. PICK i \in DOMAIN unread : i > 0 /\ unread[i] = [added |-> y, address |-> b]
    BY <1>4 DEF UnreadOf
  <2>2. i # 1
    BY <1>1, <1>4, <2>1
  <2>3. i - 1 > 0
    BY <1>1, <2>2
  <2>4. QED
    BY <1>2, <2>1, <2>2, <2>3 DEF UnreadOf
<1>5. ASSUME NEW b, Met(b)', Head(unread).address # b
      PROVE  Met(b)
  BY <1>1, <1>2, <1>5 DEF Met
<1>6. \A i \in DOMAIN unread' :
         i \in Nat /\ i + 1 \in DOMAIN unread /\ unread'[i] = unread[i + 1]
  BY <1>1
<1>7. 1 \in DOMAIN unread
  BY <1>1
<1>8. QED
  BY <1>1, <1>3, <1>4, <1>5, <1>6, <1>7

(* BlueZ has a device more, or one less, and says so. *)
LEMMA FollowAnnounced ==
    ASSUME FollowInv, NEW a \in Addresses, NEW x \in BOOLEAN,
           phase = "scanning", radio = "dual",
           unread' = Append(unread, [added |-> x, address |-> a]),
           x <=> a \in present', x <=> a \notin present,
           \A b : b # a => (b \in present' <=> b \in present),
           \A b : b # a => (b \in streams' <=> b \in streams),
           x => streams' = streams,
           UNCHANGED <<watched, refused>>
    PROVE  AllMet' /\ AllFollowed' /\ LatestTrue'
<1>1. unread \in Seq(Events) /\ Len(unread) \in Nat
  BY DEF FollowInv, DiscoveryOK
<1>2. /\ \A y, b : \A f \in Nat : UnreadOf(y, b, f) => UnreadOf(y, b, f)'
      /\ \A f \in 0..Len(unread) : UnreadOf(x, a, f)'
      /\ \A b : Met(b)' => Met(b) /\ b # a
      /\ \A i \in DOMAIN unread' :
            \/ i \in DOMAIN unread /\ i \in 0..Len(unread) /\ unread'[i] = unread[i]
            \/ i = Len(unread) + 1 /\ unread'[i] = [added |-> x, address |-> a]
  BY <1>1, AppendUnread
<1>3. AllMet'
  BY <1>2 DEF FollowInv, AllMet
<1>4. ASSUME NEW b \in watched', b \notin present' \/ b \notin streams'
      PROVE  UnreadOf(FALSE, b, 0)'
  <2>1. CASE b = a /\ x = FALSE
    <3>1. 0 \in 0..Len(unread)
      BY <1>1
    <3>2. UnreadOf(x, a, 0)'
      BY <1>2, <3>1
    <3>3. QED
      BY <2>1, <3>2
  <2>2. CASE b # a \/ x
    <3>1. b \notin present \/ b \notin streams
      BY <1>4, <2>2
    <3>2. UnreadOf(FALSE, b, 0)
      BY <1>4, <3>1 DEF FollowInv, AllFollowed
    <3>3. QED
      BY <1>2, <3>2
  <2>3. QED
    BY <2>1, <2>2
<1>5. ASSUME NEW i \in DOMAIN unread', NEW b \in Addresses, NEW y \in BOOLEAN,
             unread'[i] = [added |-> y, address |-> b]
      PROVE  (y /\ (b \in present' \/ UnreadOf(FALSE, b, i)'))
                \/ (~y /\ (b \in present' => UnreadOf(TRUE, b, i)'))
  <2>1. CASE i = Len(unread) + 1 /\ unread'[i] = [added |-> x, address |-> a]
    <3>1. y = x /\ b = a
      <4>1. [added |-> y, address |-> b] = [added |-> x, address |-> a]
        BY <1>5, <2>1
      <4>2. QED BY <4>1
    <3>2. y <=> b \in present'
      BY <3>1
    <3>3. QED
      BY <3>2
  <2>2. CASE i \in DOMAIN unread /\ i \in 0..Len(unread) /\ unread'[i] = unread[i]
    <3>1. /\ y => b \in present \/ UnreadOf(FALSE, b, i)
          /\ ~y => (b \in present => UnreadOf(TRUE, b, i))
      <4>1. unread[i] = [added |-> y, address |-> b]
        BY <1>5, <2>2
      <4>2. CASE y = TRUE
        BY <2>2, <4>1, <4>2 DEF FollowInv, LatestTrue
      <4>3. CASE y = FALSE
        BY <2>2, <4>1, <4>3 DEF FollowInv, LatestTrue
      <4>4. QED BY <4>2, <4>3
    <3>2. CASE b = a
      <4>1. UnreadOf(x, a, i)'
        BY <1>2, <2>2
      <4>2. CASE x = TRUE
        BY <3>2, <4>1, <4>2
      <4>3. CASE x = FALSE
        BY <3>2, <4>1, <4>3
      <4>4. QED BY <4>2, <4>3
    <3>3. CASE b # a
      <4>1. b \in present' <=> b \in present
        BY <3>3
      <4>2. i \in Nat
        BY <2>2, <1>1
      <4>3. \A z : UnreadOf(z, b, i) => UnreadOf(z, b, i)'
        BY <1>2, <4>2
      <4>4. QED
        BY <3>1, <4>1, <4>3
    <3>4. QED BY <3>2, <3>3
  <2>3. QED BY <1>2, <2>1, <2>2
<1>6. AllFollowed'
  BY <1>4 DEF AllFollowed
<1>7. LatestTrue'
  <2> SUFFICES ASSUME NEW i \in DOMAIN unread', NEW b \in Addresses
               PROVE  /\ unread'[i] = [added |-> TRUE, address |-> b] =>
                             b \in present' \/ UnreadOf(FALSE, b, i)'
                      /\ unread'[i] = [added |-> FALSE, address |-> b] =>
                             (b \in present' => UnreadOf(TRUE, b, i)')
    BY DEF LatestTrue
  <2>1. QED
    BY <1>5
<1>8. QED
  BY <1>3, <1>6, <1>7

(* The scan reads an event: it follows the address, refuses it, or lets it *)
(* go, and what is still unread speaks of the rest.                        *)
LEMMA FollowReads ==
    ASSUME FollowInv, phase = "scanning", radio = "dual", ReadsDiscovery
    PROVE  AllMet' /\ AllFollowed' /\ LatestTrue'
<1>1. /\ unread \in Seq(Events) /\ unread # <<>> /\ unread' = Tail(unread)
      /\ present' = present
  BY DEF FollowInv, DiscoveryOK, ReadsDiscovery
<1>2. /\ \A y, b : \A f \in Nat : UnreadOf(y, b, f + 1) => UnreadOf(y, b, f)'
      /\ \A y, b : UnreadOf(y, b, 0) /\ Head(unread) # [added |-> y, address |-> b]
                      => UnreadOf(y, b, 0)'
      /\ \A b : Met(b)' /\ Head(unread).address # b => Met(b)
      /\ \A i \in DOMAIN unread' :
            i \in Nat /\ i + 1 \in DOMAIN unread /\ unread'[i] = unread[i + 1]
      /\ 1 \in DOMAIN unread /\ unread[1] = Head(unread)
  BY <1>1, TailUnread
<1>3. AllMet /\ AllFollowed /\ LatestTrue
  BY DEF FollowInv
<1>4. \A y, b : UnreadOf(y, b, 1) => UnreadOf(y, b, 0)'
  BY <1>2
<1>5. LatestTrue'
  <2> SUFFICES ASSUME NEW i \in DOMAIN unread', NEW b \in Addresses
               PROVE  /\ unread'[i] = [added |-> TRUE, address |-> b] =>
                             b \in present \/ UnreadOf(FALSE, b, i)'
                      /\ unread'[i] = [added |-> FALSE, address |-> b] =>
                             (b \in present => UnreadOf(TRUE, b, i)')
    BY <1>1 DEF LatestTrue
  <2>1. /\ unread[i + 1] = [added |-> TRUE, address |-> b] =>
               b \in present \/ UnreadOf(FALSE, b, i + 1)
        /\ unread[i + 1] = [added |-> FALSE, address |-> b] =>
               (b \in present => UnreadOf(TRUE, b, i + 1))
    BY <1>2, <1>3 DEF LatestTrue
  <2>2. i \in Nat /\ unread'[i] = unread[i + 1]
    BY <1>2
  <2>3. \A y : UnreadOf(y, b, i + 1) => UnreadOf(y, b, i)'
    BY <1>2, <2>2
  <2>4. QED
    BY <2>1, <2>2, <2>3
<1>6. PICK a \in Addresses : DeviceAdded(a) \/ DeviceRemoved(a)
  BY DEF ReadsDiscovery
<1>7. CASE DeviceAdded(a)
  <2>1. Head(unread) = [added |-> TRUE, address |-> a] /\ Head(unread).address = a
    BY <1>7 DEF DeviceAdded
  <2>2. a \in watched' \cup refused' /\ watched \subseteq watched' /\ refused \subseteq refused'
    BY <1>7 DEF DeviceAdded
  <2>3. AllMet'
    BY <1>1, <1>2, <1>3, <2>1, <2>2 DEF AllMet
  <2>4. \A b : UnreadOf(FALSE, b, 0) => UnreadOf(FALSE, b, 0)'
    <3>1. \A b : [added |-> TRUE, address |-> a] # [added |-> FALSE, address |-> b]
      OBVIOUS
    <3>2. QED
      BY <1>2, <2>1, <3>1
  <2>5. a \in present \/ UnreadOf(FALSE, a, 0)'
    BY <1>2, <1>3, <1>4, <2>1 DEF LatestTrue
  <2>6. ASSUME NEW b \in watched', b \notin present' \/ b \notin streams'
        PROVE  UnreadOf(FALSE, b, 0)'
    <3>1. CASE b \in watched
      <4>1. streams \subseteq streams'
        BY <1>7 DEF DeviceAdded
      <4>2. UnreadOf(FALSE, b, 0)
        BY <1>1, <1>3, <2>6, <3>1, <4>1 DEF AllFollowed
      <4>3. QED
        BY <2>4, <4>2
    <3>2. CASE b \notin watched
      <4>1. b = a /\ (a \in present => a \in streams')
        BY <1>7, <2>6, <3>2 DEF DeviceAdded
      <4>2. QED
        BY <1>1, <2>5, <2>6, <4>1
    <3>3. QED
      BY <3>1, <3>2
  <2>7. AllFollowed'
    BY <2>6 DEF AllFollowed
  <2>8. QED
    BY <1>5, <2>3, <2>7
<1>8. CASE DeviceRemoved(a)
  <2>1. /\ Head(unread) = [added |-> FALSE, address |-> a] /\ Head(unread).address = a
        /\ watched' = watched \ {a} /\ refused' = refused \ {a} /\ streams' = streams
    BY <1>8 DEF DeviceRemoved
  <2>2. a \in present => UnreadOf(TRUE, a, 0)'
    BY <1>2, <1>3, <1>4, <2>1 DEF LatestTrue
  <2>3. a \in present => ~Met(a)'
    <3>1. UnreadOf(TRUE, a, 0)' => ~Met(a)'
      BY DEF UnreadOf, Met
    <3>2. QED
      BY <2>2, <3>1
  <2>4. AllMet'
    BY <1>1, <1>2, <1>3, <2>1, <2>3 DEF AllMet
  <2>5. ASSUME NEW b \in watched', b \notin present' \/ b \notin streams'
        PROVE  UnreadOf(FALSE, b, 0)'
    <3>1. b # a /\ b \in watched /\ (b \notin present \/ b \notin streams)
      BY <1>1, <2>1, <2>5
    <3>2. UnreadOf(FALSE, b, 0)
      BY <1>3, <3>1 DEF AllFollowed
    <3>3. Head(unread) # [added |-> FALSE, address |-> b]
      <4>1. [added |-> FALSE, address |-> a].address # [added |-> FALSE, address |-> b].address
        BY <3>1
      <4>2. QED
        BY <2>1, <4>1
    <3>4. QED
      BY <1>2, <3>2, <3>3
  <2>6. AllFollowed'
    BY <2>5 DEF AllFollowed
  <2>7. QED
    BY <1>5, <2>4, <2>6
<1>9. QED
  BY <1>6, <1>7, <1>8

(* A sequence of all the elements of a finite set has every one of them. *)
LEMMA SetToSeqsCovers ==
    ASSUME NEW S, IsFiniteSet(S), NEW known \in SetToSeqs(S), NEW s \in S
    PROVE  \E i \in DOMAIN known : known[i] = s
<1> DEFINE D == 1..Cardinality(S)
<1>1. Cardinality(S) \in Nat
  BY FS_CardinalityType
<1>2. known \in [D -> S] /\ \A i, j \in D : i # j => known[i] # known[j]
  BY DEF SetToSeqs
<1>3. known \in Injection(D, S)
  BY <1>2 DEF Injection, IsInjective
<1>4. IsFiniteSet(D) /\ Cardinality(D) = Cardinality(S)
  BY <1>1, FS_Interval
<1>5. known \in Surjection(D, S)
  BY <1>3, <1>4, FS_Injection
<1>6. QED
  BY <1>2, <1>5 DEF Surjection

(* The scan starts: every device BlueZ has is replayed. *)
LEMMA FollowStarts ==
    ASSUME FollowInv, ScanStarts
    PROVE  FollowInv'
<1>1. /\ IsFiniteSet(present) /\ present \subseteq Addresses
      /\ watched = {} /\ refused = {}
  BY DEF FollowInv, DiscoveryOK, ScanStarts
<1>2. UNCHANGED <<present, watched, refused>> /\ phase' = "scanning"
  BY DEF ScanStarts, Idle
<1>3. PICK known \in SetToSeqs(present) :
          unread' = [i \in DOMAIN known |-> [added |-> TRUE, address |-> known[i]]]
  BY DEF ScanStarts
<1>4. Cardinality(present) \in Nat /\ known \in [1..Cardinality(present) -> present]
  BY <1>1, FS_CardinalityType DEF SetToSeqs
<1>5. unread' \in Seq(Events)
  <2>1. \A i \in 1..Cardinality(present) : unread'[i] \in Events
    BY <1>1, <1>3, <1>4 DEF Events
  <2>2. unread' \in [1..Cardinality(present) -> Events]
    BY <1>3, <1>4, <2>1
  <2>3. QED
    BY <1>4, <2>2
<1>6. AllMet'
  <2>1. ASSUME NEW a \in present
        PROVE  ~Met(a)'
    <3>1. PICK i \in DOMAIN known : known[i] = a
      BY <1>1, SetToSeqsCovers
    <3>2. i \in DOMAIN unread' /\ unread'[i].address = a
      BY <1>3, <3>1
    <3>3. QED
      BY <3>2 DEF Met
  <2>2. QED
    BY <1>2, <2>1 DEF AllMet
<1>7. AllFollowed'
  BY <1>1, <1>2 DEF AllFollowed
<1>8. LatestTrue'
  <2> SUFFICES ASSUME NEW i \in DOMAIN unread', NEW b \in Addresses
               PROVE  /\ unread'[i] = [added |-> TRUE, address |-> b] => b \in present
                      /\ unread'[i] # [added |-> FALSE, address |-> b]
    BY <1>2 DEF LatestTrue
  <2>1. unread'[i] = [added |-> TRUE, address |-> known[i]] /\ known[i] \in present
    BY <1>3, <1>4
  <2>2. [added |-> TRUE, address |-> known[i]] # [added |-> FALSE, address |-> b]
    OBVIOUS
  <2>3. [added |-> TRUE, address |-> known[i]] = [added |-> TRUE, address |-> b]
            => known[i] = b
    OBVIOUS
  <2>4. QED
    BY <2>1, <2>2, <2>3
<1>9. QED
  BY <1>1, <1>2, <1>5, <1>6, <1>7, <1>8 DEF FollowInv, DiscoveryOK

LEMMA FollowKept ==
    ASSUME FollowInv, UNCHANGED <<present, unread, watched, refused, streams, phase, radio>>
    PROVE  FollowInv'
  BY DEF FollowInv, DiscoveryOK, AllMet, AllFollowed, LatestTrue, Met, UnreadOf

(* The loop leaves for another phase: nothing is followed any more. *)
LEMMA FollowLeaves ==
    ASSUME FollowInv, NEW to, to # "scanning", Goes(to)
    PROVE  FollowInv'
<1>1. /\ phase' # "scanning" /\ present' = present
      /\ watched' = {} /\ refused' = {} /\ unread' = <<>>
  BY DEF Goes, Idle
<1>2. <<>> \in Seq(Events)
  OBVIOUS
<1>3. QED
  BY <1>1, <1>2 DEF FollowInv, DiscoveryOK

LEMMA FollowAppears ==
    ASSUME FollowInv, NEW a \in Addresses, DeviceAppears(a)
    PROVE  FollowInv'
<1> USE DEF loopVars
<1>1. /\ radio = "dual" /\ a \notin present /\ present' = present \cup {a} /\ Unread(TRUE, a)
      /\ UNCHANGED <<watched, streams, refused, phase, radio>>
  BY DEF DeviceAppears
<1>2. IsFiniteSet(present') /\ present' \subseteq Addresses
  BY <1>1, FS_AddElement DEF FollowInv, DiscoveryOK
<1>3. CASE phase = "scanning"
  <2>1. unread' = Append(unread, [added |-> TRUE, address |-> a])
    BY <1>1, <1>3 DEF Unread
  <2>2. unread' \in Seq(Events)
    BY <2>1, AppendUnread DEF FollowInv, DiscoveryOK
  <2>3. AllMet' /\ AllFollowed' /\ LatestTrue'
    <3>1. a \in present' /\ a \notin present
      BY <1>1
    <3>2. QED
      BY <1>1, <1>3, <2>1, <3>1, FollowAnnounced
  <2>4. QED
    BY <1>1, <1>2, <1>3, <2>2, <2>3 DEF FollowInv, DiscoveryOK
<1>4. CASE phase # "scanning"
  <2>1. unread' = unread
    BY <1>1, <1>4 DEF Unread
  <2>2. QED
    BY <1>1, <1>2, <1>4, <2>1 DEF FollowInv, DiscoveryOK
<1>5. QED
  BY <1>3, <1>4

LEMMA FollowDisappears ==
    ASSUME FollowInv, NEW a \in Addresses, DeviceDisappears(a)
    PROVE  FollowInv'
<1> USE DEF loopVars
<1>1. /\ a \in present /\ present' = present \ {a} /\ Unread(FALSE, a)
      /\ streams' = streams \ {a}
      /\ UNCHANGED <<watched, refused, phase, radio>>
  BY DEF DeviceDisappears
<1>2. IsFiniteSet(present') /\ present' \subseteq Addresses
  BY <1>1, FS_RemoveElement DEF FollowInv, DiscoveryOK
<1>3. CASE phase = "scanning"
  <2>1. unread' = Append(unread, [added |-> FALSE, address |-> a])
    BY <1>1, <1>3 DEF Unread
  <2>2. unread' \in Seq(Events)
    BY <2>1, AppendUnread DEF FollowInv, DiscoveryOK
  <2>3. ASSUME radio = "dual"
        PROVE  AllMet' /\ AllFollowed' /\ LatestTrue'
    <3>1. a \notin present' /\ a \in present
      BY <1>1
    <3>2. QED
      BY <1>1, <1>3, <2>1, <2>3, <3>1, FollowAnnounced
  <2>4. QED
    BY <1>1, <1>2, <1>3, <2>2, <2>3 DEF FollowInv, DiscoveryOK
<1>4. CASE phase # "scanning"
  <2>1. unread' = unread
    BY <1>1, <1>4 DEF Unread
  <2>2. QED
    BY <1>1, <1>2, <1>4, <2>1 DEF FollowInv, DiscoveryOK
<1>5. QED
  BY <1>3, <1>4

LEMMA FollowEvent ==
    ASSUME FollowInv, NEW to, AdapterEvent(to)
    PROVE  FollowInv'
<1>1. /\ phase = "scanning" => radio' # "dual"
      /\ present' = present \/ present' = {}
      /\ phase' = phase \/ (phase = "parked" /\ phase' = "settling")
      /\ UNCHANGED <<unread, watched, refused>>
  BY DEF AdapterEvent
<1>2. IsFiniteSet(present') /\ present' \subseteq Addresses
  BY <1>1, FS_EmptySet DEF FollowInv, DiscoveryOK
<1>3. QED
  BY <1>1, <1>2 DEF FollowInv, DiscoveryOK

LEMMA FollowNext ==
    ASSUME FollowInv, [ScannerNext]_nvars
    PROVE  FollowInv'
<1> USE DEF loopVars, discoveryVars, Idle
<1>1. ASSUME NEW a \in Addresses, DeviceAppears(a) \/ DeviceDisappears(a) \/ Advert(a)
      PROVE  FollowInv'
  BY <1>1, FollowAppears, FollowDisappears, FollowKept DEF Advert
<1>2. CASE ReadsDiscovery
  <2>1. unread' \in Seq(Events)
    BY <1>2, TailUnread DEF ReadsDiscovery, FollowInv, DiscoveryOK
  <2>2. UNCHANGED <<present, phase, radio>> /\ phase = "scanning"
    BY <1>2 DEF ReadsDiscovery
  <2>3. radio = "dual" => AllMet' /\ AllFollowed' /\ LatestTrue'
    BY <1>2, <2>2, FollowReads
  <2>4. QED
    BY <2>1, <2>2, <2>3 DEF FollowInv, DiscoveryOK
<1>3. CASE Loop
  BY <1>3, FollowLeaves DEF Loop
<1>4. CASE ScanStarts
  BY <1>4, FollowStarts
<1>5. CASE SetupFails
  BY <1>5, FollowLeaves DEF SetupFails
<1>6. CASE Diagnose
  BY <1>6, FollowLeaves DEF Diagnose
<1>7. CASE WaitEnds
  BY <1>7, FollowLeaves DEF WaitEnds
<1>8. CASE ScanTold
  BY <1>8, FollowLeaves, FollowKept DEF ScanTold
<1>9. CASE ScanBreaks
  BY <1>9, FollowLeaves DEF ScanBreaks
<1>10. CASE Wish
  BY <1>10, FollowKept DEF Wish
<1>11. ASSUME NEW to \in {"off", "bredr", "away", "dual"}, AdapterEvent(to)
       PROVE  FollowInv'
  BY <1>11, FollowEvent
<1>12. CASE DidKnown
  BY <1>12, FollowKept DEF DidKnown
<1>13. CASE ScannerPass
  BY <1>13, FollowKept DEF ScannerPass
<1>14. CASE UNCHANGED nvars
  BY <1>14, FollowKept DEF nvars
<1>15. QED
  BY <1>1, <1>2, <1>3, <1>4, <1>5, <1>6, <1>7, <1>8, <1>9, <1>10, <1>11, <1>12, <1>13, <1>14
  DEF ScannerNext

LEMMA FollowInit == ScannerInit => FollowInv
<1>1. <<>> \in Seq(Events)
  OBVIOUS
<1>2. QED
  BY <1>1, FS_EmptySet DEF ScannerInit, FollowInv, DiscoveryOK

(* No advert of the AirPods is lost on a running scan: for any number of   *)
(* addresses, any cap, and any order in which devices come and go, are     *)
(* announced and read, and the adapter and the wish change (autoconnect.rs *)
(* scan).                                                                  *)
THEOREM AdvertsSeen == ScannerSpec => []AdvertIsSeen
<1>1. ScannerInit => FollowInv /\ AdvertIsSeen
  BY FollowInit DEF ScannerInit, AdvertIsSeen
<1>2. ASSUME FollowInv, AdvertIsSeen, [ScannerNext]_nvars
      PROVE  AdvertIsSeen'
  <2> USE DEF loopVars, discoveryVars, Idle
  <2>1. ASSUME NEW a \in Addresses, Advert(a)
        PROVE  missed' # "lost"
    <3>1. AllMet /\ AllFollowed /\ a \in present
      BY <1>2, <2>1 DEF Advert, FollowInv
    <3>2. a \in refused \/ ~Met(a) \/ a \in streams
      <4>1. UnreadOf(FALSE, a, 0) => ~Met(a)
        BY UnreadMet
      <4>2. Met(a) => a \in watched \cup refused
        BY <3>1 DEF AllMet
      <4>3. a \in watched /\ a \notin streams => UnreadOf(FALSE, a, 0)
        BY <3>1 DEF AllFollowed
      <4>4. QED
        BY <4>1, <4>2, <4>3
    <3>3. QED
      BY <2>1, <3>2 DEF Advert
  <2>2. missed' = missed \/ \E a \in Addresses : Advert(a)
    BY <1>2 DEF ScannerNext, nvars, DeviceAppears, DeviceDisappears, ReadsDiscovery, Loop,
                ScanStarts, SetupFails, Diagnose, WaitEnds, ScanTold, ScanBreaks, Wish,
                AdapterEvent, DidKnown, ScannerPass, Goes
  <2>3. QED
    BY <1>2, <2>1, <2>2 DEF AdvertIsSeen
<1>3. QED
  BY <1>1, <1>2, FollowNext, PTL DEF ScannerSpec


----------------------------------------------------------------------------
(***************************************************************************)
(* The media transports.  The task reads three streams, and what it knows  *)
(* of a transport is put together from what is still unread of it.         *)
(***************************************************************************)
Signals == [path : Transports, active : BOOLEAN, at : Nat]
UnreadIn(k, t) == {s \in Range(stream[k]) : s.path = t}
NoneUnread(t) == \A k \in Streams : UnreadIn(k, t) = {}
Ordered(q) == \A i, j \in DOMAIN q : i < j => q[i].at < q[j].at

StreamInv ==
    /\ emitted \in Nat /\ stream \in [Streams -> Seq(Signals)]
    /\ \A k \in Streams : Ordered(stream[k]) /\ \A s \in Range(stream[k]) : s.at < emitted
    /\ ~subscribed => stream = NothingUnread
    /\ watch_phase # "watching" => overtaken = {}

(* Of a transport whose signals are read in order, the latest unread one   *)
(* says what it is now,                                                    *)
Latest(k, s) == \A j \in Streams : \A o \in UnreadIn(j, s.path) : o.at <= s.at
Tells(k, s) ==
    IF k = "removed" THEN s.path \notin DOMAIN objects
    ELSE s.path \in DOMAIN objects /\ objects[s.path] = s.active
LatestInv ==
    \A t \in Transports \ overtaken : \A k \in Streams : \A s \in UnreadIn(k, t) :
        Latest(k, s) => Tells(k, s)

(* one that exists has been added after every removal still unread,        *)
AddedInv ==
    \A t \in Transports \ overtaken : t \in DOMAIN objects =>
        \A r \in UnreadIn("removed", t) : \E n \in UnreadIn("added", t) : r.at < n.at

(* and is known unless that is still unread; with nothing unread it is     *)
(* known as it is.                                                         *)
KnownInv ==
    watch_phase = "watching" =>
        \A t \in Transports \ overtaken :
            /\ t \in DOMAIN objects /\ UnreadIn("added", t) = {} => t \in DOMAIN by_path
            /\ NoneUnread(t) =>
                  /\ t \in DOMAIN by_path <=> t \in DOMAIN objects
                  /\ t \in DOMAIN objects => (by_path[t] <=> objects[t])
ReportInv == reported \in BOOLEAN /\ (watch_phase = "watching" => (reported <=> active(by_path)))

LEMMA Appended ==
    ASSUME NEW q \in Seq(Signals), NEW x \in Signals
    PROVE  /\ Append(q, x) \in Seq(Signals) /\ Range(Append(q, x)) = Range(q) \cup {x}
           /\ Ordered(q) /\ (\A s \in Range(q) : s.at < x.at) => Ordered(Append(q, x))
<1> DEFINE p == Append(q, x)
<1>1. /\ p \in Seq(Signals) /\ Len(q) \in Nat /\ DOMAIN q = 1..Len(q)
      /\ DOMAIN p = 1..Len(q) + 1 /\ p[Len(q) + 1] = x
      /\ \A i \in 1..Len(q) : p[i] = q[i]
  OBVIOUS
<1> HIDE DEF p
<1>2. Range(p) = Range(q) \cup {x}
  <2>1. \A i \in DOMAIN p : i \in 1..Len(q) \/ i = Len(q) + 1
    BY <1>1
  <2>2. 1..Len(q) \subseteq DOMAIN p /\ Len(q) + 1 \in DOMAIN p
    BY <1>1
  <2>3. QED
    BY <1>1, <2>1, <2>2 DEF Range
<1>3. ASSUME Ordered(q), \A s \in Range(q) : s.at < x.at
      PROVE  Ordered(p)
  <2> SUFFICES ASSUME NEW i \in DOMAIN p, NEW j \in DOMAIN p, i < j
               PROVE  p[i].at < p[j].at
    BY DEF Ordered
  <2>1. i \in 1..Len(q)
    BY <1>1
  <2>2. CASE j \in 1..Len(q)
    BY <1>1, <1>3, <2>1, <2>2 DEF Ordered
  <2>3. CASE j = Len(q) + 1
    BY <1>1, <1>3, <2>1, <2>3 DEF Range
  <2>4. QED
    BY <1>1, <2>2, <2>3
<1>4. QED
  BY <1>1, <1>2, <1>3 DEF p

LEMMA Taken ==
    ASSUME NEW q \in Seq(Signals), q # <<>>
    PROVE  /\ Head(q) \in Signals /\ Tail(q) \in Seq(Signals)
           /\ Range(q) = Range(Tail(q)) \cup {Head(q)}
           /\ Ordered(q) => Ordered(Tail(q)) /\ \A s \in Range(Tail(q)) : Head(q).at < s.at
<1> DEFINE p == Tail(q)
<1>1. /\ p \in Seq(Signals) /\ Len(q) \in Nat /\ Len(q) >= 1 /\ DOMAIN q = 1..Len(q)
      /\ DOMAIN p = 1..Len(q) - 1 /\ Head(q) = q[1] /\ Head(q) \in Signals
      /\ \A i \in 1..Len(q) - 1 : p[i] = q[i + 1]
  OBVIOUS
<1> HIDE DEF p
<1>2. Range(q) = Range(p) \cup {Head(q)}
  <2>1. \A i \in DOMAIN q : i = 1 \/ (i - 1 \in DOMAIN p /\ p[i - 1] = q[i])
    BY <1>1
  <2>2. \A i \in DOMAIN p : i + 1 \in DOMAIN q /\ p[i] = q[i + 1]
    BY <1>1
  <2>3. 1 \in DOMAIN q /\ Head(q) = q[1]
    BY <1>1
  <2>4. Range(q) \subseteq Range(p) \cup {Head(q)}
    BY <2>1, <2>3 DEF Range
  <2>5. Range(p) \cup {Head(q)} \subseteq Range(q)
    BY <2>2, <2>3 DEF Range
  <2>6. QED
    BY <2>4, <2>5
<1>3. ASSUME Ordered(q)
      PROVE  Ordered(p) /\ \A s \in Range(p) : Head(q).at < s.at
  <2>1. \A i \in DOMAIN p : i + 1 \in DOMAIN q /\ p[i] = q[i + 1] /\ i \in Nat /\ 1 < i + 1
    BY <1>1
  <2>2. Ordered(p)
    <3> SUFFICES ASSUME NEW i \in DOMAIN p, NEW j \in DOMAIN p, i < j
                 PROVE  p[i].at < p[j].at
      BY DEF Ordered
    <3>1. i + 1 < j + 1
      BY <2>1
    <3>2. QED
      BY <1>3, <2>1, <3>1 DEF Ordered
  <2>3. \A i \in DOMAIN p : q[1].at < q[i + 1].at
    BY <1>1, <1>3, <2>1 DEF Ordered
  <2>4. QED
    BY <1>1, <2>1, <2>2, <2>3 DEF Range
<1>4. QED
  BY <1>1, <1>2, <1>3 DEF p

LEMMA Emits ==
    ASSUME StreamInv, LatestInv, AddedInv, KnownInv,
           NEW k \in Streams, NEW t \in Transports, NEW a \in BOOLEAN, Emit(k, t, a),
           \/ k = "removed" /\ objects' = Without(objects, t)
           \/ /\ k # "removed" /\ objects' = With(objects, t, a)
              /\ k = "props" => t \in DOMAIN objects
    PROVE  StreamInv' /\ LatestInv' /\ AddedInv' /\ KnownInv'
<1> DEFINE x == [path |-> t, active |-> a, at |-> emitted]
<1>1. /\ x \in Signals /\ x.path = t /\ x.at = emitted /\ x.active = a
      /\ emitted \in Nat /\ emitted' = emitted + 1
      /\ stream' = IF subscribed THEN [stream EXCEPT ![k] = Append(@, x)] ELSE stream
      /\ UNCHANGED <<watch_phase, by_path, reported, overtaken>>
  BY DEF Emit, Signals, StreamInv
<1> HIDE DEF x
<1>o. /\ \A u \in Transports \ {t} :
            /\ u \in DOMAIN objects' <=> u \in DOMAIN objects
            /\ u \in DOMAIN objects => objects'[u] = objects[u]
      /\ k = "removed" => t \notin DOMAIN objects'
      /\ k # "removed" => t \in DOMAIN objects' /\ objects'[t] = a
  BY DEF With, Without
<1>p. subscribed' <=> subscribed
  BY <1>1 DEF subscribed
<1>2. CASE ~subscribed
  <2>1. stream' = stream /\ \A j \in Streams : stream[j] = <<>>
    BY <1>1, <1>2 DEF StreamInv, NothingUnread
  <2>2. StreamInv'
    <3>1. \A j \in Streams : Range(stream[j]) = {}
      BY <2>1 DEF Range
    <3>2. /\ emitted' \in Nat /\ stream' \in [Streams -> Seq(Signals)]
          /\ \A j \in Streams : Ordered(stream[j])' /\ \A s \in Range(stream[j])' : s.at < emitted'
      BY <1>1, <2>1, <3>1 DEF StreamInv, Ordered, Range
    <3>3. /\ ~subscribed' => (stream = NothingUnread)'
          /\ (watch_phase # "watching" => overtaken = {})'
      BY <1>1, <1>2, <2>1 DEF StreamInv, NothingUnread
    <3>4. QED
      BY <3>2, <3>3 DEF StreamInv
  <2>3. \A j \in Streams : \A u : UnreadIn(j, u)' = {}
    BY <2>1 DEF UnreadIn, Range
  <2>4. LatestInv' /\ AddedInv'
    BY <2>3 DEF LatestInv, AddedInv, Streams
  <2>5. KnownInv'
    BY <1>1, <1>2 DEF KnownInv, subscribed
  <2>6. QED
    BY <2>2, <2>4, <2>5
<1>3. CASE subscribed
  <2>1. /\ stream' = [stream EXCEPT ![k] = Append(@, x)]
        /\ \A j \in Streams : stream[j] \in Seq(Signals) /\ Ordered(stream[j])
                              /\ \A s \in Range(stream[j]) : s.at < emitted /\ s \in Signals
        /\ stream \in [Streams -> Seq(Signals)]
    <3>1. \A q \in Seq(Signals) : \A s \in Range(q) : s \in Signals
      BY DEF Range
    <3>2. QED
      BY <1>1, <1>3, <3>1 DEF StreamInv
  <2>2. /\ stream' \in [Streams -> Seq(Signals)]
        /\ stream'[k] = Append(stream[k], x) /\ \A j \in Streams \ {k} : stream'[j] = stream[j]
    BY <1>1, <2>1, Appended
  <2>3. /\ Range(stream'[k]) = Range(stream[k]) \cup {x} /\ Ordered(stream'[k])
    BY <1>1, <2>1, <2>2, Appended
  <2>4. StreamInv'
    <3>1. \A j \in Streams : Ordered(stream'[j]) /\ \A s \in Range(stream'[j]) : s.at < emitted + 1
      <4> SUFFICES ASSUME NEW j \in Streams
                   PROVE  Ordered(stream'[j]) /\ \A s \in Range(stream'[j]) : s.at < emitted + 1
        OBVIOUS
      <4>1. \A s \in Range(stream[j]) : s.at < emitted + 1
        BY <1>1, <2>1 DEF Signals
      <4>2. QED
        BY <1>1, <2>1, <2>2, <2>3, <4>1
    <3>2. emitted' \in Nat
      BY <1>1
    <3>3. Ordered(stream[k])' <=> Ordered(stream'[k])
      BY <1>1 DEF Ordered
    <3>4. QED
      BY <1>1, <1>3, <1>p, <2>2, <3>1, <3>2 DEF StreamInv, Ordered
  <2>5. \A j \in Streams, u \in Transports :
           UnreadIn(j, u)' = UnreadIn(j, u) \cup (IF j = k /\ u = t THEN {x} ELSE {})
    BY <1>1, <2>2, <2>3 DEF UnreadIn
  <2>others. \A j \in Streams, u \in Transports \ {t} : UnreadIn(j, u)' = UnreadIn(j, u)
    <3> SUFFICES ASSUME NEW j \in Streams, NEW u \in Transports \ {t}
                 PROVE  UnreadIn(j, u)' = UnreadIn(j, u)
      OBVIOUS
    <3>1. UnreadIn(j, u)' = UnreadIn(j, u) \cup {}
      BY <2>5
    <3>2. QED
      BY <3>1
  <2>6. \A j \in Streams, u \in Transports : \A s \in UnreadIn(j, u) :
           s.at < emitted /\ s.at \in Nat /\ s.path = u
    BY <2>1 DEF UnreadIn, Signals
  <2>7. LatestInv'
    <3> SUFFICES ASSUME NEW u \in Transports \ overtaken, NEW j \in Streams, NEW s \in UnreadIn(j, u)',
                        Latest(j, s)'
                 PROVE  Tells(j, s)'
      BY <1>1 DEF LatestInv
    <3>0. s.path = u
      BY DEF UnreadIn
    <3>1. CASE u = t
      <4>1. x \in UnreadIn(k, t)'
        BY <2>5
      <4>2. emitted <= s.at
        BY <1>1, <3>0, <3>1, <4>1 DEF Latest
      <4>3. s \notin UnreadIn(j, u)
        BY <1>1, <2>6, <4>2
      <4>4. s = x /\ j = k
        BY <2>5, <4>3
      <4>5. s.path = t /\ (s.active <=> a)
        BY <1>1, <4>4
      <4>6. CASE k = "removed"
        BY <1>o, <4>4, <4>5, <4>6 DEF Tells
      <4>7. CASE k # "removed"
        <5>1. t \in DOMAIN objects' /\ objects'[t] = a /\ s.active = a
          BY <1>1, <1>o, <4>4, <4>7
        <5>2. j # "removed"
          BY <4>4, <4>7
        <5>3. QED
          BY <4>5, <5>1, <5>2, Zenon DEF Tells
      <4>8. QED
        BY <4>6, <4>7
    <3>2. CASE u # t
      <4>1. \A i \in Streams : UnreadIn(i, u)' = UnreadIn(i, u)
        BY <2>others, <3>2
      <4>2. Latest(j, s)
        BY <3>0, <4>1 DEF Latest
      <4>3. Tells(j, s)
        BY <4>1, <4>2 DEF LatestInv
      <4>4. QED
        BY <1>o, <3>0, <3>2, <4>3 DEF Tells
    <3>3. QED
      BY <3>1, <3>2
  <2>8. AddedInv'
    <3> SUFFICES ASSUME NEW u \in Transports \ overtaken, u \in DOMAIN objects',
                        NEW r \in UnreadIn("removed", u)'
                 PROVE  \E n \in UnreadIn("added", u)' : r.at < n.at
      BY <1>1 DEF AddedInv
    <3>s. "removed" \in Streams /\ "added" \in Streams
      BY DEF Streams
    <3>1. CASE u # t \/ k = "props"
      BY <1>o, <2>5, <3>1, <3>s DEF AddedInv
    <3>2. CASE u = t /\ k = "added"
      BY <1>1, <2>5, <2>6, <3>2, <3>s
    <3>3. QED
      BY <1>o, <3>1, <3>2 DEF Streams
  <2>9. KnownInv'
    <3> SUFFICES ASSUME watch_phase = "watching", NEW u \in Transports \ overtaken
                 PROVE  /\ u \in DOMAIN objects' /\ UnreadIn("added", u)' = {} => u \in DOMAIN by_path
                        /\ NoneUnread(u)' =>
                              /\ u \in DOMAIN by_path <=> u \in DOMAIN objects'
                              /\ u \in DOMAIN objects' => (by_path[u] <=> objects'[u])
      BY <1>1 DEF KnownInv
    <3>s. "removed" \in Streams /\ "added" \in Streams
      BY DEF Streams
    <3>1. CASE u = t
      <4>1. x \in UnreadIn(k, t)'
        BY <2>5
      <4>2. ~NoneUnread(u)'
        BY <3>1, <4>1 DEF NoneUnread
      <4>3. ASSUME u \in DOMAIN objects', UnreadIn("added", u)' = {}
            PROVE  u \in DOMAIN by_path
        <5>1. k = "props"
          BY <1>o, <3>1, <4>1, <4>3 DEF Streams
        <5>2. u \in DOMAIN objects /\ UnreadIn("added", u) = {}
          BY <2>5, <3>1, <3>s, <4>3, <5>1
        <5>3. QED
          BY <5>2 DEF KnownInv
      <4>4. QED
        BY <4>2, <4>3
    <3>2. CASE u # t
      <4>1. \A i \in Streams : UnreadIn(i, u)' = UnreadIn(i, u)
        BY <2>others, <3>2
      <4>2. NoneUnread(u)' => NoneUnread(u)
        BY <4>1 DEF NoneUnread
      <4>3. QED
        BY <1>o, <3>2, <3>s, <4>1, <4>2 DEF KnownInv
    <3>3. QED
      BY <3>1, <3>2
  <2>10. QED
    BY <2>4, <2>7, <2>8, <2>9
<1>4. QED
  BY <1>2, <1>3

(* Reading the oldest unread signal of a stream keeps all of it when no    *)
(* other stream holds an older one of its transport; when one does, the    *)
(* transport is overtaken and nothing is said of it.                       *)
LEMMA Reads ==
    ASSUME StreamInv, LatestInv, AddedInv, KnownInv, NEW k \in Streams, Read(k)
    PROVE  StreamInv' /\ LatestInv' /\ AddedInv' /\ KnownInv'
<1> DEFINE s == Head(stream[k])
           t == s.path
<1>1. /\ watch_phase = "watching" /\ watch_phase' = watch_phase
      /\ stream[k] \in Seq(Signals) /\ stream[k] # <<>>
      /\ stream' = [stream EXCEPT ![k] = Tail(@)] /\ stream \in [Streams -> Seq(Signals)]
      /\ by_path' = Folded(k, s) /\ objects' = objects /\ emitted' = emitted /\ emitted \in Nat
      /\ overtaken' = IF OlderUnread(k, s) = {} THEN overtaken ELSE overtaken \cup {t}
  BY DEF Read, StreamInv
<1>2. /\ s \in Signals /\ Tail(stream[k]) \in Seq(Signals)
      /\ Range(stream[k]) = Range(Tail(stream[k])) \cup {s} /\ Ordered(Tail(stream[k]))
      /\ \A x \in Range(Tail(stream[k])) : s.at < x.at
  BY <1>1, Taken DEF StreamInv
<1>3. /\ stream' \in [Streams -> Seq(Signals)] /\ stream'[k] = Tail(stream[k])
      /\ \A j \in Streams \ {k} : stream'[j] = stream[j]
  BY <1>1, <1>2
<1> HIDE DEF s
<1>t. t \in Transports /\ s.at \in Nat /\ s.active \in BOOLEAN
  BY <1>2 DEF Signals
<1>4. StreamInv'
  <2>1. \A j \in Streams : Ordered(stream'[j]) /\ \A x \in Range(stream'[j]) : x.at < emitted
    <3> SUFFICES ASSUME NEW j \in Streams
                 PROVE  Ordered(stream'[j]) /\ \A x \in Range(stream'[j]) : x.at < emitted
      OBVIOUS
    <3>1. Ordered(stream[j]) /\ \A x \in Range(stream[j]) : x.at < emitted
      BY DEF StreamInv
    <3>2. QED
      BY <1>2, <1>3, <3>1
  <2>2. subscribed' /\ watch_phase' = "watching"
    BY <1>1 DEF subscribed
  <2>3. QED
    BY <1>1, <1>3, <2>1, <2>2 DEF StreamInv, Ordered
<1>5. \A j \in Streams, u \in Transports :
         /\ j # k \/ u # t => UnreadIn(j, u)' = UnreadIn(j, u)
         /\ UnreadIn(j, u)' \subseteq UnreadIn(j, u)
         /\ UnreadIn(j, u) \subseteq UnreadIn(j, u)' \cup (IF j = k /\ u = t THEN {s} ELSE {})
  <2> SUFFICES ASSUME NEW j \in Streams, NEW u \in Transports
               PROVE  /\ j # k \/ u # t => UnreadIn(j, u)' = UnreadIn(j, u)
                      /\ UnreadIn(j, u)' \subseteq UnreadIn(j, u)
                      /\ UnreadIn(j, u) \subseteq UnreadIn(j, u)' \cup (IF j = k /\ u = t THEN {s} ELSE {})
    OBVIOUS
  <2>1. CASE j # k
    BY <1>3, <2>1 DEF UnreadIn
  <2>2. CASE j = k
    <3>1. /\ UnreadIn(k, u)' = {x \in Range(Tail(stream[k])) : x.path = u}
          /\ UnreadIn(k, u) = {x \in Range(Tail(stream[k])) \cup {s} : x.path = u}
      BY <1>2, <1>3 DEF UnreadIn
    <3>2. QED
      BY <2>2, <3>1
  <2>3. QED
    BY <2>1, <2>2
<1>6. \A j \in Streams, u \in Transports : \A x \in UnreadIn(j, u) : x.at \in Nat /\ x.path = u
  <2> SUFFICES ASSUME NEW j \in Streams, NEW u \in Transports, NEW x \in UnreadIn(j, u)
               PROVE  x.at \in Nat /\ x.path = u
    OBVIOUS
  <2>1. stream[j] \in Seq(Signals) /\ x \in Range(stream[j]) /\ x.path = u
    BY <1>1 DEF UnreadIn
  <2>2. x \in Signals
    BY <2>1 DEF Range
  <2>3. QED
    BY <2>1, <2>2 DEF Signals
<1>7. s \in UnreadIn(k, t)
  BY <1>2 DEF UnreadIn
<1>8. ASSUME t \notin overtaken'
      PROVE  \A j \in Streams : \A x \in UnreadIn(j, t) : s.at <= x.at
  <2> SUFFICES ASSUME NEW j \in Streams, NEW x \in UnreadIn(j, t)
               PROVE  s.at <= x.at
    OBVIOUS
  <2>1. OlderUnread(k, s) = {}
    BY <1>1, <1>8
  <2>2. CASE j # k
    <3>1. x \in Range(stream[j]) /\ x.path = t
      BY DEF UnreadIn
    <3>2. ~(x.at < s.at)
      BY <2>1, <2>2, <3>1 DEF OlderUnread
    <3>3. QED
      BY <1>6, <1>t, <3>2
  <2>3. CASE j = k
    <3>1. x = s \/ x \in Range(Tail(stream[k]))
      BY <1>2, <2>3 DEF UnreadIn
    <3>2. QED
      BY <1>2, <1>6, <1>t, <3>1
  <2>4. QED
    BY <2>2, <2>3
<1>9. overtaken \subseteq overtaken' /\ \A u \in Transports \ overtaken' : u \notin overtaken
  BY <1>1
<1>s. "added" \in Streams /\ "removed" \in Streams /\ "props" \in Streams
  BY DEF Streams
<1>10. LatestInv'
  <2> SUFFICES ASSUME NEW u \in Transports \ overtaken', NEW j \in Streams, NEW x \in UnreadIn(j, u)',
                      Latest(j, x)'
               PROVE  Tells(j, x)'
    BY DEF LatestInv
  <2>1. x \in UnreadIn(j, u) /\ x.path = u
    BY <1>5, <1>6
  <2>2. ASSUME NEW i \in Streams, NEW o \in UnreadIn(i, u)
        PROVE  o.at <= x.at
    <3>1. CASE o \in UnreadIn(i, u)'
      BY <2>1, <3>1 DEF Latest
    <3>2. CASE o \notin UnreadIn(i, u)'
      <4>1. u = t /\ o = s
        BY <1>5, <3>2
      <4>2. QED
        BY <1>8, <2>1, <4>1
    <3>3. QED
      BY <3>1, <3>2
  <2>3. Latest(j, x)
    BY <2>1, <2>2 DEF Latest
  <2>4. Tells(j, x)
    BY <1>9, <2>1, <2>3 DEF LatestInv
  <2>5. QED
    BY <1>1, <2>4 DEF Tells
<1>11. AddedInv'
  <2> SUFFICES ASSUME NEW u \in Transports \ overtaken', u \in DOMAIN objects',
                      NEW r \in UnreadIn("removed", u)'
               PROVE  \E n \in UnreadIn("added", u)' : r.at < n.at
    BY DEF AddedInv
  <2>1. r \in UnreadIn("removed", u)
    BY <1>5, <1>s
  <2>2. PICK n \in UnreadIn("added", u) : r.at < n.at
    BY <1>1, <1>9, <2>1 DEF AddedInv
  <2>3. ASSUME n \notin UnreadIn("added", u)'
        PROVE  FALSE
    <3>1. u = t /\ n = s
      BY <1>5, <1>s, <2>3
    <3>2. s.at <= r.at
      BY <1>8, <1>s, <2>1, <3>1
    <3>3. r.at \in Nat
      BY <1>6, <1>s, <2>1
    <3>4. QED
      BY <1>t, <2>2, <3>1, <3>2, <3>3
  <2>4. QED
    BY <2>2, <2>3
<1>12. KnownInv'
  <2> SUFFICES ASSUME NEW u \in Transports \ overtaken'
               PROVE  /\ u \in DOMAIN objects /\ UnreadIn("added", u)' = {} => u \in DOMAIN by_path'
                      /\ NoneUnread(u)' =>
                            /\ u \in DOMAIN by_path' <=> u \in DOMAIN objects
                            /\ u \in DOMAIN objects => (by_path'[u] <=> objects[u])
    BY <1>1 DEF KnownInv
  <2>k. u \notin overtaken
        /\ (u \in DOMAIN objects /\ UnreadIn("added", u) = {} => u \in DOMAIN by_path)
        /\ (NoneUnread(u) =>
                /\ u \in DOMAIN by_path <=> u \in DOMAIN objects
                /\ u \in DOMAIN objects => (by_path[u] <=> objects[u]))
    BY <1>1, <1>9 DEF KnownInv
  <2>1. CASE u # t
    <3>1. /\ u \in DOMAIN by_path' <=> u \in DOMAIN by_path
          /\ u \in DOMAIN by_path => by_path'[u] = by_path[u]
      BY <1>1, <2>1 DEF Folded, With, Without, Streams
    <3>2. \A j \in Streams : UnreadIn(j, u)' = UnreadIn(j, u)
      BY <1>5, <2>1
    <3>3. NoneUnread(u)' => NoneUnread(u)
      BY <3>2 DEF NoneUnread
    <3>4. UnreadIn("added", u)' = UnreadIn("added", u)
      BY <1>s, <3>2
    <3>5. QED
      BY <2>k, <3>1, <3>3, <3>4
  <2>2. CASE u = t
    <3>1. ASSUME u \in DOMAIN objects, UnreadIn("added", u)' = {}
          PROVE  u \in DOMAIN by_path'
      <4>1. CASE k = "added"
        BY <1>1, <2>2, <4>1 DEF Folded, With
      <4>2. CASE k = "props"
        <5>1. UnreadIn("added", u) = {}
          BY <1>5, <1>s, <3>1, <4>2
        <5>2. u \in DOMAIN by_path
          BY <2>k, <3>1, <5>1
        <5>3. QED
          BY <1>1, <2>2, <4>2, <5>2 DEF Folded, With
      <4>3. CASE k = "removed"
        <5>1. \E n \in UnreadIn("added", u) : s.at < n.at
          BY <1>7, <1>s, <2>2, <2>k, <3>1, <4>3 DEF AddedInv
        <5>2. UnreadIn("added", u) = {}
          BY <1>5, <1>s, <3>1, <4>3
        <5>3. QED
          BY <5>1, <5>2
      <4>4. QED
        BY <4>1, <4>2, <4>3 DEF Streams
    <3>2. ASSUME NoneUnread(u)'
          PROVE  /\ u \in DOMAIN by_path' <=> u \in DOMAIN objects
                 /\ u \in DOMAIN objects => (by_path'[u] <=> objects[u])
      <4>1. \A j \in Streams : \A o \in UnreadIn(j, u) : o = s
        BY <1>5, <3>2 DEF NoneUnread
      <4>2. Latest(k, s)
        BY <1>t, <2>2, <4>1 DEF Latest
      <4>3. Tells(k, s)
        BY <1>7, <2>2, <2>k, <4>2 DEF LatestInv
      <4>4. UnreadIn("added", u)' = {}
        BY <1>s, <3>2 DEF NoneUnread
      <4>5. CASE k = "removed"
        BY <1>1, <2>2, <4>3, <4>5 DEF Tells, Folded, Without
      <4>6. CASE k # "removed"
        <5>1. u \in DOMAIN objects /\ objects[u] = s.active
          BY <2>2, <4>3, <4>6 DEF Tells
        <5>2. k = "props" => u \in DOMAIN by_path
          <6> SUFFICES ASSUME k = "props"
                       PROVE  u \in DOMAIN by_path
            OBVIOUS
          <6>1. UnreadIn("added", u) = {}
            BY <1>5, <1>s, <4>4
          <6>2. QED
            BY <2>k, <5>1, <6>1
        <5>3. k = "added" \/ k = "props"
          BY <4>6 DEF Streams
        <5>4. by_path' = With(by_path, u, s.active)
          BY <1>1, <2>2, <5>2, <5>3 DEF Folded
        <5>5. u \in DOMAIN by_path' /\ by_path'[u] = s.active
          BY <5>4 DEF With
        <5>6. QED
          BY <5>1, <5>5
      <4>7. QED
        BY <4>5, <4>6
    <3>3. QED
      BY <3>1, <3>2
  <2>3. QED
    BY <2>1, <2>2
<1>13. QED
  BY <1>4, <1>10, <1>11, <1>12

(* With nothing unread, nothing has to be said of what is unread.          *)
LEMMA Cleared ==
    ASSUME emitted' \in Nat, (stream = NothingUnread)', (overtaken = {})', (watch_phase # "watching")'
    PROVE  StreamInv' /\ LatestInv' /\ AddedInv' /\ KnownInv'
<1>1. /\ stream' \in [Streams -> Seq(Signals)] /\ \A j \in Streams : stream'[j] = <<>>
      /\ emitted' \in Nat /\ watch_phase' # "watching" /\ overtaken' = {}
  BY DEF NothingUnread
<1>2. \A j \in Streams : Range(stream'[j]) = {} /\ Ordered(stream'[j])
  BY <1>1 DEF Range, Ordered
<1>3. \A j \in Streams : \A u : UnreadIn(j, u)' = {}
  BY <1>2 DEF UnreadIn
<1>4. StreamInv'
  <2>1. \A j \in Streams : Ordered(stream[j])' /\ \A s \in Range(stream[j])' : s.at < emitted'
    BY <1>2 DEF Ordered, Range
  <2>2. QED
    BY <1>1, <2>1 DEF StreamInv
<1>5. LatestInv' /\ AddedInv'
  BY <1>3 DEF LatestInv, AddedInv, Streams
<1>6. KnownInv'
  BY <1>1 DEF KnownInv
<1>7. QED
  BY <1>4, <1>5, <1>6

(* The transports BlueZ has are streaming or not.                          *)
ObjectsInv == \A t \in DOMAIN objects : objects[t] \in BOOLEAN
ReadInv == ObjectsInv /\ StreamInv /\ LatestInv /\ AddedInv /\ KnownInv /\ ReportInv

LEMMA ReadStep == ReadInv /\ [AudioNext]_objectVars => ReadInv'
<1> SUFFICES ASSUME ReadInv, [AudioNext]_objectVars
             PROVE  ReadInv'
  OBVIOUS
<1> USE DEF ReadInv
<1>1. ASSUME NEW t \in Transports, TransportAppears(t) \/ TransportDisappears(t) \/ StateChanges(t)
      PROVE  ReadInv'
  <2>1. PICK k \in Streams, a \in BOOLEAN :
           /\ Emit(k, t, a)
           /\ \/ k = "removed" /\ objects' = Without(objects, t)
              \/ /\ k # "removed" /\ objects' = With(objects, t, a)
                 /\ k = "props" => t \in DOMAIN objects
    <3>1. CASE TransportAppears(t)
      <4>1. Emit("added", t, FALSE) /\ objects' = With(objects, t, FALSE)
        BY <3>1 DEF TransportAppears
      <4>2. QED
        BY <4>1 DEF Streams
    <3>2. CASE TransportDisappears(t)
      <4>1. Emit("removed", t, FALSE) /\ objects' = Without(objects, t)
        BY <3>2 DEF TransportDisappears
      <4>2. QED
        BY <4>1 DEF Streams
    <3>3. CASE StateChanges(t)
      <4>1. Emit("props", t, ~objects[t]) /\ objects' = With(objects, t, ~objects[t]) /\ t \in DOMAIN objects
        BY <3>3 DEF StateChanges
      <4>2. "props" \in Streams /\ (~objects[t]) \in BOOLEAN
        BY <4>1 DEF Streams, ObjectsInv
      <4>3. QED
        BY <4>1, <4>2
    <3>4. QED
      BY <1>1, <3>1, <3>2, <3>3
  <2>2. StreamInv' /\ LatestInv' /\ AddedInv' /\ KnownInv'
    BY <2>1, Emits
  <2>3. ReportInv'
    BY <2>1 DEF Emit, ReportInv, active
  <2>4. ObjectsInv'
    BY <2>1 DEF ObjectsInv, With, Without
  <2>5. QED
    BY <2>2, <2>3, <2>4
<1>2. ASSUME Subscribe
      PROVE  ReadInv'
  <2>1. /\ UNCHANGED <<objects, emitted, stream, by_path, reported, overtaken>>
        /\ watch_phase' = "subscribed" /\ watch_phase # "watching"
    BY <1>2 DEF Subscribe
  <2>2. StreamInv'
    BY <2>1 DEF StreamInv, subscribed, Ordered
  <2>3. LatestInv' /\ AddedInv'
    BY <2>1 DEF LatestInv, AddedInv, Latest, Tells, UnreadIn
  <2>4. KnownInv' /\ ReportInv' /\ ObjectsInv'
    BY <2>1 DEF KnownInv, ReportInv, ObjectsInv
  <2>5. QED
    BY <2>2, <2>3, <2>4
<1>3. ASSUME GetManagedObjects
      PROVE  ReadInv'
  <2>1. /\ UNCHANGED <<objects, emitted, stream>> /\ overtaken = {} /\ overtaken' = {}
        /\ watch_phase = "subscribed" /\ watch_phase' = "watching"
        /\ by_path' = objects /\ reported' = active(objects)
    BY <1>3 DEF GetManagedObjects, StreamInv
  <2>2. StreamInv'
    BY <2>1 DEF StreamInv, subscribed, Ordered
  <2>3. LatestInv' /\ AddedInv'
    BY <2>1 DEF LatestInv, AddedInv, Latest, Tells, UnreadIn
  <2>4. KnownInv'
    BY <2>1 DEF KnownInv
  <2>5. ReportInv' /\ ObjectsInv'
    BY <2>1 DEF ReportInv, ObjectsInv, active
  <2>6. QED
    BY <2>2, <2>3, <2>4, <2>5
<1>4. ASSUME NEW k \in Streams, Read(k)
      PROVE  ReadInv'
  <2>1. StreamInv' /\ LatestInv' /\ AddedInv' /\ KnownInv'
    BY <1>4, Reads
  <2>2. reported' = active(by_path') /\ objects' = objects
    BY <1>4 DEF Read
  <2>3. ReportInv' /\ ObjectsInv'
    BY <2>2 DEF ReportInv, ObjectsInv, active
  <2>4. QED
    BY <2>1, <2>3
<1>5. ASSUME BusLost
      PROVE  ReadInv'
  <2>1. StreamInv' /\ LatestInv' /\ AddedInv' /\ KnownInv'
    <3>1. emitted' \in Nat /\ stream' = NothingUnread /\ overtaken' = {} /\ watch_phase' = "ended"
      BY <1>5 DEF BusLost, StreamInv
    <3>2. (stream = NothingUnread)'
      BY <3>1 DEF NothingUnread
    <3>3. QED
      BY <3>1, <3>2, Cleared
  <2>2. ReportInv' /\ ObjectsInv'
    BY <1>5 DEF BusLost, ReportInv, ObjectsInv
  <2>3. QED
    BY <2>1, <2>2
<1>6. ASSUME Rebuilt
      PROVE  ReadInv'
  <2>1. /\ UNCHANGED <<objects, emitted, stream, by_path, reported, overtaken>>
        /\ watch_phase' = "unsubscribed" /\ watch_phase = "ended"
    BY <1>6 DEF Rebuilt
  <2>2. stream = NothingUnread /\ overtaken = {} /\ emitted \in Nat
    BY <2>1 DEF StreamInv, subscribed
  <2>3. (stream = NothingUnread)'
    BY <2>1, <2>2 DEF NothingUnread
  <2>4. StreamInv' /\ LatestInv' /\ AddedInv' /\ KnownInv'
    BY <2>1, <2>2, <2>3, Cleared
  <2>5. ReportInv' /\ ObjectsInv'
    BY <2>1 DEF ReportInv, ObjectsInv
  <2>6. QED
    BY <2>4, <2>5
<1>7. ASSUME UNCHANGED objectVars
      PROVE  ReadInv'
  <2>1. UNCHANGED <<objects, emitted, watch_phase, stream, by_path, reported, overtaken>>
    BY <1>7 DEF objectVars
  <2>2. StreamInv'
    BY <2>1 DEF StreamInv, subscribed, Ordered
  <2>3. LatestInv' /\ AddedInv'
    BY <2>1 DEF LatestInv, AddedInv, Latest, Tells, UnreadIn
  <2>4. KnownInv' /\ ReportInv' /\ ObjectsInv'
    BY <2>1 DEF KnownInv, ReportInv, ObjectsInv, NoneUnread, UnreadIn
  <2>5. QED
    BY <2>2, <2>3, <2>4
<1>8. QED
  BY <1>1, <1>2, <1>3, <1>4, <1>5, <1>6, <1>7 DEF AudioNext

LEMMA ReadStarts == AudioInit => ReadInv
<1> SUFFICES ASSUME AudioInit
             PROVE  ReadInv
  OBVIOUS
<1>1. /\ emitted = 0 /\ watch_phase = "unsubscribed" /\ overtaken = {} /\ reported = FALSE
      /\ stream \in [Streams -> Seq(Signals)] /\ stream = NothingUnread
      /\ \A j \in Streams : stream[j] = <<>>
  BY DEF AudioInit, NothingUnread
<1>2. \A j \in Streams : Range(stream[j]) = {} /\ Ordered(stream[j])
  BY <1>1 DEF Range, Ordered
<1>3. StreamInv
  BY <1>1, <1>2 DEF StreamInv
<1>4. \A j \in Streams : \A u : UnreadIn(j, u) = {}
  BY <1>2 DEF UnreadIn
<1>5. LatestInv /\ AddedInv
  BY <1>4 DEF LatestInv, AddedInv, Streams
<1>6. QED
  BY <1>1, <1>3, <1>5 DEF AudioInit, NoTransports, ReadInv, KnownInv, ReportInv, ObjectsInv

(* Once the task has read all there is, what the supervisor was last told  *)
(* of the stream is what BlueZ has, for any number of transports and of    *)
(* signals, whatever was missed before the subscription and however the    *)
(* answer to GetManagedObjects overlaps the signals it already reflects    *)
(* (watch_audio_objects).                                                  *)
THEOREM ReportStaysTrue == AudioSpec => []ReportIsTrue
<1>1. ReadInv => ReportIsTrue
  <2> SUFFICES ASSUME ReadInv, watch_phase = "watching", stream = NothingUnread,
                      overtaken \cap A2dp = {}
               PROVE  reported = active(objects)
    BY DEF ReportIsTrue
  <2>1. \A j \in Streams : \A u : UnreadIn(j, u) = {}
    BY DEF NothingUnread, UnreadIn, Range
  <2>2. ASSUME NEW t \in A2dp
        PROVE  (t \in DOMAIN by_path /\ by_path[t]) <=> (t \in DOMAIN objects /\ objects[t])
    <3>1. t \in Transports \ overtaken
      BY DEF Transports
    <3>2. NoneUnread(t)
      BY <2>1 DEF NoneUnread
    <3>3. QED
      BY <3>1, <3>2 DEF ReadInv, KnownInv
  <2>3. active(by_path) <=> active(objects)
    BY <2>2, Zenon DEF active
  <2>4. reported \in BOOLEAN /\ (reported <=> active(objects))
    BY <2>3 DEF ReadInv, ReportInv
  <2>5. QED
    BY <2>4 DEF active
<1>2. QED
  BY <1>1, ReadStarts, ReadStep, PTL DEF AudioSpec
=============================================================================
