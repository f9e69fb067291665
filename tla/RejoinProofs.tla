---------------------------- MODULE RejoinProofs ----------------------------
(***************************************************************************)
(* Proofs about module RejoinWatch, for any hosts, any delays and any      *)
(* number of attempts that RejoinAssumption admits.                        *)
(***************************************************************************)
EXTENDS RejoinWatch, TLAPS

(* The parts of RejoinTypeOK: switches, evidence and ages, and the pending *)
(* sequence, which has its first attempt behind it or under way.           *)
SwitchesOK == handoff_enabled \in BOOLEAN /\ both_in_case \in BOOLEAN /\ looped \in BOOLEAN

EvidenceOK ==
    /\ known \in Seq(Hosts) /\ Len(known) <= KNOWN_HOSTS_CAP
    /\ listed \subseteq Hosts /\ up \subseteq listed
    /\ rejoin_does \subseteq Effects

AgesOK ==
    /\ report_age \in 0 .. EVICTION_WINDOW + 1
    /\ last_manual \in 0..MANUAL_QUIET /\ last_sequence \in 0..RATE_LIMIT
    /\ last_success \in 0..LOOP_WINDOW
    /\ rejoin_seq \in Nat

PendingOK ==
    /\ rejoin \in [seq : Nat, attempt : 0..MAX_ATTEMPTS, due : Nat, in_flight : BOOLEAN]
    /\ rejoin_pending => rejoin.attempt >= 1

USE RejoinAssumption

LEMMA RememberedHosts ==
    ASSUME NEW h \in Hosts, known \in Seq(Hosts), Len(known) <= KNOWN_HOSTS_CAP
    PROVE  remember(h) \in Seq(Hosts) /\ Len(remember(h)) <= KNOWN_HOSTS_CAP
<1>1. CASE Len(known) < KNOWN_HOSTS_CAP
  BY <1>1 DEF remember
<1>2. CASE ~(Len(known) < KNOWN_HOSTS_CAP)
  <2>1. known # <<>> /\ Len(known) = KNOWN_HOSTS_CAP
    BY <1>2
  <2>2. Tail(known) \in Seq(Hosts) /\ Len(Tail(known)) = KNOWN_HOSTS_CAP - 1
    BY <2>1
  <2>3. QED
    BY <1>2, <2>2 DEF remember
<1>3. QED
  BY <1>1, <1>2

LEMMA Aged ==
    ASSUME NEW w \in Nat, NEW age \in 0..w
    PROVE  AgedTo(age, w) \in 0..w 
  BY DEF AgedTo

LEMMA NoRejoinFields ==
    /\ NoRejoin \in [seq : Nat, attempt : 0..MAX_ATTEMPTS, due : Nat, in_flight : BOOLEAN]
    /\ NoRejoin.in_flight = FALSE /\ NoRejoin.due = 0
<1>1. NoRejoin \in [seq : Nat, attempt : 0..MAX_ATTEMPTS, due : Nat, in_flight : BOOLEAN]
  BY DEF NoRejoin
<1>2. QED
  BY <1>1 DEF NoRejoin

LEMMA PartsInit == RejoinInit => SwitchesOK /\ EvidenceOK /\ AgesOK /\ PendingOK
<1> USE DEF RejoinInit
<1>1. RejoinInit => SwitchesOK
  BY DEF SwitchesOK
<1>2. ASSUME RejoinInit PROVE EvidenceOK
  <2>1. CASE known = <<>>
    BY <1>2, <2>1 DEF EvidenceOK
  <2>2. ASSUME NEW h \in Hosts, known = <<h>>
        PROVE  EvidenceOK
    BY <1>2, <2>2 DEF EvidenceOK
  <2>3. QED
    BY <1>2, <2>1, <2>2
<1>3. RejoinInit => AgesOK
  BY DEF AgesOK
<1>4. RejoinInit => PendingOK
  BY NoRejoinFields DEF PendingOK, rejoin_pending
<1>5. QED
  BY <1>1, <1>2, <1>3, <1>4

LEMMA SwitchesNext ==
    ASSUME SwitchesOK, [RejoinNext]_rvars
    PROVE  SwitchesOK'
<1> USE DEF SwitchesOK, evidenceVars, limitVars
<1>1. ASSUME NEW L \in SUBSET Hosts, NEW U \in SUBSET L, ReportsDevices(L, U)
      PROVE  SwitchesOK'
  BY <1>1 DEF ReportsDevices
<1>2. ASSUME NEW h \in Hosts, Relay(h)
      PROVE  SwitchesOK'
  BY <1>2 DEF Relay
<1>3. ASSUME NEW b \in BOOLEAN, Ear(b)
      PROVE  SwitchesOK'
  BY <1>3 DEF Ear
<1>4. ASSUME NEW reason \in Reasons, NEW lid_closed \in BOOLEAN, NEW facts_ok \in BOOLEAN,
             Disconnected(reason, lid_closed, facts_ok)
      PROVE  SwitchesOK'
  BY <1>4 DEF Disconnected
<1>5. CASE AdapterGone
  BY <1>5 DEF AdapterGone
<1>6. CASE IdentityChanged
  BY <1>6 DEF IdentityChanged
<1>7. CASE ManualCommand
  BY <1>7 DEF ManualCommand
<1>8. ASSUME NEW b \in BOOLEAN, Connected(b)
      PROVE  SwitchesOK'
  BY <1>8 DEF Connected
<1>9. ASSUME NEW b \in BOOLEAN, SetEnabled(b)
      PROVE  SwitchesOK'
  BY <1>9 DEF SetEnabled
<1>10. CASE RejoinTick
  BY <1>10 DEF RejoinTick
<1>11. ASSUME NEW outcome \in Outcomes, rejoin.in_flight, ConnectFinished(rejoin.seq, outcome)
      PROVE  SwitchesOK'
  BY <1>11 DEF ConnectFinished
<1>12. CASE RejoinPass
  BY <1>12 DEF RejoinPass
<1>13. CASE UNCHANGED rvars
  BY <1>13 DEF rvars
<1>14. QED
  BY <1>1, <1>2, <1>3, <1>4, <1>5, <1>6, <1>7, <1>8, <1>9, <1>10, <1>11, <1>12, <1>13
  DEF RejoinNext

LEMMA EvidenceNext ==
    ASSUME EvidenceOK, [RejoinNext]_rvars
    PROVE  EvidenceOK'
<1> USE DEF EvidenceOK, evidenceVars, no_report, keep, cancel, Cancelled, Effects
<1>1. ASSUME NEW L \in SUBSET Hosts, NEW U \in SUBSET L, ReportsDevices(L, U)
      PROVE  EvidenceOK'
  BY <1>1 DEF ReportsDevices
<1>2. ASSUME NEW h \in Hosts, Relay(h)
      PROVE  EvidenceOK'
  BY <1>2, RememberedHosts DEF Relay
<1>3. ASSUME NEW b \in BOOLEAN, Ear(b)
      PROVE  EvidenceOK'
  BY <1>3 DEF Ear
<1>4. ASSUME NEW reason \in Reasons, NEW lid_closed \in BOOLEAN, NEW facts_ok \in BOOLEAN,
             Disconnected(reason, lid_closed, facts_ok)
      PROVE  EvidenceOK'
  BY <1>4 DEF Disconnected
<1>5. CASE AdapterGone
  BY <1>5 DEF AdapterGone
<1>6. CASE IdentityChanged
  BY <1>6 DEF IdentityChanged
<1>7. CASE ManualCommand
  BY <1>7 DEF ManualCommand
<1>8. ASSUME NEW b \in BOOLEAN, Connected(b)
      PROVE  EvidenceOK'
  BY <1>8 DEF Connected
<1>9. ASSUME NEW b \in BOOLEAN, SetEnabled(b)
      PROVE  EvidenceOK'
  BY <1>9 DEF SetEnabled
<1>10. CASE RejoinTick
  BY <1>10 DEF RejoinTick
<1>11. ASSUME NEW outcome \in Outcomes, rejoin.in_flight, ConnectFinished(rejoin.seq, outcome)
      PROVE  EvidenceOK'
  BY <1>11 DEF ConnectFinished
<1>12. CASE RejoinPass
  BY <1>12 DEF RejoinPass
<1>13. CASE UNCHANGED rvars
  BY <1>13 DEF rvars
<1>14. QED
  BY <1>1, <1>2, <1>3, <1>4, <1>5, <1>6, <1>7, <1>8, <1>9, <1>10, <1>11, <1>12, <1>13
  DEF RejoinNext

LEMMA AgesNext ==
    ASSUME AgesOK, [RejoinNext]_rvars
    PROVE  AgesOK'
<1> USE DEF AgesOK, evidenceVars, limitVars, no_report
<1>1. ASSUME NEW L \in SUBSET Hosts, NEW U \in SUBSET L, ReportsDevices(L, U)
      PROVE  AgesOK'
  BY <1>1 DEF ReportsDevices
<1>2. ASSUME NEW h \in Hosts, Relay(h)
      PROVE  AgesOK'
  BY <1>2 DEF Relay
<1>3. ASSUME NEW b \in BOOLEAN, Ear(b)
      PROVE  AgesOK'
  BY <1>3 DEF Ear
<1>4. ASSUME NEW reason \in Reasons, NEW lid_closed \in BOOLEAN, NEW facts_ok \in BOOLEAN,
             Disconnected(reason, lid_closed, facts_ok)
      PROVE  AgesOK'
  BY <1>4 DEF Disconnected
<1>5. CASE AdapterGone
  BY <1>5 DEF AdapterGone
<1>6. CASE IdentityChanged
  BY <1>6 DEF IdentityChanged
<1>7. CASE ManualCommand
  BY <1>7 DEF ManualCommand
<1>8. ASSUME NEW b \in BOOLEAN, Connected(b)
      PROVE  AgesOK'
  BY <1>8 DEF Connected
<1>9. ASSUME NEW b \in BOOLEAN, SetEnabled(b)
      PROVE  AgesOK'
  BY <1>9 DEF SetEnabled
<1>10. CASE RejoinTick
  BY <1>10 DEF RejoinTick
<1>11. ASSUME NEW outcome \in Outcomes, rejoin.in_flight, ConnectFinished(rejoin.seq, outcome)
      PROVE  AgesOK'
  BY <1>11 DEF ConnectFinished
<1>12. CASE RejoinPass
  <2>1. report_age' \in 0 .. EVICTION_WINDOW + 1
    <3>1. EVICTION_WINDOW + 1 \in Nat /\ report_age' = AgedTo(report_age, EVICTION_WINDOW + 1)
      BY <1>12 DEF RejoinPass
    <3>2. QED
      BY <3>1, Aged
  <2>2. /\ last_manual' \in 0..MANUAL_QUIET /\ last_sequence' \in 0..RATE_LIMIT
        /\ last_success' \in 0..LOOP_WINDOW
    BY <1>12, Aged DEF RejoinPass
  <2>3. QED
    BY <1>12, <2>1, <2>2 DEF RejoinPass
<1>13. CASE UNCHANGED rvars
  BY <1>13 DEF rvars
<1>14. QED
  BY <1>1, <1>2, <1>3, <1>4, <1>5, <1>6, <1>7, <1>8, <1>9, <1>10, <1>11, <1>12, <1>13
  DEF RejoinNext

LEMMA PendingNext ==
    ASSUME PendingOK, AgesOK, [RejoinNext]_rvars
    PROVE  PendingOK'
<1> USE DEF PendingOK, rejoin_pending, keep, cancel
<1>1. ASSUME NEW L \in SUBSET Hosts, NEW U \in SUBSET L, ReportsDevices(L, U)
      PROVE  PendingOK'
  BY <1>1 DEF ReportsDevices
<1>2. ASSUME NEW h \in Hosts, Relay(h)
      PROVE  PendingOK'
  BY <1>2 DEF Relay
<1>3. ASSUME NEW b \in BOOLEAN, Ear(b)
      PROVE  PendingOK'
  BY <1>3, NoRejoinFields DEF Ear
<1>4. ASSUME NEW reason \in Reasons, NEW lid_closed \in BOOLEAN, NEW facts_ok \in BOOLEAN,
             Disconnected(reason, lid_closed, facts_ok)
      PROVE  PendingOK'
  <2>1. CASE rejoin' = NoRejoin
    BY <2>1, NoRejoinFields
  <2>2. CASE rejoin' = [seq |-> rejoin_seq + 1, attempt |-> 1,
                        due |-> defer + REJOIN_DELAY, in_flight |-> FALSE]
    <3>1. defer + REJOIN_DELAY \in Nat
      BY DEF defer, AgesOK
    <3>2. rejoin_seq + 1 \in Nat /\ 1 \in 0..MAX_ATTEMPTS
      BY DEF AgesOK
    <3>3. QED
      BY <2>2, <3>1, <3>2
  <2>3. QED
    BY <1>4, <2>1, <2>2 DEF Disconnected
<1>5. CASE AdapterGone
  BY <1>5, NoRejoinFields DEF AdapterGone
<1>6. CASE IdentityChanged
  BY <1>6, NoRejoinFields DEF IdentityChanged
<1>7. CASE ManualCommand
  BY <1>7, NoRejoinFields DEF ManualCommand
<1>8. ASSUME NEW b \in BOOLEAN, Connected(b)
      PROVE  PendingOK'
  BY <1>8, NoRejoinFields DEF Connected
<1>9. ASSUME NEW b \in BOOLEAN, SetEnabled(b)
      PROVE  PendingOK'
  BY <1>9, NoRejoinFields DEF SetEnabled
<1>10. CASE RejoinTick
  BY <1>10, NoRejoinFields DEF RejoinTick, Due
<1>11. ASSUME NEW outcome \in Outcomes, rejoin.in_flight, ConnectFinished(rejoin.seq, outcome)
      PROVE  PendingOK'
  <2>1. CASE rejoin' = NoRejoin
    BY <2>1, NoRejoinFields
  <2>2. CASE rejoin' = rejoin
    BY <2>2
  <2>3. CASE /\ may_retry
             /\ rejoin' = [rejoin EXCEPT !.attempt = next_attempt, !.in_flight = FALSE,
                                         !.due = BUSY_RETRY[rejoin.attempt]]
    <3>1. rejoin.attempt \in 1 .. MAX_ATTEMPTS - 1
      BY <1>11, <2>3, NoRejoinFields DEF may_retry
    <3>2. BUSY_RETRY[rejoin.attempt] \in Nat /\ next_attempt \in 1..MAX_ATTEMPTS
      BY <3>1 DEF next_attempt
    <3>3. /\ rejoin'.attempt = next_attempt
          /\ rejoin' \in [seq : Nat, attempt : 0..MAX_ATTEMPTS, due : Nat, in_flight : BOOLEAN]
      <4>1. rejoin' = [seq |-> rejoin.seq, attempt |-> next_attempt,
                       due |-> BUSY_RETRY[rejoin.attempt], in_flight |-> FALSE]
        BY <2>3
      <4>2. QED
        BY <3>2, <4>1
    <3>4. QED
      BY <3>2, <3>3
  <2>4. QED
    BY <1>11, <2>1, <2>2, <2>3 DEF ConnectFinished
<1>12. CASE RejoinPass
  <2>1. CASE rejoin' = rejoin
    BY <2>1
  <2>2. CASE rejoin.due > 0 /\ rejoin' = [rejoin EXCEPT !.due = @ - 1]
    <3>1. rejoin.due - 1 \in Nat /\ rejoin_pending
      BY <2>2, NoRejoinFields
    <3>2. QED
      BY <2>2, <3>1
  <2>3. QED
    BY <1>12, <2>1, <2>2 DEF RejoinPass
<1>13. CASE UNCHANGED rvars
  BY <1>13 DEF rvars
<1>14. QED
  BY <1>1, <1>2, <1>3, <1>4, <1>5, <1>6, <1>7, <1>8, <1>9, <1>10, <1>11, <1>12, <1>13
  DEF RejoinNext

LEMMA WatchedSteps == [WatchNext]_rwvars => [RejoinNext]_rvars
  BY DEF WatchNext, RejoinNext, rwvars

Parts == SwitchesOK /\ EvidenceOK /\ AgesOK /\ PendingOK

LEMMA PartsNext == Parts /\ [WatchNext]_rwvars => Parts'
  BY WatchedSteps, SwitchesNext, EvidenceNext, AgesNext, PendingNext DEF Parts

(* The machine keeps its types: a connect is due at a finite time, an      *)
(* attempt never passes MAX_ATTEMPTS, and the learned list keeps its cap.  *)
THEOREM RejoinTypeCorrect == WatchSpec => []RejoinTypeOK
<1>1. WatchInit => Parts
  BY PartsInit DEF WatchInit, Parts
<1>2. Parts => RejoinTypeOK
  BY DEF Parts, SwitchesOK, EvidenceOK, AgesOK, PendingOK, RejoinTypeOK
<1>3. QED
  BY <1>1, <1>2, PartsNext, PTL DEF WatchSpec

----------------------------------------------------------------------------
(* Inductive: a pending sequence answers an eviction nothing has           *)
(* overridden, and has paged once for each attempt it is done with.        *)
AnswerInv ==
    rejoin_pending => wanted /\ handoff_enabled /\ ~both_in_case

CountInv ==
    /\ pages \in 0..MAX_ATTEMPTS
    /\ rejoin_pending => IF rejoin.in_flight THEN pages <= rejoin.attempt
                                             ELSE pages < rejoin.attempt

(* Inductive: a loop was seen with every ping-pong, and ends the sequence. *)
LoopInv ==
    /\ last_success = since_rejoined
    /\ ping_pong => looped
    /\ looped => ~rejoin_pending

(* Inductive: the machine's rate limit is no older than the latest         *)
(* decision, and the time still to wait makes up for what is missing.      *)
SpacingInv ==
    /\ decided \in 0..SPACING /\ spacing \in 0..SPACING
    /\ last_sequence <= decided
    /\ rejoin_pending /\ rejoin.attempt = 1 /\ ~rejoin.in_flight =>
           /\ decided + rejoin.due >= REJOIN_DELAY
           /\ decided + rejoin.due + spacing >= SPACING

(* Inductive: hosts are listed only by a report not used up yet. *)
ToldInv == listed # {} \/ up # {} => told

(* Time only brings a pending connect nearer. *)
LEMMA PassPending ==
    ASSUME PendingOK, RejoinPass
    PROVE  /\ rejoin_pending' => rejoin_pending
           /\ rejoin'.attempt = rejoin.attempt /\ rejoin'.in_flight = rejoin.in_flight
           /\ rejoin.due \in Nat /\ rejoin'.due \in Nat /\ rejoin'.due >= rejoin.due - 1
<1> USE DEF PendingOK, rejoin_pending
<1>1. CASE rejoin' = rejoin
  BY <1>1
<1>2. CASE rejoin.due > 0 /\ rejoin' = [rejoin EXCEPT !.due = @ - 1]
  BY <1>2, NoRejoinFields
<1>3. QED
  BY <1>1, <1>2 DEF RejoinPass

(* A page is the tick's, of a sequence that is due. *)
LEMMA TickPending ==
    ASSUME PendingOK, RejoinTick
    PROVE  \/ /\ Pages /\ Due /\ handoff_enabled
              /\ rejoin'.in_flight /\ rejoin'.attempt = rejoin.attempt
           \/ ~Pages /\ rejoin' \in {rejoin, NoRejoin}
<1> USE DEF PendingOK, Pages
<1>1. CASE ~Due
  BY <1>1 DEF RejoinTick, keep
<1>2. CASE Due /\ ~(handoff_enabled /\ Allowed)
  BY <1>2 DEF RejoinTick, cancel, Cancelled
<1>3. CASE Due /\ handoff_enabled /\ Allowed
  BY <1>3 DEF RejoinTick
<1>4. QED
  BY <1>1, <1>2, <1>3

(* A result ends the sequence, leaves it alone, or starts its next attempt. *)
LEMMA FinishedPending ==
    ASSUME PendingOK, rejoin.in_flight, NEW outcome \in Outcomes,
           ConnectFinished(rejoin.seq, outcome)
    PROVE  /\ ~Pages /\ ~Decides
           /\ \/ rejoin' = NoRejoin
              \/ /\ rejoin'.attempt = rejoin.attempt + 1 /\ rejoin'.attempt \in 2..MAX_ATTEMPTS
                 /\ rejoin'.in_flight = FALSE
                 /\ rejoin_pending
<1> USE DEF PendingOK, Pages, Decides, rejoin_pending
<1>1. rejoin_pending
  BY NoRejoinFields
<1>2. CASE rejoin' = NoRejoin
  BY <1>1, <1>2 DEF ConnectFinished, keep
<1>3. CASE /\ may_retry
           /\ rejoin' = [rejoin EXCEPT !.attempt = next_attempt, !.in_flight = FALSE,
                                       !.due = BUSY_RETRY[rejoin.attempt]]
  <2>1. rejoin'.attempt = rejoin.attempt + 1 /\ rejoin'.in_flight = FALSE
    BY <1>3 DEF next_attempt
  <2>2. rejoin'.attempt \in 2..MAX_ATTEMPTS
    BY <1>1, <1>3, <2>1 DEF may_retry
  <2>3. ~Pages /\ ~Decides
    BY DEF ConnectFinished, keep
  <2>4. QED
    BY <1>1, <2>1, <2>2, <2>3
<1>4. QED
  BY <1>2, <1>3 DEF ConnectFinished

LEMMA AnswerNext ==
    ASSUME AnswerInv, PendingOK, [WatchNext]_rwvars
    PROVE  AnswerInv'
<1> USE DEF AnswerInv, rejoin_pending, keep, cancel, no_report, Cancelled, evidenceVars, limitVars, Watch, Overriding, Evictions
<1>1. ASSUME NEW reason \in Reasons, NEW lid_closed \in BOOLEAN, NEW facts_ok \in BOOLEAN,
             Disconnected(reason, lid_closed, facts_ok),
             Watch(IF reason \in Evictions THEN "evicted" ELSE "dropped")
      PROVE  AnswerInv'
  BY <1>1, NoRejoinFields DEF Disconnected, qualify
<1>2. ASSUME NEW b \in BOOLEAN, Connected(b), Watch(IF b THEN "session" ELSE "up")
      PROVE  AnswerInv'
  BY <1>2, NoRejoinFields DEF Connected
<1>3. CASE AdapterGone /\ Watch("override")
  BY <1>3, NoRejoinFields DEF AdapterGone
<1>4. ASSUME NEW b \in BOOLEAN, Ear(b), Watch(IF b THEN "override" ELSE "other")
      PROVE  AnswerInv'
  BY <1>4, NoRejoinFields DEF Ear
<1>5. ASSUME NEW b \in BOOLEAN, SetEnabled(b), Watch(IF b THEN "other" ELSE "override")
      PROVE  AnswerInv'
  BY <1>5, NoRejoinFields DEF SetEnabled
<1>6. CASE IdentityChanged /\ Watch("identity")
  BY <1>6, NoRejoinFields DEF IdentityChanged
<1>7. CASE ManualCommand /\ Watch("manual")
  BY <1>7, NoRejoinFields DEF ManualCommand
<1>8. ASSUME NEW L \in SUBSET Hosts, NEW U \in SUBSET L, ReportsDevices(L, U), Watch("report")
      PROVE  AnswerInv'
  BY <1>8, NoRejoinFields DEF ReportsDevices
<1>9. ASSUME NEW h \in Hosts, Relay(h), Watch("other")
      PROVE  AnswerInv'
  BY <1>9, NoRejoinFields DEF Relay
<1>10. CASE RejoinTick /\ Watch("other")
  BY <1>10, NoRejoinFields DEF RejoinTick, Due
<1>11. ASSUME NEW outcome \in Outcomes, rejoin.in_flight, ConnectFinished(rejoin.seq, outcome),
              Watch("other")
       PROVE  AnswerInv'
  BY <1>11, NoRejoinFields DEF ConnectFinished
<1>12. CASE RejoinPass /\ Watch("pass")
  BY <1>12, PassPending DEF RejoinPass
<1>13. CASE UNCHANGED rwvars
  BY <1>13 DEF rwvars, rvars, watchVars
<1>14. QED
  BY <1>1, <1>2, <1>3, <1>4, <1>5, <1>6, <1>7, <1>8, <1>9, <1>10, <1>11, <1>12, <1>13
  DEF WatchNext

LEMMA ToldNext ==
    ASSUME ToldInv, [WatchNext]_rwvars
    PROVE  ToldInv'
<1> USE DEF ToldInv, keep, cancel, no_report, Cancelled, evidenceVars, limitVars, Watch, Decides
<1>1. ASSUME NEW reason \in Reasons, NEW lid_closed \in BOOLEAN, NEW facts_ok \in BOOLEAN,
             Disconnected(reason, lid_closed, facts_ok),
             Watch(IF reason \in Evictions THEN "evicted" ELSE "dropped")
      PROVE  ToldInv'
  BY <1>1 DEF Disconnected
<1>2. ASSUME NEW b \in BOOLEAN, Connected(b), Watch(IF b THEN "session" ELSE "up")
      PROVE  ToldInv'
  BY <1>2 DEF Connected
<1>3. CASE AdapterGone /\ Watch("override")
  BY <1>3 DEF AdapterGone
<1>4. ASSUME NEW b \in BOOLEAN, Ear(b), Watch(IF b THEN "override" ELSE "other")
      PROVE  ToldInv'
  BY <1>4 DEF Ear
<1>5. ASSUME NEW b \in BOOLEAN, SetEnabled(b), Watch(IF b THEN "other" ELSE "override")
      PROVE  ToldInv'
  BY <1>5 DEF SetEnabled
<1>6. CASE IdentityChanged /\ Watch("identity")
  BY <1>6 DEF IdentityChanged
<1>7. CASE ManualCommand /\ Watch("manual")
  BY <1>7 DEF ManualCommand
<1>8. ASSUME NEW L \in SUBSET Hosts, NEW U \in SUBSET L, ReportsDevices(L, U), Watch("report")
      PROVE  ToldInv'
  BY <1>8 DEF ReportsDevices
<1>9. ASSUME NEW h \in Hosts, Relay(h), Watch("other")
      PROVE  ToldInv'
  BY <1>9 DEF Relay
<1>10. CASE RejoinTick /\ Watch("other")
  BY <1>10 DEF RejoinTick
<1>11. ASSUME NEW outcome \in Outcomes, rejoin.in_flight, ConnectFinished(rejoin.seq, outcome),
              Watch("other")
       PROVE  ToldInv'
  BY <1>11 DEF ConnectFinished
<1>12. CASE RejoinPass /\ Watch("pass")
  BY <1>12 DEF RejoinPass
<1>13. CASE UNCHANGED rwvars
  BY <1>13 DEF rwvars, rvars, watchVars
<1>14. QED
  BY <1>1, <1>2, <1>3, <1>4, <1>5, <1>6, <1>7, <1>8, <1>9, <1>10, <1>11, <1>12, <1>13
  DEF WatchNext

LEMMA LoopNext ==
    ASSUME LoopInv, Parts, [WatchNext]_rwvars
    PROVE  LoopInv'
<1> USE DEF LoopInv, rejoin_pending, keep, cancel, no_report, Cancelled, evidenceVars, limitVars, Watch, Evictions
<1>1. ASSUME NEW reason \in Reasons, NEW lid_closed \in BOOLEAN, NEW facts_ok \in BOOLEAN,
             Disconnected(reason, lid_closed, facts_ok),
             Watch(IF reason \in Evictions THEN "evicted" ELSE "dropped")
      PROVE  LoopInv'
  BY <1>1, NoRejoinFields DEF Disconnected, qualify, loops
<1>2. ASSUME NEW b \in BOOLEAN, Connected(b), Watch(IF b THEN "session" ELSE "up")
      PROVE  LoopInv'
  BY <1>2, NoRejoinFields DEF Connected
<1>3. CASE AdapterGone /\ Watch("override")
  BY <1>3, NoRejoinFields DEF AdapterGone
<1>4. ASSUME NEW b \in BOOLEAN, Ear(b), Watch(IF b THEN "override" ELSE "other")
      PROVE  LoopInv'
  BY <1>4, NoRejoinFields DEF Ear
<1>5. ASSUME NEW b \in BOOLEAN, SetEnabled(b), Watch(IF b THEN "other" ELSE "override")
      PROVE  LoopInv'
  BY <1>5, NoRejoinFields DEF SetEnabled
<1>6. CASE IdentityChanged /\ Watch("identity")
  BY <1>6, NoRejoinFields DEF IdentityChanged
<1>7. CASE ManualCommand /\ Watch("manual")
  BY <1>7, NoRejoinFields DEF ManualCommand
<1>8. ASSUME NEW L \in SUBSET Hosts, NEW U \in SUBSET L, ReportsDevices(L, U), Watch("report")
      PROVE  LoopInv'
  BY <1>8, NoRejoinFields DEF ReportsDevices
<1>9. ASSUME NEW h \in Hosts, Relay(h), Watch("other")
      PROVE  LoopInv'
  BY <1>9, NoRejoinFields DEF Relay
<1>10. CASE RejoinTick /\ Watch("other")
  BY <1>10, NoRejoinFields DEF RejoinTick, Due
<1>11. ASSUME NEW outcome \in Outcomes, rejoin.in_flight, ConnectFinished(rejoin.seq, outcome),
              Watch("other")
       PROVE  LoopInv'
  BY <1>11, NoRejoinFields DEF ConnectFinished
<1>12. CASE RejoinPass /\ Watch("pass")
  BY <1>12, NoRejoinFields DEF RejoinPass
<1>13. CASE UNCHANGED rwvars
  BY <1>13 DEF rwvars, rvars, watchVars
<1>14. QED
  BY <1>1, <1>2, <1>3, <1>4, <1>5, <1>6, <1>7, <1>8, <1>9, <1>10, <1>11, <1>12, <1>13
  DEF WatchNext

LEMMA CountNext ==
    ASSUME CountInv, PendingOK, [WatchNext]_rwvars
    PROVE  CountInv'
<1> USE DEF CountInv, PendingOK, rejoin_pending, keep, cancel, no_report, Cancelled, evidenceVars, limitVars, Watch, Pages
<1>1. ASSUME NEW reason \in Reasons, NEW lid_closed \in BOOLEAN, NEW facts_ok \in BOOLEAN,
             Disconnected(reason, lid_closed, facts_ok),
             Watch(IF reason \in Evictions THEN "evicted" ELSE "dropped")
      PROVE  CountInv'
  BY <1>1, NoRejoinFields DEF Disconnected
<1>2. ASSUME NEW b \in BOOLEAN, Connected(b), Watch(IF b THEN "session" ELSE "up")
      PROVE  CountInv'
  BY <1>2, NoRejoinFields DEF Connected
<1>3. CASE AdapterGone /\ Watch("override")
  BY <1>3, NoRejoinFields DEF AdapterGone
<1>4. ASSUME NEW b \in BOOLEAN, Ear(b), Watch(IF b THEN "override" ELSE "other")
      PROVE  CountInv'
  BY <1>4, NoRejoinFields DEF Ear
<1>5. ASSUME NEW b \in BOOLEAN, SetEnabled(b), Watch(IF b THEN "other" ELSE "override")
      PROVE  CountInv'
  BY <1>5, NoRejoinFields DEF SetEnabled
<1>6. CASE IdentityChanged /\ Watch("identity")
  BY <1>6, NoRejoinFields DEF IdentityChanged
<1>7. CASE ManualCommand /\ Watch("manual")
  BY <1>7, NoRejoinFields DEF ManualCommand
<1>8. ASSUME NEW L \in SUBSET Hosts, NEW U \in SUBSET L, ReportsDevices(L, U), Watch("report")
      PROVE  CountInv'
  BY <1>8, NoRejoinFields DEF ReportsDevices
<1>9. ASSUME NEW h \in Hosts, Relay(h), Watch("other")
      PROVE  CountInv'
  BY <1>9, NoRejoinFields DEF Relay
<1>10. CASE RejoinTick /\ Watch("other")
  BY <1>10, TickPending, NoRejoinFields DEF Due
<1>11. ASSUME NEW outcome \in Outcomes, rejoin.in_flight, ConnectFinished(rejoin.seq, outcome),
              Watch("other")
       PROVE  CountInv'
  <2>1. pages' = pages
    <3>1. ~Pages
      BY <1>11, FinishedPending
    <3>2. QED
      BY <1>11, <3>1
  <2>2. CASE rejoin' = NoRejoin
    BY <2>1, <2>2
  <2>3. CASE /\ rejoin'.attempt = rejoin.attempt + 1 /\ rejoin'.attempt \in 2..MAX_ATTEMPTS
             /\ rejoin'.in_flight = FALSE
             /\ rejoin_pending
    BY <1>11, <2>1, <2>3
  <2>4. QED
    BY <1>11, <2>2, <2>3, FinishedPending
<1>12. CASE RejoinPass /\ Watch("pass")
  BY <1>12, PassPending DEF RejoinPass
<1>13. CASE UNCHANGED rwvars
  BY <1>13 DEF rwvars, rvars, watchVars
<1>14. QED
  BY <1>1, <1>2, <1>3, <1>4, <1>5, <1>6, <1>7, <1>8, <1>9, <1>10, <1>11, <1>12, <1>13
  DEF WatchNext

LEMMA SpacingNext ==
    ASSUME SpacingInv, AgesOK, PendingOK, [WatchNext]_rwvars
    PROVE  SpacingInv'
<1> USE DEF SpacingInv, AgesOK, PendingOK, SPACING, rejoin_pending, keep, cancel, no_report, Cancelled, evidenceVars, limitVars, Watch, Decides
<1>1. ASSUME NEW reason \in Reasons, NEW lid_closed \in BOOLEAN, NEW facts_ok \in BOOLEAN,
             Disconnected(reason, lid_closed, facts_ok),
             Watch(IF reason \in Evictions THEN "evicted" ELSE "dropped")
      PROVE  SpacingInv'
  <2>1. CASE ~Decides /\ rejoin' = NoRejoin
    BY <1>1, <2>1, NoRejoinFields DEF Disconnected
  <2>2. CASE /\ Decides /\ last_sequence' = 0
             /\ rejoin' = [seq |-> rejoin_seq + 1, attempt |-> 1,
                           due |-> defer + REJOIN_DELAY, in_flight |-> FALSE]
    <3>1. decided' = 0 /\ spacing' = decided
      BY <1>1, <2>2
    <3>2. rejoin'.due = RATE_LIMIT - last_sequence + REJOIN_DELAY
      BY <2>2 DEF defer
    <3>3. QED
      BY <2>2, <3>1, <3>2
  <2>3. QED
    BY <1>1, <2>1, <2>2 DEF Disconnected
<1>2. ASSUME NEW b \in BOOLEAN, Connected(b), Watch(IF b THEN "session" ELSE "up")
      PROVE  SpacingInv'
  BY <1>2, NoRejoinFields DEF Connected
<1>3. CASE AdapterGone /\ Watch("override")
  BY <1>3, NoRejoinFields DEF AdapterGone
<1>4. ASSUME NEW b \in BOOLEAN, Ear(b), Watch(IF b THEN "override" ELSE "other")
      PROVE  SpacingInv'
  BY <1>4, NoRejoinFields DEF Ear
<1>5. ASSUME NEW b \in BOOLEAN, SetEnabled(b), Watch(IF b THEN "other" ELSE "override")
      PROVE  SpacingInv'
  BY <1>5, NoRejoinFields DEF SetEnabled
<1>6. CASE IdentityChanged /\ Watch("identity")
  BY <1>6, NoRejoinFields DEF IdentityChanged
<1>7. CASE ManualCommand /\ Watch("manual")
  BY <1>7, NoRejoinFields DEF ManualCommand
<1>8. ASSUME NEW L \in SUBSET Hosts, NEW U \in SUBSET L, ReportsDevices(L, U), Watch("report")
      PROVE  SpacingInv'
  BY <1>8, NoRejoinFields DEF ReportsDevices
<1>9. ASSUME NEW h \in Hosts, Relay(h), Watch("other")
      PROVE  SpacingInv'
  BY <1>9, NoRejoinFields DEF Relay
<1>10. CASE RejoinTick /\ Watch("other")
  BY <1>10, NoRejoinFields DEF RejoinTick, Due
<1>11. ASSUME NEW outcome \in Outcomes, rejoin.in_flight, ConnectFinished(rejoin.seq, outcome),
              Watch("other")
       PROVE  SpacingInv'
  <2>1. decided' = decided /\ spacing' = spacing /\ last_sequence' = last_sequence
    BY <1>11, FinishedPending DEF ConnectFinished
  <2>2. rejoin' = NoRejoin \/ rejoin'.attempt \in 2..MAX_ATTEMPTS
    BY <1>11, FinishedPending
  <2>3. QED
    BY <2>1, <2>2
<1>12. CASE RejoinPass /\ Watch("pass")
  <2>1. ~Decides /\ decided' = AgedTo(decided, SPACING) /\ spacing' = spacing
    BY <1>12 DEF RejoinPass
  <2>2. /\ decided' \in 0..SPACING /\ decided' >= decided
        /\ decided' = decided + 1 \/ decided' = SPACING
    BY <2>1 DEF AgedTo
  <2>3. last_sequence' <= decided'
    <3>1. last_sequence' \in {last_sequence, last_sequence + 1} /\ last_sequence' <= RATE_LIMIT
      <4>1. last_sequence' = AgedTo(last_sequence, RATE_LIMIT)
        BY <1>12 DEF RejoinPass
      <4>2. QED
        BY <4>1 DEF AgedTo
    <3>2. QED
      BY <2>2, <3>1
  <2>4. ASSUME rejoin_pending', rejoin'.attempt = 1, ~rejoin'.in_flight
        PROVE  /\ decided' + rejoin'.due >= REJOIN_DELAY
               /\ decided' + rejoin'.due + spacing' >= SPACING
    <3>1. /\ rejoin_pending /\ rejoin.attempt = 1 /\ ~rejoin.in_flight
          /\ rejoin.due \in Nat /\ rejoin'.due \in Nat /\ rejoin'.due >= rejoin.due - 1
      BY <1>12, <2>4, PassPending
    <3>2. CASE decided' = SPACING
      BY <2>1, <3>1, <3>2
    <3>3. CASE decided' = decided + 1
      BY <2>1, <3>1, <3>3
    <3>4. QED
      BY <2>2, <3>2, <3>3
  <2>5. QED
    BY <2>1, <2>2, <2>3, <2>4
<1>13. CASE UNCHANGED rwvars
  BY <1>13 DEF rwvars, rvars, watchVars
<1>14. QED
  BY <1>1, <1>2, <1>3, <1>4, <1>5, <1>6, <1>7, <1>8, <1>9, <1>10, <1>11, <1>12, <1>13
  DEF WatchNext

----------------------------------------------------------------------------
WatchInv ==
    Parts /\ AnswerInv /\ CountInv /\ LoopInv /\ SpacingInv /\ ToldInv

LEMMA WatchInvAlways == WatchSpec => []WatchInv
<1>1. WatchInit => WatchInv
  <2> SUFFICES ASSUME WatchInit PROVE WatchInv
    OBVIOUS
  <2>1. Parts /\ ~rejoin_pending
    BY PartsInit DEF WatchInit, RejoinInit, Parts, rejoin_pending
  <2>2. AnswerInv /\ CountInv
    BY <2>1 DEF WatchInit, AnswerInv, CountInv
  <2>3. LoopInv /\ ToldInv
    BY <2>1 DEF WatchInit, RejoinInit, LoopInv, ToldInv
  <2>4. SpacingInv
    BY <2>1 DEF WatchInit, RejoinInit, SpacingInv, SPACING
  <2>5. QED
    BY <2>1, <2>2, <2>3, <2>4 DEF WatchInv
<1>2. WatchInv /\ [WatchNext]_rwvars => WatchInv'
  BY PartsNext, AnswerNext, CountNext, LoopNext, SpacingNext, ToldNext DEF WatchInv, Parts
<1>3. QED
  BY <1>1, <1>2, PTL DEF WatchSpec

LEMMA OnlyTicksPage ==
    ASSUME PendingOK, WatchNext, Pages
    PROVE  RejoinTick
<1> USE DEF Pages, keep, cancel, Cancelled
<1>1. ASSUME NEW reason \in Reasons, NEW lid_closed \in BOOLEAN, NEW facts_ok \in BOOLEAN,
             Disconnected(reason, lid_closed, facts_ok)
      PROVE  FALSE
  BY <1>1 DEF Disconnected
<1>2. ASSUME NEW b \in BOOLEAN, Connected(b) \/ Ear(b) \/ SetEnabled(b)
      PROVE  FALSE
  BY <1>2 DEF Connected, Ear, SetEnabled
<1>3. ASSUME AdapterGone \/ IdentityChanged \/ ManualCommand \/ RejoinPass
      PROVE  FALSE
  BY <1>3 DEF AdapterGone, IdentityChanged, ManualCommand, RejoinPass
<1>4. ASSUME NEW L \in SUBSET Hosts, NEW U \in SUBSET L, ReportsDevices(L, U)
      PROVE  FALSE
  BY <1>4 DEF ReportsDevices
<1>5. ASSUME NEW h \in Hosts, Relay(h)
      PROVE  FALSE
  BY <1>5 DEF Relay
<1>6. ASSUME NEW outcome \in Outcomes, rejoin.in_flight, ConnectFinished(rejoin.seq, outcome)
      PROVE  FALSE
  BY <1>6, FinishedPending
<1>7. QED
  BY <1>1, <1>2, <1>3, <1>4, <1>5, <1>6 DEF WatchNext

LEMMA OnlyDropsDecide ==
    ASSUME PendingOK, WatchNext, Decides
    PROVE  \E reason \in Reasons, lid_closed, facts_ok \in BOOLEAN :
               qualify(reason, lid_closed, facts_ok)
<1> USE DEF Decides, keep, cancel, Cancelled
<1>1. ASSUME NEW reason \in Reasons, NEW lid_closed \in BOOLEAN, NEW facts_ok \in BOOLEAN,
             Disconnected(reason, lid_closed, facts_ok)
      PROVE  qualify(reason, lid_closed, facts_ok)
  BY <1>1 DEF Disconnected
<1>2. ASSUME NEW b \in BOOLEAN, Connected(b) \/ Ear(b) \/ SetEnabled(b)
      PROVE  FALSE
  BY <1>2 DEF Connected, Ear, SetEnabled
<1>3. ASSUME AdapterGone \/ IdentityChanged \/ ManualCommand \/ RejoinPass \/ RejoinTick
      PROVE  FALSE
  BY <1>3 DEF AdapterGone, IdentityChanged, ManualCommand, RejoinPass, RejoinTick
<1>4. ASSUME NEW L \in SUBSET Hosts, NEW U \in SUBSET L, ReportsDevices(L, U)
      PROVE  FALSE
  BY <1>4 DEF ReportsDevices
<1>5. ASSUME NEW h \in Hosts, Relay(h)
      PROVE  FALSE
  BY <1>5 DEF Relay
<1>6. ASSUME NEW outcome \in Outcomes, rejoin.in_flight, ConnectFinished(rejoin.seq, outcome)
      PROVE  FALSE
  BY <1>6, FinishedPending
<1>7. QED
  BY <1>1, <1>2, <1>3, <1>4, <1>5, <1>6 DEF WatchNext

(* However long the rate limit and the busy retries make it wait, a page   *)
(* still answers an eviction that nobody has overridden meanwhile.         *)
THEOREM PagesAnswer == WatchSpec => PageAnswersEviction
<1>1. ASSUME WatchInv, WatchNext, Pages
      PROVE  wanted /\ handoff_enabled /\ ~both_in_case
  BY <1>1, OnlyTicksPage, TickPending DEF WatchInv, Parts, AnswerInv, Due
<1>2. WatchInv /\ [WatchNext]_rwvars
        => [Pages => wanted /\ handoff_enabled /\ ~both_in_case]_rwvars
  BY <1>1
<1>3. QED
  BY <1>2, WatchInvAlways, PTL DEF WatchSpec, PageAnswersEviction

(* One drop is never paged for more than MAX_ATTEMPTS times. *)
THEOREM PagesBounded == WatchSpec => []AttemptsBounded
<1>1. WatchInv => AttemptsBounded
  BY DEF WatchInv, CountInv, AttemptsBounded
<1>2. QED
  BY <1>1, WatchInvAlways, PTL

(* The other host that takes the AirPods back at once is left alone.       *)
THEOREM PingPongEnds == WatchSpec => PingPongStops
<1>1. ASSUME WatchInv, WatchNext, Pages
      PROVE  ~ping_pong
  BY <1>1, OnlyTicksPage, TickPending DEF WatchInv, Parts, LoopInv, Due
<1>2. WatchInv /\ [WatchNext]_rwvars => [Pages => ~ping_pong]_rwvars
  BY <1>1
<1>3. QED
  BY <1>2, WatchInvAlways, PTL DEF WatchSpec, PingPongStops

(* Sequences keep the rate limit measured from decision to page. *)
THEOREM PagesSpaced == WatchSpec => SequencesSpaced
<1> DEFINE Apart == decided >= REJOIN_DELAY /\ decided + spacing >= SPACING
<1>1. ASSUME WatchInv, WatchNext, Pages, rejoin.attempt = 1
      PROVE  Apart
  <2>1. Due
    BY <1>1, OnlyTicksPage, TickPending DEF WatchInv, Parts
  <2>2. QED
    BY <1>1, <2>1 DEF WatchInv, SpacingInv, Due, SPACING
<1>2. WatchInv /\ [WatchNext]_rwvars => [Pages /\ rejoin.attempt = 1 => Apart]_rwvars
  BY <1>1
<1>3. QED
  BY <1>2, WatchInvAlways, PTL DEF WatchSpec, SequencesSpaced

(* No sequence starts on evidence of an earlier link, or used before. *)
THEOREM EvidenceFresh == WatchSpec => EvidenceUsedOnce
<1>1. ASSUME WatchInv, WatchNext, Decides
      PROVE  told
  <2>1. PICK reason \in Reasons, lid_closed \in BOOLEAN, facts_ok \in BOOLEAN :
            qualify(reason, lid_closed, facts_ok)
    BY <1>1, OnlyDropsDecide DEF WatchInv, Parts
  <2>2. listed # {} \/ up # {}
    BY <2>1 DEF qualify, device_report_evidence
  <2>3. QED
    BY <1>1, <2>2 DEF WatchInv, ToldInv
<1>2. WatchInv /\ [WatchNext]_rwvars => [Decides => told]_rwvars
  BY <1>1
<1>3. QED
  BY <1>2, WatchInvAlways, PTL DEF WatchSpec, EvidenceUsedOnce

=============================================================================
