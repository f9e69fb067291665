--------------------------- MODULE MCLinkRecovery ---------------------------
(* Model-checking instance of LinkRecovery.                                *)
EXTENDS LinkRecovery

CONSTANTS MaxRejoins, MaxAutos      \* sequences of each policy

BusyRetry == <<0>>
RetryBackoff == <<0>>

(* What only decides whether a drop qualifies is the subject of MCDecide:  *)
(* here handoff stays on, the AirPods stay out of their case, and a report *)
(* lists the other host as connected or not at all.                        *)
Bounded ==
    /\ rejoin_seq <= MaxRejoins /\ auto_seq <= MaxAutos
    /\ handoff_enabled /\ ~both_in_case /\ known = <<>> /\ listed = up

(* No action reads what the latest event returned, and where `listed` is   *)
(* `up` the age of the report decides nothing.  An epoch is read by the    *)
(* tasks of its policy only; an outcome only while its sequence is pending, *)
(* and some outcomes end a sequence alike.                                 *)
LateOrAlike(by, r) ==
    CASE r.seq # (IF by = "rejoin" THEN rejoin.seq ELSE auto.seq) -> "late"
      [] by = "rejoin" /\ r.outcome \notin {"Connected", "Busy"} -> "ended"
      [] by = "auto" /\ r.outcome \in {"AdapterGone", "Failed", "Busy"} -> "failed"
      [] OTHER -> r.outcome
ResultsView == [by \in Policies |->
    [i \in DOMAIN results[by] |-> LateOrAlike(by, results[by][i])]]

LinkView == <<handoff_enabled, known, listed, up, both_in_case, last_manual, last_sequence,
              last_success, looped, rejoin, rejoin_seq, autoVars, bluezVars, acl,
              {t \in tasks : Epoch(t.by) = t.seq}, tasks, ResultsView>>

(* A bound: the watcher fails or starts over only while no Disconnected    *)
(* signal is on its way.  No fair step sends either.                       *)
SignalsBounded ==
    /\ Bounded
    /\ \A i \in DOMAIN props : props[i] \in {"gone", "identity"} => drops = <<>>

----------------------------------------------------------------------------
(* The supervisor reads its channels and ticks unless a flood of packets   *)
(* starves it, time passes, and a spawned connect ends, at the latest by   *)
(* its timeout (REJOIN_CONNECT_TIMEOUT).  Nothing is assumed of BlueZ's    *)
(* signals, the AirPods or the user.                                       *)
LinkLiveSpec ==
    /\ LinkSpec
    /\ WF_LinkView(OnTick) /\ WF_LinkView(Pass)
    /\ WF_LinkView(OnRejoinResult) /\ WF_LinkView(OnAutoResult)
    /\ WF_LinkView(Task)

(* Every sequence ends: the AirPods are back, someone stepped in, or the   *)
(* attempts are used up.  A rejoin that stayed pending would keep the      *)
(* auto-connect from paging for good, and an auto-connect that did would   *)
(* never see another arrival.                                              *)
RejoinEnds == \A s \in 1..MaxRejoins : (rejoin.seq = s) ~> (rejoin.seq # s)
AutoEnds == \A s \in 1..MaxAutos : (auto.seq = s) ~> (auto.seq # s)

=============================================================================
