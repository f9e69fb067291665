------------------------------ MODULE MCDecide ------------------------------
(***************************************************************************)
(* What reads BlueZ and may page the AirPods, each part explored with the  *)
(* others at rest: the two machines that page, the scan that feeds one of  *)
(* them, and the watch of the media transports that feeds the handoff.     *)
(* What the machines do to one another is LinkRecovery's subject; the scan *)
(* and the watch reach theirs through AutoConnect's Seen and Handoff's     *)
(* streaming, which those modules let happen at any time.                  *)
(***************************************************************************)
EXTENDS RejoinWatch, AutoConnectWatch, Scanner, AudioWatch

BusyRetry == <<1, 1>>

(* Five seconds a unit for the auto-connect: the delays and backoffs have  *)
(* their real proportions; the budget is 2 minutes instead of 10.          *)
RetryBackoff == <<1, 3, 9>>

AtRest == ~handoff_enabled /\ known = <<>>
DecideInit == WatchInit /\ AutoWatchInit /\ ScannerInit /\ AudioInit
DecideNext ==
    \/ AutoWatchInit /\ ScannerInit /\ AudioInit /\ WatchNext /\ UNCHANGED <<awvars, nvars, objectVars>>
    \/ WatchInit /\ AtRest /\ ScannerInit /\ AudioInit /\ AutoWatchNext /\ UNCHANGED <<rwvars, nvars, objectVars>>
    \/ WatchInit /\ AtRest /\ AutoWatchInit /\ AudioInit /\ ScannerNext /\ UNCHANGED <<rwvars, awvars, objectVars>>
    \/ WatchInit /\ AtRest /\ AutoWatchInit /\ ScannerInit /\ AudioNext /\ UNCHANGED <<rwvars, awvars, nvars>>
DecideSpec == DecideInit /\ [][DecideNext]_<<rwvars, awvars, nvars, objectVars>>

(* No action reads what the latest event did, and the number of a sequence *)
(* only names the results of its connects, which come one at a time here.  *)
DecideView ==
    <<handoff_enabled, evidenceVars, limitVars, rejoin.attempt, rejoin.due, rejoin.in_flight,
      watchVars, presenceVars, fallbackVars, auto.attempt, auto.due, auto.in_flight,
      auto.fallback, autoWatch, nvars, objectVars>>
=============================================================================
