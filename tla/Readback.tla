------------------------------ MODULE Readback ------------------------------
(***************************************************************************)
(* The settings readback of the published snapshot (store.rs): what a      *)
(* write requested, what the current AAP link has reported since it        *)
(* opened, and the verdict.  The snapshot is a value here and an Update a  *)
(* function on it, as in store.rs mutate; the modules that hold the        *)
(* snapshot as a variable apply them.                                      *)
(*                                                                         *)
(* `reports` stands for aux.link_reports together with the reported value: *)
(* the two are cleared at the same places, so a key with a count and no    *)
(* value, or the reverse, does not occur.                                  *)
(***************************************************************************)
EXTENDS Naturals

CONSTANTS
    Keys,           \* settings, and NAME_KEY for the name
    Values,         \* values a key can take
    NoValue,        \* a key nothing was requested or reported for
    NAME_KEY

Statuses == {"none", "verifying", "confirmed", "mismatch", "unreported", "unverified"}

ReadbackType ==
    [requested: [Keys -> Values \cup {NoValue}],     \* settings_requested
     status: [Keys -> Statuses],                     \* settings_status
     reports: [Keys -> Values \cup {NoValue}],       \* link_reports, settings, metadata name
     verify: {"idle", "scheduled", "reopening"},     \* settings_verify
     reopen: BOOLEAN]                                \* verify_reopen

NothingAsked ==
    [requested |-> [k \in Keys |-> NoValue], status |-> [k \in Keys |-> "none"],
     reports |-> [k \in Keys |-> NoValue], verify |-> "idle", reopen |-> FALSE]

(* Update::SettingRequested and RenameRequested: the datagram was sent. *)
Requested(s, k, v) ==
    [s EXCEPT !.requested[k] = v, !.status[k] = "verifying", !.verify = "scheduled"]

Judged(s, k) == IF s.reports[k] = s.requested[k] THEN "confirmed" ELSE "mismatch"

(* judge_name: metadata settles a rename as it arrives. *)
judge_name(s) ==
    IF s.status[NAME_KEY] \in {"verifying", "unreported", "unverified"}
    THEN [s EXCEPT !.status[NAME_KEY] = Judged(s, NAME_KEY)]
    ELSE s

(* Update::Setting, and the name in Update::Metadata. *)
Reported(s, k, v) ==
    LET told == [s EXCEPT !.reports[k] = v] IN
    IF k = NAME_KEY THEN judge_name(told) ELSE told

Reopening(s) == [s EXCEPT !.verify = "reopening", !.reopen = TRUE]

(* finish_verification: only what this link reported can be judged. *)
finish_verification(s) ==
    [s EXCEPT !.status = [k \in Keys |->
         IF s.status[k] \notin {"verifying", "unreported", "unverified"} THEN s.status[k]
         ELSE IF s.reports[k] # NoValue THEN Judged(s, k)
         ELSE IF s.status[k] = "verifying" THEN "unreported" ELSE s.status[k]],
     !.verify = "idle", !.reopen = FALSE]

abandon_verification(s) ==
    [s EXCEPT !.status = [k \in Keys |->
         IF s.status[k] = "verifying" THEN "unverified" ELSE s.status[k]],
     !.verify = "idle", !.reopen = FALSE]

(* link_lost: a reopen of the daemon's own is not evidence of anything. *)
link_lost_KeepsReports(s) == IF s.reopen THEN s ELSE abandon_verification(s)
link_lost(s) ==
    LET ended == [s EXCEPT !.reports = [k \in Keys |-> NoValue]] IN
    IF s.reopen THEN ended ELSE abandon_verification(ended)

(* Update::Identity of another device or model. *)
OtherDevice(s) == NothingAsked
=============================================================================
