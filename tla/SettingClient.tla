--------------------------- MODULE SettingClient ---------------------------
(***************************************************************************)
(* The command-line client's wait for the verdict on a setting it wrote    *)
(* (bin/auris.rs main, await_setting, outcome_for): it writes over one     *)
(* connection and, once told that the write went out, watches over a       *)
(* second.  The watch gives whole snapshots and skips those it is too slow *)
(* for, and a verdict in one does not say which write it is about.         *)
(*                                                                         *)
(* Clients may write the same key.  The daemon's readback is module        *)
(* Readback's; here it settles the status whenever it likes.               *)
(***************************************************************************)
EXTENDS Naturals, Sequences, FiniteSets

CONSTANTS
    Writers,        \* clients, each writing the key once
    VERIFY_WAIT,    \* how long a client waits, in units of VERIFY_POLL
    MAX_LINES       \* bound: the snapshots the socket holds

ASSUME ClientAssumption == {VERIFY_WAIT, MAX_LINES} \subseteq Nat

Verdicts == {"confirmed", "mismatch", "unreported", "unverified"}
NoStatus == [is |-> "absent", of |-> 0]

VARIABLES
    writes,         \* writes of the key that went out, which numbers them
    status,         \* settings_status of the key, and the write it is about
    at,             \* what a client is doing
    wrote,          \* the number of its write
    fresh,          \* its subscription has been sent the latest snapshot
    line,           \* the lines it has not read, each the status it carries
    waited,         \* how long it has watched
    outcome         \* what it reported

kvars == <<writes, status, at, wrote, fresh, line, waited, outcome>>

ClientInit ==
    /\ writes = 0 /\ status = NoStatus
    /\ at = [c \in Writers |-> "asking"] /\ wrote = [c \in Writers |-> 0]
    /\ fresh = [c \in Writers |-> FALSE] /\ line = [c \in Writers |-> <<>>]
    /\ waited = [c \in Writers |-> 0] /\ outcome = [c \in Writers |-> NoStatus]

Ends(c, with) ==
    /\ at' = [at EXCEPT ![c] = "done"]
    /\ outcome' = [outcome EXCEPT ![c] = with]
    /\ line' = [line EXCEPT ![c] = <<>>]
    /\ waited' = [waited EXCEPT ![c] = 0]
    /\ UNCHANGED <<writes, status, wrote, fresh>>
Unverified == [is |-> "unverified", of |-> 0]

(* The daemon: the write goes out and is recorded, and then answered.      *)
Publishes(s) == status' = s /\ fresh' = [c \in Writers |-> FALSE]
Verifying(n) == [is |-> "verifying", of |-> n]
Carries_KeepsVerdict(c) ==
    /\ at[c] = "asking"
    /\ writes' = writes + 1
    /\ wrote' = [wrote EXCEPT ![c] = writes + 1]
    /\ Publishes(IF status = NoStatus THEN Verifying(writes + 1) ELSE status)
    /\ at' = [at EXCEPT ![c] = "told"]
    /\ UNCHANGED <<line, waited, outcome>>
Carries(c) ==
    /\ at[c] = "asking"
    /\ writes' = writes + 1
    /\ wrote' = [wrote EXCEPT ![c] = writes + 1]
    /\ Publishes(Verifying(writes + 1))
    /\ at' = [at EXCEPT ![c] = "told"]
    /\ UNCHANGED <<line, waited, outcome>>

(* Refused, or not answered within IO_TIMEOUT. *)
Refuses(c) == at[c] = "asking" /\ Ends(c, [is |-> "error", of |-> 0])

Judges(v) ==
    /\ \/ status.is = "verifying"
       \/ status.is \in {"unreported", "unverified"} /\ v \in {"confirmed", "mismatch"}
    /\ Publishes([status EXCEPT !.is = v])
    /\ UNCHANGED <<writes, at, wrote, line, waited, outcome>>

SendsLine(c) ==
    /\ at[c] = "watching" /\ ~fresh[c] /\ Len(line[c]) < MAX_LINES
    /\ fresh' = [fresh EXCEPT ![c] = TRUE]
    /\ line' = [line EXCEPT ![c] = Append(@, status)]
    /\ UNCHANGED <<writes, status, at, wrote, waited, outcome>>

(* The client. *)
OpensWatch(c) ==
    /\ at[c] = "told"
    /\ at' = [at EXCEPT ![c] = "watching"]
    /\ fresh' = [fresh EXCEPT ![c] = FALSE]
    /\ UNCHANGED <<writes, status, wrote, line, waited, outcome>>
CannotSubscribe(c) == at[c] = "told" /\ Ends(c, Unverified)

Watches(c) == at[c] = "watching" /\ waited[c] < VERIFY_WAIT
outcome_for(s) == IF s.is \in {"absent", "verifying"} THEN {} ELSE {s}
ReadsLine(c) ==
    /\ Watches(c) /\ line[c] # <<>>
    /\ \/ \E o \in outcome_for(Head(line[c])) : Ends(c, o)
       \/ /\ outcome_for(Head(line[c])) = {}
          /\ line' = [line EXCEPT ![c] = Tail(@)]
          /\ UNCHANGED <<writes, status, at, wrote, fresh, waited, outcome>>
ReadTimesOut(c) ==
    /\ Watches(c) /\ line[c] = <<>>
    /\ waited' = [waited EXCEPT ![c] = @ + 1]
    /\ UNCHANGED <<writes, status, at, wrote, fresh, line, outcome>>
DaemonCloses(c) == Watches(c) /\ Ends(c, Unverified)
GivesUp(c) == at[c] = "watching" /\ waited[c] >= VERIFY_WAIT /\ Ends(c, Unverified)

AllDone == (\A c \in Writers : at[c] = "done") /\ UNCHANGED kvars
ClientNext ==
    \/ \E c \in Writers : Carries(c) \/ Refuses(c) \/ SendsLine(c)
    \/ \E v \in Verdicts : Judges(v)
    \/ \E c \in Writers : OpensWatch(c) \/ CannotSubscribe(c) \/ ReadsLine(c)
    \/ \E c \in Writers : ReadTimesOut(c) \/ DaemonCloses(c) \/ GivesUp(c)
    \/ AllDone
ClientSpec == ClientInit /\ [][ClientNext]_kvars

----------------------------------------------------------------------------
(* A client never reports the verdict on a write before its own, although  *)
(* the key's verdict is still that one until its own write is recorded and *)
(* the snapshots it watches are numbered nowhere (send_setting_write       *)
(* records before it answers, and only then does await_setting subscribe). *)
VerdictIsNotOlder ==
    \A c \in Writers : outcome[c].of # 0 => outcome[c].of >= wrote[c]

(* It may be the verdict on a later write, though.                         *)
VerdictIsOwn == \A c \in Writers : outcome[c].of # 0 => outcome[c].of = wrote[c]
=============================================================================
