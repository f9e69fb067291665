------------------------------ MODULE AapWatch ------------------------------
(***************************************************************************)
(* The AAP link with the history its properties need: how often a link     *)
(* period has dialled on its own, and which settings the AirPods reported  *)
(* after the last write of them.                                           *)
(***************************************************************************)
EXTENDS AapLink

VARIABLES
    auto_dials,         \* automatic connects since the link was last seen to come up
    fresh,              \* keys whose last report was sent after their last write
    silence             \* ticks an open link has been silent

wvars == <<avars, auto_dials, fresh, silence>>

Watch ==
    /\ auto_dials' = IF "new_link" \in does' THEN 0
                     ELSE IF "attempt" \in does' /\ opening.kind = "Automatic"
                     THEN auto_dials + 1 ELSE auto_dials
    /\ fresh' = IF "dumped" \in does' THEN Keys
                ELSE IF "wrote" \in does' THEN fresh \ {cmd.key} ELSE fresh
    /\ silence' = IF sock' = None \/ last_packet' = 0 THEN 0
                  ELSE IF "tick" \in does' THEN silence + 1 ELSE silence

AapWatchInit == AapInit /\ auto_dials = 0 /\ fresh = {} /\ silence = 0
AapWatchNext == AapNext /\ Watch
AapWatchSpec == AapWatchInit /\ [][AapWatchNext]_wvars

(* What the runtime and the AirPods' silence owe: every await ends, since  *)
(* each has a timeout, and the loop takes what is ready.                   *)
AapLiveSpec == AapWatchSpec /\ WF_wvars(Runtime /\ Watch)

----------------------------------------------------------------------------
AapTypeOK ==
    /\ {link, acl, battery_seen, late} \subseteq BOOLEAN
    /\ link_generation \in 0..MaxGeneration /\ sock \in {None} \cup 0..MaxGeneration
    /\ doc \in R!ReadbackType
    /\ stored \in [Keys -> Values] /\ dump \in [Keys -> Values \cup {NoValue}]

(* An open socket belongs to the local link as the supervisor knows it:    *)
(* no link event handled while a dial waited for BlueZ, for the PSM or for *)
(* an ack leaves a socket of an earlier link behind (opening_alive,        *)
(* session.rs:2268, and drop_socket in every branch of on_link).           *)
SocketIsCurrent == sock # None => acl /\ sock = link_generation

(* An observed false->true of the local link arms one automatic dial and   *)
(* no failure of it another: a second would take the audio back from the   *)
(* host the AirPods went to (session.rs:791-803, 715-723).                 *)
OneAutomaticDial == auto_dials <= 1

(* A reconnect or a connect-once acts on the link it was accepted under,   *)
(* however long it waited in the queue or for BlueZ (session.rs:853-870).  *)
CommandActsOnItsLink ==
    [][does' \cap {"reconnect", "connect_once"} # {} =>
          cmd.wanted /\ cmd.generation = link_generation]_wvars

(* A verdict on a setting whose report was sent after the write is the     *)
(* truth about what the AirPods hold, whatever reports earlier links left  *)
(* (store.rs:316-361 with link_lost).                                      *)
VerdictIsTrue ==
    [][\A k \in Keys :
          (doc'.status[k] \in {"confirmed", "mismatch"} /\ doc'.status[k] # doc.status[k]
               /\ k \in fresh) =>
              (doc'.status[k] = "confirmed" <=> stored[k] = doc.requested[k])]_wvars

(* An open link is heard from again or dropped within the time of the idle *)
(* watchdog and its probe: the battery watchdog, which returns before it,  *)
(* a probe and a readback leave no silence longer (session.rs:1349-1389).  *)
SilenceBounded == at = "loop" => silence < IDLE_TIMEOUT + IDLE_PROBE_GRACE

(* daemon/README.md:94: a mismatch is what a fresh dump reported. *)
MismatchIsFresh ==
    [][\A k \in Keys :
          (doc'.status[k] = "mismatch" /\ doc.status[k] # "mismatch") =>
              stored[k] # doc.requested[k]]_wvars

(* daemon/README.md:96: no readback within 10 s ends as unverified. *)
ReadbackEnds == doc.verify = "reopening" ~> doc.verify # "reopening"
=============================================================================
