--------------------------- MODULE HandoffSession ---------------------------
(***************************************************************************)
(* How the supervisor performs what the handoff logic decides              *)
(* (aap/session.rs handoff_event, flush_handoff, yield_route, route,       *)
(* drop_socket, spawn_audio_claim, set_handoff), composed with the router  *)
(* of AudioRoute.                                                          *)
(*                                                                         *)
(* Handoff.tla holds the decisions in full; here a decision is one of: the *)
(* AirPods' own word on who owns them, a yield that announces itself, a    *)
(* take-over.  What matters is what follows: the queued actions are run    *)
(* one after the other once the handler is over, a yield waits twice, and  *)
(* the link, the players, the router's tasks, the claim tasks and a        *)
(* SIGTERM go on meanwhile.  The owner is what decides whether this host   *)
(* owns the audio: owner = "Local" and not released.                       *)
(*                                                                         *)
(* at: "loop", "opening" (a dial's awaits: link events and packets are     *)
(* handled, queued actions are not run), "flush" (running a batch),        *)
(* "drain" and "settle" (the two waits of yield_route).                    *)
(***************************************************************************)
EXTENDS AudioRoute, Sequences

CONSTANTS
    MaxEvents,      \* link events on their way at once
    MaxClaims,      \* claim tasks at once
    BusyRetries     \* Len(CLAIM_RETRY)

ASSUME SessionAssumption == {MaxEvents, MaxClaims, BusyRetries} \subseteq Nat

VARIABLES
    link,           \* BlueZ: the device is connected
    events,         \* link_rx
    alive,          \* the socket, open or opening, is of the present link
    acl, sock,      \* sock: an AAP link is open
    enabled,        \* [handoff] enabled
    owner, released,
    queue,          \* handoff_actions
    batch,          \* what flush_handoff still has to run
    at,
    claims,         \* tasks of spawn_audio_claim
    shut,           \* main: "no", "restoring", "done"
    does            \* what this step did, for the properties

bluezVars == <<link, events, alive>>
ownerVars == <<enabled, owner, released>>
flushVars == <<queue, batch, at>>
svars == <<routeVars, bluezVars, acl, sock, ownerVars, flushVars, claims, shut, does>>

SessionInit ==
    /\ RouteInit
    /\ link = FALSE /\ events = <<>> /\ alive = FALSE /\ acl = FALSE /\ sock = FALSE
    /\ enabled \in BOOLEAN /\ owner = "Unknown" /\ released = FALSE
    /\ queue = <<>> /\ batch = <<>> /\ at = "loop"
    /\ claims = {} /\ shut = "no" /\ does = "nothing"

owns_audio == owner = "Local" /\ ~released
Does(what) == does' = what

----------------------------------------------------------------------------
(* BlueZ and PipeWire.  The profile a card comes up with is WirePlumber's  *)
(* choice and never off: auris does not save that one.                     *)
Around == UNCHANGED <<acl, sock, ownerVars, flushVars, claims, shut>> /\ Does("nothing")

LinkUp ==
    /\ ~link /\ Len(events) < MaxEvents
    /\ link' = TRUE /\ events' = Append(events, "up")
    /\ UNCHANGED <<alive, routeVars>> /\ Around
(* An older BlueZ sends no Disconnected signal. *)
LinkDown ==
    /\ link /\ Len(events) < MaxEvents
    /\ link' = FALSE /\ alive' = FALSE
    /\ events' \in {events \o <<"disconnected", "down">>, Append(events, "down")}
    /\ card' = NoCard /\ usable' = {}
    /\ UNCHANGED routerVars /\ Around
CardAppears ==
    /\ link /\ card = NoCard
    /\ card' \in Profiles \ {"off"} /\ usable' \in SUBSET A2dp
    /\ UNCHANGED <<routerVars, bluezVars>> /\ Around
(* WirePlumber moves an AirPods stream to and from the call codec. *)
CallCodec ==
    /\ card \in A2dp /\ card' = "headset"
    /\ UNCHANGED <<usable, routerVars, bluezVars>> /\ Around
RouterTask == RunsTask /\ UNCHANGED bluezVars /\ Around

----------------------------------------------------------------------------
(* handoff_event: losing the audio ends every claim in flight. *)
LosesClaims ==
    claims' = IF owner' = "Local" /\ ~released' THEN claims
              ELSE {[c EXCEPT !.mine = FALSE] : c \in claims}

Yields(announces) ==
    IF announces THEN <<"pause", "route yielded", "release">> ELSE <<"pause", "route yielded">>
TakesOver == <<"route own", "owns", "rest", "claim">>

route(m) == set(m) /\ UNCHANGED pipewireVars
NoRoute == UNCHANGED routeVars

(* drop_socket: the handoff state is reset, and a yield is taken back. *)
drop_socket(connected) ==
    /\ sock' = FALSE /\ owner' = "Unknown" /\ released' = FALSE /\ LosesClaims
    /\ IF mode # "Yielded" THEN NoRoute
       ELSE IF connected THEN route("Own")
       ELSE cancel /\ UNCHANGED pipewireVars

Session == shut # "done" /\ UNCHANGED <<link, shut>>
InLoop == at = "loop" /\ queue = <<>>
Handles == at = "opening" \/ InLoop

OnLink ==
    /\ Session /\ Handles /\ events # <<>>
    /\ events' = Tail(events)
    /\ \/ /\ Head(events) = "up"
          /\ acl' = TRUE /\ NoRoute /\ UNCHANGED <<sock, owner, released, claims, at>>
       \/ /\ Head(events) = "disconnected"
          /\ cancel /\ UNCHANGED <<pipewireVars, acl, sock, owner, released, claims, at>>
       \/ /\ Head(events) = "down"
          /\ acl' = FALSE /\ drop_socket(FALSE) /\ at' = "loop"
    /\ Does("nothing") /\ UNCHANGED <<alive, enabled, queue, batch>>

(* A dial begins, and ends with a link or without. *)
Dial ==
    /\ Session /\ InLoop /\ events = <<>> /\ acl /\ ~sock
    /\ at' = "opening" /\ alive' = link
    /\ owner' = "Unknown" /\ released' = FALSE /\ LosesClaims
    /\ NoRoute /\ Does("nothing")
    /\ UNCHANGED <<events, acl, sock, enabled, queue, batch>>
Opened(good) ==
    /\ Session /\ at = "opening" /\ events = <<>>
    /\ at' = "loop" /\ Does("nothing")
    /\ IF good THEN alive /\ sock' = TRUE /\ NoRoute /\ UNCHANGED <<owner, released, claims>>
       ELSE drop_socket(acl)
    /\ UNCHANGED <<bluezVars, acl, enabled, queue, batch>>
(* Peer gone, watchdog, failed write, reconnect, readback. *)
LinkLost ==
    /\ Session /\ InLoop /\ sock /\ drop_socket(acl)
    /\ Does("nothing") /\ UNCHANGED <<bluezVars, acl, enabled, flushVars>>

----------------------------------------------------------------------------
(* Decisions.  A packet is handled in the loop and while opening; only a   *)
(* report on an established link makes a handoff of it, but either moves   *)
(* the route.                                                              *)
Packet == Session /\ Handles /\ events = <<>> /\ (sock \/ at = "opening")
Decided == Does("nothing") /\ UNCHANGED <<bluezVars, acl, sock, enabled, batch, at>>

OwnsConnection(owns, opening) ==
    /\ Packet /\ (at = "opening" => opening)
    /\ owner' = (IF owns THEN "Local" ELSE "Other")
    /\ LET yields == ~owns /\ enabled /\ ~opening /\ ~released IN
       /\ released' = (released \/ yields)
       /\ queue' = queue \o (IF yields THEN Yields(FALSE) ELSE <<>>)
    /\ IF ~enabled THEN NoRoute
       ELSE IF owns THEN route("Own") ELSE route("Yielded")
    /\ LosesClaims /\ Decided

(* Another host asks for the audio. *)
SmartRouting ==
    /\ Packet
    /\ owner' = "Other"
    /\ released' = (released \/ enabled)
    /\ queue' = queue \o (IF enabled /\ ~released THEN Yields(TRUE) ELSE <<>>)
    /\ NoRoute /\ LosesClaims /\ Decided

(* The user yields or takes over; a play on this host takes over too. *)
Yield ==
    /\ Session /\ InLoop /\ sock
    /\ owner' = "Other" /\ released' = TRUE /\ queue' = Yields(TRUE)
    /\ NoRoute /\ LosesClaims /\ Decided
TakeOver ==
    /\ Session /\ InLoop /\ sock /\ Cardinality(claims) < MaxClaims
    /\ owner' = "Local" /\ released' = FALSE /\ queue' = TakesOver
    /\ NoRoute /\ LosesClaims /\ Decided

SetHandoff(on) ==
    /\ Session /\ InLoop /\ enabled' = on
    /\ IF ~on /\ mode = "Yielded" THEN route("Own") ELSE NoRoute
    /\ Does("nothing")
    /\ UNCHANGED <<bluezVars, acl, sock, owner, released, flushVars, claims>>

----------------------------------------------------------------------------
(* flush_handoff. *)
Flush ==
    /\ Session /\ at = "loop" /\ queue # <<>>
    /\ batch' = queue /\ queue' = <<>> /\ at' = "flush"
    /\ NoRoute /\ Does("nothing")
    /\ UNCHANGED <<bluezVars, acl, sock, ownerVars, claims>>
Rest(left) == batch' = left /\ at' = IF left = <<>> THEN "loop" ELSE "flush"
Runs(action) ==
    /\ Session /\ at = "flush" /\ Head(batch) = action
    /\ UNCHANGED <<bluezVars, acl, enabled, queue>>

(* The pause is a request to the MPRIS task, and may not be queued. *)
PauseLocalPlayers ==
    /\ Runs("pause") /\ Rest(Tail(batch)) /\ NoRoute /\ Does("nothing")
    /\ UNCHANGED <<sock, owner, released, claims>>

RouteOwn ==
    /\ Runs("route own") /\ Rest(Tail(batch)) /\ route("Own") /\ Does("nothing")
    /\ UNCHANGED <<sock, owner, released, claims>>

(* A send: without a link it fails and the batch goes on; a failed write   *)
(* drops the link first.                                                   *)
Send(sent) ==
    /\ Runs("release") \/ Runs("owns") \/ Runs("rest")
    /\ sent => sock /\ alive
    /\ IF sock /\ ~sent THEN drop_socket(acl)
       ELSE NoRoute /\ UNCHANGED <<sock, owner, released, claims>>
    /\ Rest(Tail(batch))
    /\ Does(IF sent THEN Head(batch) ELSE "nothing")

(* yield_route: drain, switch off, wait for the switch. *)
DrainBegins ==
    /\ Runs("route yielded") /\ at' = "drain"
    /\ NoRoute /\ Does("nothing") /\ UNCHANGED <<sock, owner, released, claims, batch>>
(* drain_local_playback: nothing plays, or DRAIN_TIMEOUT passed.  Players  *)
(* are not part of this module: the wait ends when it likes.  What their   *)
(* readings queue meanwhile is not run before the batch is over.           *)
Drained ==
    /\ Session /\ at = "drain"
    /\ route("Yielded") /\ at' = "settle" /\ Does("nothing")
    /\ UNCHANGED <<bluezVars, acl, sock, ownerVars, queue, batch, claims>>
(* wait_settled: the task ended, or YIELD_ROUTE_WAIT passed. *)
wait_settled_Started == TRUE
wait_settled == settled
Settled ==
    /\ Session /\ at = "settle" /\ Rest(Tail(batch))
    /\ Does(IF wait_settled THEN "off" ELSE "gave up waiting")
    /\ NoRoute
    /\ UNCHANGED <<bluezVars, acl, sock, ownerVars, queue, claims>>

----------------------------------------------------------------------------
(* spawn_audio_claim: `mine` is epoch = mine.  A newer claim or the loss   *)
(* of the audio ends a task at its next check.                             *)
ClaimAudio ==
    /\ Runs("claim") /\ Rest(Tail(batch))
    /\ claims' = IF owns_audio
                 THEN {[c EXCEPT !.mine = FALSE] : c \in claims}
                          \cup {[mine |-> TRUE, stage |-> "check", waits |-> BusyRetries]}
                 ELSE claims
    /\ NoRoute /\ Does("nothing") /\ UNCHANGED <<sock, owner, released>>

Claim_Unchecked(c) == TRUE
Claim(c) == c.mine
ClaimStep ==
    /\ \E c \in claims :
          \/ /\ c.stage = "check"
             /\ claims' = (claims \ {c})
                    \cup (IF Claim(c) THEN {[c EXCEPT !.stage = "call"]} ELSE {})
             /\ Does(IF Claim(c) THEN "claim" ELSE "nothing")
          \/ /\ c.stage = "call" /\ Does("nothing")         \* connected, failed, timed out
             /\ claims' = claims \ {c}
          \/ /\ c.stage = "call" /\ c.waits > 0 /\ Does("nothing")       \* busy
             /\ claims' = (claims \ {c})
                    \cup {[c EXCEPT !.stage = "check", !.waits = @ - 1]}
    /\ UNCHANGED <<routeVars, bluezVars, acl, sock, ownerVars, flushVars, shut>>

----------------------------------------------------------------------------
(* aurisd on SIGTERM: the tasks run on while restore_on_exit awaits.       *)
Terminate ==
    /\ shut = "no"
    /\ shut' = IF outstanding THEN "restoring" ELSE "done"
    /\ NoRoute /\ Does("exit")
    /\ UNCHANGED <<bluezVars, acl, sock, ownerVars, flushVars, claims>>
Restored(ok) ==
    /\ shut = "restoring" /\ shut' = "done"
    /\ restore_on_exit(ok) /\ Does(IF ok THEN "restored" ELSE "not restored")
    /\ UNCHANGED <<bluezVars, acl, sock, ownerVars, flushVars, claims>>
Exited == shut = "done" /\ UNCHANGED svars

Bluez == LinkUp \/ LinkDown \/ CardAppears \/ CallCodec
Decides ==
    \/ SmartRouting \/ Yield \/ TakeOver
    \/ \E b, c \in BOOLEAN : OwnsConnection(b, c)
    \/ \E b \in BOOLEAN : SetHandoff(b)
Links == OnLink \/ Dial \/ LinkLost \/ (\E b \in BOOLEAN : Opened(b))
Flushes ==
    \/ Flush \/ PauseLocalPlayers \/ RouteOwn \/ DrainBegins \/ Drained \/ Settled \/ ClaimAudio
    \/ \E b \in BOOLEAN : Send(b)
SessionNext ==
    \/ shut # "done" /\ (Bluez \/ RouterTask \/ ClaimStep)
    \/ Decides \/ Links \/ Flushes
    \/ Terminate \/ (\E b \in BOOLEAN : Restored(b))
    \/ Exited
SessionSpec == SessionInit /\ [][SessionNext]_svars
=============================================================================
