---------------------------- MODULE MediaProofs ----------------------------
(***************************************************************************)
(* Proofs about what the supervisor does to the local sound: the queue of  *)
(* a handoff with the router (RouteWatch), and ear detection with the      *)
(* players (EarWatch).                                                     *)
(***************************************************************************)
EXTENDS RouteWatch, EarWatch, FiniteSetTheorems, SequenceTheorems, TLAPS

LEMMA Names ==
    /\ "off" \notin A2dp /\ "headset" \notin A2dp /\ NoCard \notin A2dp /\ NoProfile \notin A2dp
    /\ Plain \in A2dp /\ Retries \in Nat
    /\ A2dp \subseteq Profiles /\ "off" \in Profiles /\ NoCard \notin Profiles
  BY RouteAssumption DEF Profiles, NoCard

(* What is picked for a yield is off, and for the own use never. *)
LEMMA Picked ==
    ASSUME NEW m \in {"Own", "Yielded"}, NEW offered \in SUBSET A2dp,
           NEW want \in A2dp \cup {NoProfile}, NEW profile,
           NEW p \in pick_profile(m, profile, offered, want)
    PROVE  p \in IF m = "Yielded" THEN {"off"} ELSE A2dp
  BY Names DEF pick_profile

(* News that the link went down, not yet handled. *)
Down == \E i \in DOMAIN events : events[i] = "down"
LinkEvents == {"up", "down", "disconnected"}

LEMMA DownAppended ==
    ASSUME events \in Seq(LinkEvents), NEW e \in LinkEvents
    PROVE  /\ Append(events, e) \in Seq(LinkEvents)
           /\ Down => \E i \in DOMAIN Append(events, e) : Append(events, e)[i] = "down"
           /\ e = "down" => \E i \in DOMAIN Append(events, e) : Append(events, e)[i] = "down"
<1> DEFINE new == Append(events, e)
<1>1. /\ new \in Seq(LinkEvents) /\ DOMAIN new = 1..Len(events) + 1 /\ Len(events) \in Nat
      /\ DOMAIN events = 1..Len(events)
      /\ \A i \in 1..Len(events) : new[i] = events[i]
      /\ new[Len(events) + 1] = e
  OBVIOUS
<1> HIDE DEF new
<1>2. Down => \E i \in DOMAIN new : new[i] = "down"
  BY <1>1 DEF Down
<1>3. Len(events) + 1 \in DOMAIN new
  BY <1>1
<1>4. e = "down" => \E i \in DOMAIN new : new[i] = "down"
  BY <1>1, <1>3
<1>5. QED
  BY <1>1, <1>2, <1>4 DEF new

LEMMA DownKept ==
    ASSUME events \in Seq(LinkEvents), events # <<>>, events' = Tail(events)
    PROVE  events' \in Seq(LinkEvents) /\ (Down /\ Head(events) # "down" => Down')
<1>1. /\ Len(events) \in Nat /\ Len(events) >= 1 /\ DOMAIN events = 1..Len(events)
      /\ events' \in Seq(LinkEvents) /\ DOMAIN events' = 1..Len(events) - 1
      /\ \A i \in 1..Len(events) - 1 : events'[i] = events[i + 1]
      /\ Head(events) = events[1]
  OBVIOUS
<1>2. ASSUME Down, Head(events) # "down"
      PROVE  Down'
  <2>1. PICK i \in DOMAIN events : events[i] = "down"
    BY <1>2 DEF Down
  <2>2. i # 1 /\ i \in 1..Len(events)
    BY <1>1, <1>2, <2>1
  <2>3. i - 1 \in 1..Len(events) - 1 /\ (i - 1) + 1 = i
    BY <1>1, <2>2
  <2>4. i - 1 \in DOMAIN events' /\ events'[i - 1] = "down"
    BY <1>1, <2>1, <2>3
  <2>5. QED
    BY <2>4 DEF Down
<1>3. QED
  BY <1>1, <1>2

----------------------------------------------------------------------------
(* Inductive: at most one task runs, for the mode last asked for; a switch *)
(* that reached PipeWire, or settled, is where the card is, until news of  *)
(* the link's end is on its way.                                           *)
Tasks ==
    [mode : {"Own", "Yielded"}, stage : {"read", "switch", "switched"},
     target : Profiles \cup {NoProfile}, from : Profiles \cup {NoProfile}, tries : Nat]
TaskOK(t) ==
    /\ t \in Tasks /\ t.mode = mode
    /\ t.stage # "read" => t.target \in IF mode = "Yielded" THEN {"off"} ELSE A2dp
    /\ t.stage = "switched" => IF mode = "Yielded" THEN card = "off" \/ Down ELSE card # "off"
CardOK ==
    /\ card \in Profiles \cup {NoCard} /\ usable \in SUBSET A2dp
    /\ mode \in {"none", "Own", "Yielded"} /\ settled \in BOOLEAN /\ outstanding \in BOOLEAN
    /\ remembered \in A2dp \cup {NoProfile}
EventsOK == events \in Seq(LinkEvents)
LandedInv ==
    settled =>
        /\ mode # "none"
        /\ IF mode = "Yielded" THEN outstanding /\ (card = "off" \/ Down)
           ELSE card # "off" /\ ~outstanding
TaskInv == tasks # {} => ~settled /\ \E t : tasks = {t} /\ TaskOK(t)
SwitchInv == shut # "done" => TaskInv /\ LandedInv

(* What the supervisor does to the router. *)
RouteMoves ==
    \/ NoRoute
    \/ route("Own") \/ route("Yielded")
    \/ cancel /\ UNCHANGED pipewireVars

LEMMA MoveTyped ==
    ASSUME CardOK, RouteMoves
    PROVE  CardOK'
<1> USE DEF pipewireVars, routerVars, routeVars
<1>1. CASE NoRoute
  BY <1>1 DEF NoRoute, CardOK
<1>2. ASSUME NEW m \in {"Own", "Yielded"}, route(m)
      PROVE  CardOK'
  BY <1>2 DEF route, set, CardOK
<1>3. CASE cancel /\ UNCHANGED pipewireVars
  BY <1>3 DEF cancel, CardOK
<1>4. QED
  BY <1>1, <1>2, <1>3 DEF RouteMoves

LEMMA NewTaskOK ==
    ASSUME NEW m \in {"Own", "Yielded"}
    PROVE  NewTask(m) \in Tasks /\ NewTask(m).mode = m /\ NewTask(m).stage = "read"
  BY Names DEF NewTask, Tasks

LEMMA MoveKeeps ==
    ASSUME CardOK, SwitchInv, RouteMoves, shut # "done",
           Down => Down' \/ mode' # "Yielded"
    PROVE  SwitchInv'
<1> USE DEF pipewireVars, routerVars, routeVars
<1>i. TaskInv /\ LandedInv
  BY DEF SwitchInv
<1>1. CASE UNCHANGED <<card, mode, settled, tasks, outstanding>>
  <2>1. LandedInv'
    BY <1>i, <1>1 DEF LandedInv
  <2>2. \A t : TaskOK(t) => TaskOK(t)'
    BY <1>1 DEF TaskOK
  <2>3. TaskInv'
    BY <1>i, <1>1, <2>2 DEF TaskInv
  <2>4. QED
    BY <2>1, <2>3 DEF SwitchInv
<1>2. ASSUME NEW m \in {"Own", "Yielded"}, mode' = m, ~settled', tasks' = {NewTask(m)}
      PROVE  SwitchInv'
  <2>1. TaskOK(NewTask(m))'
    BY <1>2, NewTaskOK DEF TaskOK
  <2>2. QED
    BY <1>2, <2>1 DEF SwitchInv, TaskInv, LandedInv
<1>3. CASE ~settled' /\ tasks' = {}
  BY <1>3 DEF SwitchInv, TaskInv, LandedInv
<1>4. CASE NoRoute
  BY <1>1, <1>4 DEF NoRoute
<1>5. ASSUME NEW m \in {"Own", "Yielded"}, route(m)
      PROVE  SwitchInv'
  BY <1>1, <1>2, <1>5 DEF route, set
<1>6. CASE cancel
  BY <1>3, <1>6 DEF cancel
<1>7. QED
  BY <1>4, <1>5, <1>6 DEF RouteMoves

(* The task runs on by itself: it lands its switch, or has not yet. *)
LEMMA TaskKeeps ==
    ASSUME CardOK, SwitchInv, RunsTask, UNCHANGED <<events, shut>>, shut # "done"
    PROVE  CardOK' /\ SwitchInv'
<1>1. TaskInv
  BY DEF SwitchInv
<1>2. PICK t \in tasks : ReadCard(t) \/ Switch(t) \/ Switched(t)
  BY DEF RunsTask
<1>3. ~settled /\ tasks = {t} /\ TaskOK(t)
  BY <1>1, <1>2 DEF TaskInv
<1>4. t \in Tasks /\ t.mode = mode /\ mode \in {"Own", "Yielded"}
  BY <1>3 DEF TaskOK, Tasks
<1>5. UNCHANGED <<usable, mode>> /\ (Down' <=> Down)
  BY DEF RunsTask, Down
<1>e. ASSUME UNCHANGED <<card, settled, remembered, outstanding>>, tasks' = {}
      PROVE  CardOK' /\ SwitchInv'
  BY <1>e, <1>3, <1>5 DEF CardOK, SwitchInv, TaskInv, LandedInv
<1>b. ASSUME UNCHANGED <<settled, outstanding, remembered>>, card' \in Profiles \cup {NoCard},
             NEW u, tasks' = {u}, TaskOK(u)'
      PROVE  CardOK' /\ SwitchInv'
  BY <1>b, <1>3, <1>5 DEF CardOK, SwitchInv, TaskInv, LandedInv
<1>d. ASSUME drive(t), remembered' \in A2dp \cup {NoProfile}, card' = card,
             IF mode = "Yielded" THEN card = "off" \/ Down ELSE card # "off"
      PROVE  CardOK' /\ SwitchInv'
  <2>1. tasks' = {} /\ settled' = TRUE /\ outstanding' = (mode = "Yielded")
    BY <1>d, <1>3, <1>4 DEF drive, Ends
  <2>2. CardOK'
    BY <1>d, <1>5, <2>1 DEF CardOK
  <2>3. LandedInv'
    BY <1>d, <1>4, <1>5, <2>1 DEF LandedInv
  <2>4. QED
    BY <2>1, <2>2, <2>3 DEF SwitchInv, TaskInv
<1>r. ASSUME Retry(t)
      PROVE  CardOK' /\ SwitchInv'
  <2>1. UNCHANGED <<card, settled, remembered, outstanding>>
    BY <1>r DEF Retry
  <2>2. CASE Ends(t)
    BY <2>1, <2>2, <1>3, <1>e DEF Ends
  <2>3. CASE t.tries > 0 /\ Becomes(t, [t EXCEPT !.stage = "read", !.tries = @ - 1])
    <3> DEFINE u == [t EXCEPT !.stage = "read", !.tries = @ - 1]
    <3>1. t.tries - 1 \in Nat
      BY <1>4, <2>3 DEF Tasks
    <3>2. u \in Tasks /\ u.mode = t.mode /\ u.stage = "read"
      BY <1>4, <3>1 DEF Tasks
    <3>3. tasks' = {u}
      BY <2>3, <1>3 DEF Becomes
    <3> HIDE DEF u
    <3>4. TaskOK(u)'
      BY <3>2, <1>4, <1>5 DEF TaskOK
    <3>5. QED
      BY <2>1, <3>3, <3>4, <1>b DEF CardOK
  <2>4. QED
    BY <1>r, <2>2, <2>3 DEF Retry
<1>6. CASE ReadCard(t)
  <2>1. CASE card # NoCard /\ card \in pick_profile(t.mode, card, usable, remembered)
             /\ drive(t) /\ UNCHANGED <<card, remembered>>
    <3>1. card \in IF mode = "Yielded" THEN {"off"} ELSE A2dp
      BY <2>1, <1>4, Picked DEF CardOK
    <3>2. QED
      BY <2>1, <3>1, <1>d, Names DEF CardOK
  <2>2. ASSUME NEW c, c = card, c # NoCard,
               NEW p \in pick_profile(t.mode, card, usable, remembered) \ {card},
               Becomes(t, [t EXCEPT !.stage = "switch", !.target = p, !.from = c]),
               UNCHANGED <<card, settled, remembered, outstanding>>
        PROVE  CardOK' /\ SwitchInv'
    <3> DEFINE u == [t EXCEPT !.stage = "switch", !.target = p, !.from = c]
    <3>1. p \in IF mode = "Yielded" THEN {"off"} ELSE A2dp
      BY <1>4, Picked DEF CardOK
    <3>2. p \in Profiles /\ c \in Profiles
      BY <2>2, <3>1, Names DEF CardOK
    <3>3. u \in Tasks /\ u.mode = t.mode /\ u.stage = "switch" /\ u.target = p
      BY <1>4, <3>2 DEF Tasks
    <3>4. tasks' = {u}
      BY <2>2, <1>3 DEF Becomes
    <3> HIDE DEF u
    <3>5. TaskOK(u)'
      BY <3>1, <3>3, <1>4, <1>5 DEF TaskOK
    <3>6. QED
      BY <2>2, <3>4, <3>5, <1>b DEF CardOK
  <2>3. QED
    BY <1>6, <1>r, <2>1, <2>2 DEF ReadCard
<1>7. CASE Switch(t)
  <2>1. CASE /\ card' = t.target /\ Becomes(t, [t EXCEPT !.stage = "switched"])
             /\ UNCHANGED <<settled, remembered, outstanding>>
    <3> DEFINE u == [t EXCEPT !.stage = "switched"]
    <3>1. t.target \in IF mode = "Yielded" THEN {"off"} ELSE A2dp
      BY <1>3, <1>7 DEF Switch, TaskOK
    <3>2. u \in Tasks /\ u.mode = t.mode /\ u.target = t.target
      BY <1>4 DEF Tasks
    <3>3. tasks' = {u}
      BY <2>1, <1>3 DEF Becomes
    <3> HIDE DEF u
    <3>4. IF mode = "Yielded" THEN card' = "off" ELSE card' # "off"
      BY <2>1, <3>1, Names
    <3>5. TaskOK(u)'
      BY <3>1, <3>2, <3>4, <1>4, <1>5 DEF TaskOK
    <3>6. card' \in Profiles
      BY <2>1, <3>1, Names
    <3>7. QED
      BY <2>1, <3>3, <3>5, <3>6, <1>b
  <2>2. QED
    BY <1>7, <1>r, <2>1 DEF Switch
<1>8. CASE Switched(t)
  <2>1. CASE /\ remembered' = IF t.from \in A2dp THEN t.from ELSE remembered
             /\ drive(t) /\ UNCHANGED card
    <3>1. IF mode = "Yielded" THEN card = "off" \/ Down ELSE card # "off"
      BY <1>3, <1>8 DEF Switched, TaskOK
    <3>2. remembered' \in A2dp \cup {NoProfile}
      BY <2>1 DEF CardOK
    <3>3. QED
      BY <2>1, <3>1, <3>2, <1>d
  <2>2. QED
    BY <1>8, <1>r, <2>1 DEF Switched
<1>9. QED
  BY <1>2, <1>6, <1>7, <1>8

LEMMA DropMoves ==
    ASSUME NEW connected, drop_socket(connected)
    PROVE  RouteMoves /\ (~connected => mode' # "Yielded")
<1>1. CASE mode # "Yielded"
  <2>1. NoRoute
    BY <1>1 DEF drop_socket
  <2>2. mode' = mode
    BY <2>1 DEF NoRoute, routeVars, routerVars
  <2>3. QED
    BY <1>1, <2>1, <2>2 DEF RouteMoves
<1>2. CASE mode = "Yielded" /\ connected
  BY <1>2 DEF drop_socket, RouteMoves
<1>3. CASE mode = "Yielded" /\ ~connected
  <2>1. cancel /\ UNCHANGED pipewireVars
    BY <1>3 DEF drop_socket
  <2>2. mode' = "none"
    BY <2>1 DEF cancel
  <2>3. QED
    BY <2>1, <2>2 DEF RouteMoves
<1>4. QED
  BY <1>1, <1>2, <1>3

(* Every handler of the supervisor and every action it flushes moves the   *)
(* route by a set or a cancel, or leaves it; and the end of a link is only *)
(* forgotten together with the yield.                                      *)
LEMMA SessionMoves ==
    ASSUME EventsOK, Decides \/ Links \/ Flushes
    PROVE  /\ RouteMoves /\ shut' = shut /\ shut # "done" /\ link' = link
           /\ EventsOK' /\ (Down => Down' \/ mode' # "Yielded")
<1> USE DEF bluezVars, ownerVars, flushVars, Decided, Session
<1>s. shut' = shut /\ shut # "done" /\ link' = link
  BY DEF Decides, Links, Flushes, SmartRouting, Yield, TakeOver, OwnsConnection, SetHandoff,
         OnLink, Dial, LinkLost, Opened, Flush, PauseLocalPlayers, RouteOwn, DrainBegins, Drained,
         Settled, ClaimAudio, Send, Packet, Runs
<1>u. ASSUME RouteMoves, events' = events
      PROVE  RouteMoves /\ EventsOK' /\ (Down => Down')
  BY <1>u DEF EventsOK, Down
<1>1. CASE Decides
  <2>1. events' = events
    BY <1>1 DEF Decides, SmartRouting, Yield, TakeOver, OwnsConnection, SetHandoff
  <2>2. RouteMoves
    BY <1>1 DEF Decides, SmartRouting, Yield, TakeOver, OwnsConnection, SetHandoff, RouteMoves
  <2>3. QED
    BY <2>1, <2>2, <1>u, <1>s
<1>2. CASE Dial \/ LinkLost \/ \E b \in BOOLEAN : Opened(b)
  <2>1. events' = events
    BY <1>2 DEF Dial, LinkLost, Opened
  <2>2. NoRoute \/ \E c : drop_socket(c)
    BY <1>2 DEF Dial, LinkLost, Opened
  <2>3. RouteMoves
    BY <2>2, DropMoves DEF RouteMoves
  <2>4. QED
    BY <2>1, <2>3, <1>u, <1>s
<1>3. CASE OnLink
  <2>1. events # <<>> /\ events' = Tail(events)
    BY <1>3 DEF OnLink
  <2>2. EventsOK' /\ (Down /\ Head(events) # "down" => Down')
    BY <2>1, DownKept DEF EventsOK
  <2>3. RouteMoves
    BY <1>3, DropMoves DEF OnLink, RouteMoves
  <2>4. Head(events) = "down" => mode' # "Yielded"
    BY <1>3, DropMoves DEF OnLink
  <2>5. QED
    BY <2>2, <2>3, <2>4, <1>s
<1>4. CASE Flushes
  <2>1. events' = events
    BY <1>4 DEF Flushes, Flush, PauseLocalPlayers, RouteOwn, DrainBegins, Drained, Settled,
                ClaimAudio, Send, Runs
  <2>2. NoRoute \/ route("Own") \/ route("Yielded") \/ \E c : drop_socket(c)
    BY <1>4 DEF Flushes, Flush, PauseLocalPlayers, RouteOwn, DrainBegins, Drained, Settled,
                ClaimAudio, Send
  <2>3. RouteMoves
    BY <2>2, DropMoves DEF RouteMoves
  <2>4. QED
    BY <2>1, <2>3, <1>u, <1>s
<1>5. QED
  BY <1>1, <1>2, <1>3, <1>4 DEF Links

(* BlueZ, PipeWire and WirePlumber. *)
LEMMA AroundMoves ==
    ASSUME CardOK, EventsOK, Bluez
    PROVE  /\ UNCHANGED routerVars /\ shut' = shut
           /\ EventsOK' /\ (Down => Down')
           /\ card' \in Profiles \cup {NoCard} /\ usable' \in SUBSET A2dp
           /\ card # "off" => card' # "off"
           /\ card = "off" => card' = "off" \/ Down'
<1> USE DEF bluezVars, Around, routeVars, pipewireVars
<1>1. CASE LinkUp
  <2>1. events' = Append(events, "up") /\ UNCHANGED <<card, usable>>
    BY <1>1 DEF LinkUp
  <2>2. EventsOK' /\ (Down => Down')
    BY <2>1, DownAppended DEF EventsOK, Down, LinkEvents
  <2>3. QED
    BY <1>1, <2>1, <2>2 DEF LinkUp, CardOK
<1>2. CASE LinkDown
  <2>1. EventsOK' /\ Down'
    <3>1. /\ Append(events, "disconnected") \in Seq(LinkEvents)
          /\ events \o <<"disconnected", "down">> = Append(Append(events, "disconnected"), "down")
      BY DEF EventsOK, LinkEvents
    <3>2. CASE events' = Append(events, "down")
      BY <3>2, DownAppended DEF EventsOK, Down, LinkEvents
    <3>3. CASE events' = events \o <<"disconnected", "down">>
      <4> DEFINE new == Append(events, "disconnected")
      <4>1. events' = Append(new, "down") /\ new \in Seq(LinkEvents)
        BY <3>1, <3>3
      <4> HIDE DEF new
      <4>2. /\ events' \in Seq(LinkEvents) /\ Len(new) + 1 \in DOMAIN events'
            /\ events'[Len(new) + 1] = "down"
        BY <4>1 DEF LinkEvents
      <4>3. QED
        BY <4>2 DEF EventsOK, Down
    <3>4. QED
      BY <1>2, <3>2, <3>3 DEF LinkDown
  <2>2. card' = NoCard /\ usable' = {} /\ UNCHANGED routerVars /\ shut' = shut
    BY <1>2 DEF LinkDown
  <2>3. QED
    BY <2>1, <2>2 DEF NoCard
<1>3. CASE CardAppears
  <2>1. events' = events /\ UNCHANGED routerVars /\ shut' = shut /\ card = NoCard
    BY <1>3 DEF CardAppears
  <2>2. card' \in Profiles \ {"off"} /\ usable' \in SUBSET A2dp
    BY <1>3 DEF CardAppears
  <2>3. QED
    BY <2>1, <2>2 DEF EventsOK, Down, NoCard
<1>4. CASE CallCodec
  <2>1. events' = events /\ UNCHANGED routerVars /\ shut' = shut /\ card \in A2dp
        /\ card' = "headset" /\ usable' = usable
    BY <1>4 DEF CallCodec
  <2>2. QED
    BY <2>1, Names DEF EventsOK, Down, CardOK, Profiles
<1>5. QED
  BY <1>1, <1>2, <1>3, <1>4 DEF Bluez

LEMMA AroundKeeps ==
    ASSUME CardOK, EventsOK, SwitchInv, Bluez, shut # "done"
    PROVE  CardOK' /\ SwitchInv'
<1>1. /\ UNCHANGED <<mode, settled, remembered, tasks, outstanding, shut>>
      /\ Down => Down'
      /\ card' \in Profiles \cup {NoCard} /\ usable' \in SUBSET A2dp
      /\ card # "off" => card' # "off"
      /\ card = "off" => card' = "off" \/ Down'
  BY AroundMoves DEF routerVars
<1>2. CardOK'
  BY <1>1 DEF CardOK
<1>3. LandedInv'
  BY <1>1 DEF SwitchInv, LandedInv
<1>4. \A t : TaskOK(t) => TaskOK(t)'
  BY <1>1 DEF TaskOK
<1>5. TaskInv'
  BY <1>1, <1>4 DEF SwitchInv, TaskInv
<1>6. QED
  BY <1>2, <1>3, <1>5 DEF SwitchInv

LEMMA SwitchInit == SessionInit => CardOK /\ EventsOK /\ SwitchInv
<1> SUFFICES ASSUME SessionInit PROVE CardOK /\ EventsOK /\ SwitchInv
  OBVIOUS
<1>1. CardOK
  BY DEF SessionInit, RouteInit, CardOK
<1>2. EventsOK
  <2>1. <<>> \in Seq(LinkEvents)
    OBVIOUS
  <2>2. QED
    BY <2>1 DEF SessionInit, EventsOK
<1>3. SwitchInv
  BY DEF SessionInit, RouteInit, SwitchInv, TaskInv, LandedInv
<1>4. QED
  BY <1>1, <1>2, <1>3

LEMMA RouteNext ==
    ASSUME CardOK, EventsOK, SwitchInv, [SessionNext]_svars
    PROVE  CardOK' /\ EventsOK' /\ SwitchInv'
<1>1. CASE shut # "done" /\ Bluez
  BY <1>1, AroundMoves, AroundKeeps
<1>2. CASE shut # "done" /\ RouterTask
  <2>1. RunsTask /\ UNCHANGED <<events, shut>>
    BY <1>2 DEF RouterTask, Around, bluezVars
  <2>2. QED
    BY <1>2, <2>1, TaskKeeps DEF EventsOK
<1>3. CASE Decides \/ Links \/ Flushes
  BY <1>3, SessionMoves, MoveTyped, MoveKeeps
<1>k. ASSUME UNCHANGED <<routeVars, events>>, shut' = shut \/ shut' = "done" \/ shut = "no"
      PROVE  CardOK' /\ EventsOK' /\ SwitchInv'
  <2>1. NoRoute /\ (Down <=> Down')
    BY <1>k DEF NoRoute, Down
  <2>2. CardOK' /\ EventsOK'
    BY <1>k, <2>1, MoveTyped DEF RouteMoves, EventsOK
  <2>3. CASE shut' = "done"
    BY <2>2, <2>3 DEF SwitchInv
  <2>4. CASE shut # "done"
    BY <2>1, <2>2, <2>4, MoveKeeps DEF RouteMoves
  <2>5. QED
    BY <1>k, <2>2, <2>3, <2>4
<1>4. CASE ClaimStep \/ Terminate \/ Exited \/ UNCHANGED svars
  BY <1>4, <1>k DEF ClaimStep, Terminate, Exited, svars, bluezVars, NoRoute
<1>5. ASSUME NEW ok \in BOOLEAN, Restored(ok)
      PROVE  CardOK' /\ EventsOK' /\ SwitchInv'
  <2>1. shut' = "done" /\ events' = events
    BY <1>5 DEF Restored, bluezVars
  <2>2. UNCHANGED <<usable, mode, settled, remembered>> /\ outstanding' = FALSE
    BY <1>5 DEF Restored, restore_on_exit
  <2>3. card' = card \/ card' \in pick_profile("Own", card, usable, remembered)
    BY <1>5 DEF Restored, restore_on_exit
  <2>4. card' \in Profiles \cup {NoCard}
    BY <2>3, Picked, Names DEF CardOK
  <2>5. QED
    BY <2>1, <2>2, <2>4 DEF CardOK, EventsOK, SwitchInv
<1>6. QED
  BY <1>1, <1>2, <1>3, <1>4, <1>5 DEF SessionNext

(* A switch that landed stays landed: whatever the supervisor asks, BlueZ  *)
(* and PipeWire do and a task is interrupted in, the card is where the     *)
(* settled mode wants it (audio_route.rs set, drive, apply).               *)
THEOREM SwitchStays == WatchSpec => []RouteLanded
<1> DEFINE I == CardOK /\ EventsOK /\ SwitchInv
<1>1. WatchInit => I
  BY SwitchInit DEF WatchInit
<1>2. ASSUME I, [WatchNext]_wvars
      PROVE  I'
  <2>1. [SessionNext]_svars
    BY <1>2 DEF WatchNext, wvars
  <2>2. QED
    BY <1>2, <2>1, RouteNext
<1>3. I => RouteLanded
  <2> SUFFICES ASSUME I, settled, events = <<>>, shut = "no"
               PROVE  IF mode = "Yielded" THEN card \in {"off", NoCard} /\ outstanding
                      ELSE card # "off" /\ ~outstanding
    BY DEF RouteLanded
  <2>1. ~Down
    BY DEF Down
  <2>2. QED
    BY <2>1 DEF SwitchInv, LandedInv
<1>4. QED
  BY <1>1, <1>2, <1>3, PTL DEF WatchSpec

----------------------------------------------------------------------------
(* Inductive: a batch is what is left of one decision, and a yield is past *)
(* its two waits when only the release is left.                            *)
Handed == {<<>>, Yields(TRUE), Yields(FALSE), TakesOver}
Draining == {<<"route yielded">>, <<"route yielded", "release">>}
Batches ==
    {Yields(TRUE), Yields(FALSE), TakesOver} \cup Draining \cup
    {<<"release">>, <<"owns", "rest", "claim">>, <<"rest", "claim">>, <<"claim">>}
QueueOK ==
    /\ queue \in Handed
    /\ at = "opening" /\ ~released => queue = <<>>
BatchOK ==
    /\ at \in {"loop", "opening", "flush", "drain", "settle"}
    /\ at = "flush" => batch \in Batches
    /\ at \in {"drain", "settle"} => batch \in Draining
    /\ at = "settle" => mode = "Yielded"
    /\ shut # "done" /\ at = "flush" /\ batch = <<"release">> =>
         gave_up \/ (mode = "Yielded" /\ settled)
AliveOK == alive => ~Down

(* The first and the rest of a short sequence, and what it is over. *)
LEMMA One == ASSUME NEW a PROVE Head(<<a>>) = a /\ Tail(<<a>>) = <<>>
  OBVIOUS
LEMMA Two ==
    ASSUME NEW a, NEW b
    PROVE  Head(<<a, b>>) = a /\ Tail(<<a, b>>) = <<b>>
  OBVIOUS
LEMMA Three ==
    ASSUME NEW a, NEW b, NEW c
    PROVE  Head(<<a, b, c>>) = a /\ Tail(<<a, b, c>>) = <<b, c>>
  OBVIOUS
LEMMA Four ==
    ASSUME NEW a, NEW b, NEW c, NEW d
    PROVE  Head(<<a, b, c, d>>) = a /\ Tail(<<a, b, c, d>>) = <<b, c, d>>
  OBVIOUS
LEMMA TwoIn == ASSUME NEW A, NEW a \in A, NEW b \in A PROVE <<a, b>> \in Seq(A)
  OBVIOUS
LEMMA ThreeIn ==
    ASSUME NEW A, NEW a \in A, NEW b \in A, NEW c \in A
    PROVE  <<a, b, c>> \in Seq(A)
  OBVIOUS
LEMMA FourIn ==
    ASSUME NEW A, NEW a \in A, NEW b \in A, NEW c \in A, NEW d \in A
    PROVE  <<a, b, c, d>> \in Seq(A)
  OBVIOUS

LEMMA YieldBatch ==
    /\ Yields(TRUE) = <<"pause", "route yielded", "release">>
    /\ Yields(FALSE) = <<"pause", "route yielded">>
    /\ <<>> \o Yields(TRUE) = Yields(TRUE) /\ <<>> \o Yields(FALSE) = Yields(FALSE)
    /\ \A b \in {Yields(TRUE), Yields(FALSE)} :
          Head(b) = "pause" /\ Tail(b) \in Draining /\ b # <<"release">>
    /\ TakesOver # <<"release">>
    /\ \A q \in Handed : q \o <<>> = q
<1>1. Yields(TRUE) = <<"pause", "route yielded", "release">>
  BY DEF Yields
<1>2. Yields(FALSE) = <<"pause", "route yielded">>
  BY DEF Yields
<1>3. TakesOver = <<"route own", "owns", "rest", "claim">>
  BY DEF TakesOver
<1> DEFINE A == {"pause", "route yielded", "release", "route own", "owns", "rest", "claim"}
<1>q. \A q \in Handed : q \in Seq(A)
  <2> HIDE DEF A
  <2>1. "pause" \in A /\ "route yielded" \in A /\ "release" \in A /\ "route own" \in A
        /\ "owns" \in A /\ "rest" \in A /\ "claim" \in A
    BY DEF A
  <2>2. Yields(TRUE) \in Seq(A)
    BY <1>1, <2>1, ThreeIn, Zenon
  <2>3. Yields(FALSE) \in Seq(A)
    BY <1>2, <2>1, TwoIn, Zenon
  <2>4. TakesOver \in Seq(A)
    BY <1>3, <2>1, FourIn, Zenon
  <2>5. <<>> \in Seq(A)
    OBVIOUS
  <2>6. QED
    BY <2>2, <2>3, <2>4, <2>5 DEF Handed
<1>4. <<>> \o Yields(TRUE) = Yields(TRUE) /\ <<>> \o Yields(FALSE) = Yields(FALSE)
  BY <1>q, ConcatEmptySeq DEF Handed
<1>a. Head(Yields(TRUE)) = "pause" /\ Tail(Yields(TRUE)) = <<"route yielded", "release">>
  <2>1. Head(Yields(TRUE)) = "pause"
    <3>1. Head(<<"pause", "route yielded", "release">>) = "pause"
      OBVIOUS
    <3>2. QED
      BY <1>1, <3>1, Zenon
  <2>2. Tail(Yields(TRUE)) = <<"route yielded", "release">>
    BY <1>1, Three, Zenon
  <2>3. QED
    BY <2>1, <2>2
<1>b. Head(Yields(FALSE)) = "pause" /\ Tail(Yields(FALSE)) = <<"route yielded">>
  BY <1>2, Two, Zenon
<1>c. Head(<<"release">>) = "release" /\ Head(TakesOver) = "route own"
  <2>1. Head(<<"release">>) = "release"
    BY One, Zenon
  <2>2. Head(TakesOver) = "route own"
    BY Four DEF TakesOver
  <2>3. QED
    BY <2>1, <2>2
<1>5. /\ Head(Yields(TRUE)) = "pause" /\ Tail(Yields(TRUE)) = <<"route yielded", "release">>
      /\ Head(Yields(FALSE)) = "pause" /\ Tail(Yields(FALSE)) = <<"route yielded">>
      /\ Head(<<"release">>) = "release" /\ Head(TakesOver) = "route own"
  BY <1>a, <1>b, <1>c
<1>6. \A b \in {Yields(TRUE), Yields(FALSE)} :
          Head(b) = "pause" /\ Tail(b) \in Draining /\ b # <<"release">>
  BY <1>5 DEF Draining
<1>7. TakesOver # <<"release">>
  BY <1>5
<1>8. \A q \in Handed : q \o <<>> = q
  BY <1>q, ConcatEmptySeq
<1>9. QED
  BY <1>1, <1>2, <1>4, <1>6, <1>7, <1>8

(* What a batch may begin with, and what is left when that has run. *)
LEMMA BatchHeads ==
    ASSUME NEW b \in Batches
    PROVE  /\ Head(b) \in {"pause", "route yielded", "release", "route own", "owns", "rest", "claim"}
           /\ Head(b) = "pause" => Tail(b) \in Draining
           /\ Head(b) = "route yielded" => b \in Draining
           /\ Head(b) = "release" => b = <<"release">> /\ Tail(b) = <<>>
           /\ Head(b) \in {"route own", "owns", "rest"} =>
                 Tail(b) \in {<<"owns", "rest", "claim">>, <<"rest", "claim">>, <<"claim">>}
           /\ Head(b) = "claim" => Tail(b) = <<>>
<1>1. CASE b \in {Yields(TRUE), Yields(FALSE)}
  BY <1>1, YieldBatch
<1>2. CASE b \in Draining
  <2>1. Head(<<"route yielded">>) = "route yielded"
        /\ Head(<<"route yielded", "release">>) = "route yielded"
    BY One, Two, Zenon
  <2>2. QED
    BY <1>2, <2>1 DEF Draining
<1>3. CASE b = TakesOver
  <2>1. Head(TakesOver) = "route own" /\ Tail(TakesOver) = <<"owns", "rest", "claim">>
    BY Four DEF TakesOver
  <2>2. QED
    BY <1>3, <2>1
<1>5. CASE b = <<"release">>
  <2>1. Head(b) = "release" /\ Tail(b) = <<>>
    BY <1>5, One, Zenon
  <2>2. QED
    BY <1>5, <2>1
<1>6. CASE b = <<"owns", "rest", "claim">>
  <2>1. Head(b) = "owns" /\ Tail(b) = <<"rest", "claim">>
    BY <1>6, Three, Zenon
  <2>2. QED
    BY <2>1
<1>7. CASE b = <<"rest", "claim">>
  <2>1. Head(b) = "rest" /\ Tail(b) = <<"claim">>
    BY <1>7, Two, Zenon
  <2>2. QED
    BY <2>1
<1>8. CASE b = <<"claim">>
  <2>1. Head(b) = "claim" /\ Tail(b) = <<>>
    BY <1>8, One, Zenon
  <2>2. QED
    BY <2>1
<1>4. QED
  BY <1>1, <1>2, <1>3, <1>5, <1>6, <1>7, <1>8 DEF Batches

LEMMA DrainLeft ==
    ASSUME NEW b \in Draining
    PROVE  Tail(b) \in {<<>>, <<"release">>} /\ Head(b) = "route yielded" /\ b # <<"release">>
<1>1. CASE b = <<"route yielded">>
  <2>1. Head(b) = "route yielded" /\ Tail(b) = <<>> /\ Head(<<"release">>) = "release"
    BY <1>1, One, Zenon
  <2>2. QED
    BY <2>1
<1>2. CASE b = <<"route yielded", "release">>
  <2>1. Head(b) = "route yielded" /\ Tail(b) = <<"release">> /\ Head(<<"release">>) = "release"
    BY <1>2, One, Two, Zenon
  <2>2. QED
    BY <2>1
<1>3. QED
  BY <1>1, <1>2 DEF Draining

LEMMA DownComes ==
    ASSUME EventsOK
    PROVE  /\ events' = Append(events, "up") => (Down' => Down)
           /\ events # <<>> /\ events' = Tail(events) => (Down' => Down)
<1>0. events \in Seq(LinkEvents)
  BY DEF EventsOK
<1>1. ASSUME events' = Append(events, "up"), Down'
      PROVE  Down
  <2>1. /\ DOMAIN events' = 1..Len(events) + 1 /\ Len(events) \in Nat
        /\ DOMAIN events = 1..Len(events)
        /\ \A i \in 1..Len(events) : events'[i] = events[i]
        /\ events'[Len(events) + 1] = "up"
    BY <1>0, <1>1 DEF LinkEvents
  <2>2. PICK i \in DOMAIN events' : events'[i] = "down"
    BY <1>1 DEF Down
  <2>3. i # Len(events) + 1
    BY <2>1, <2>2
  <2>4. i \in 1..Len(events)
    BY <2>1, <2>2, <2>3
  <2>5. QED
    BY <2>1, <2>2, <2>4 DEF Down
<1>2. ASSUME events # <<>>, events' = Tail(events), Down'
      PROVE  Down
  <2>1. /\ Len(events) \in Nat /\ Len(events) >= 1 /\ DOMAIN events = 1..Len(events)
        /\ DOMAIN events' = 1..Len(events) - 1
        /\ \A i \in 1..Len(events) - 1 : events'[i] = events[i + 1]
    BY <1>0, <1>2
  <2>2. PICK i \in DOMAIN events' : events'[i] = "down"
    BY <1>2 DEF Down
  <2>3. i + 1 \in DOMAIN events /\ events[i + 1] = "down"
    BY <2>1, <2>2
  <2>4. QED
    BY <2>3 DEF Down
<1>3. QED
  BY <1>1, <1>2

LEMMA AliveNext ==
    ASSUME EventsOK, AliveOK, [SessionNext]_svars
    PROVE  AliveOK'
<1> USE DEF bluezVars, ownerVars, flushVars, Decided, Around
<1>k. ASSUME UNCHANGED <<alive, events>>
      PROVE  AliveOK'
  BY <1>k DEF AliveOK, Down
<1>1. CASE Bluez
  <2>1. CASE LinkUp
    BY <2>1, DownComes DEF LinkUp, AliveOK
  <2>2. CASE LinkDown
    BY <2>2 DEF LinkDown, AliveOK
  <2>3. CASE CardAppears \/ CallCodec
    BY <2>3, <1>k DEF CardAppears, CallCodec
  <2>4. QED
    BY <1>1, <2>1, <2>2, <2>3 DEF Bluez
<1>2. CASE RouterTask \/ ClaimStep
  BY <1>2, <1>k DEF RouterTask, ClaimStep
<1>3. CASE Decides
  BY <1>3, <1>k DEF Decides, SmartRouting, Yield, TakeOver, OwnsConnection, SetHandoff
<1>4. CASE OnLink
  BY <1>4, DownComes DEF OnLink, AliveOK
<1>5. CASE Dial
  BY <1>5 DEF Dial, AliveOK, Down
<1>6. CASE LinkLost \/ \E b \in BOOLEAN : Opened(b)
  BY <1>6, <1>k DEF LinkLost, Opened
<1>7. CASE Flushes
  BY <1>7, <1>k DEF Flushes, Flush, PauseLocalPlayers, RouteOwn, DrainBegins, Drained, Settled,
                    ClaimAudio, Send, Runs
<1>8. CASE Terminate \/ (\E b \in BOOLEAN : Restored(b)) \/ Exited \/ UNCHANGED svars
  BY <1>8, <1>k DEF Terminate, Restored, Exited, svars
<1>9. QED
  BY <1>1, <1>2, <1>3, <1>4, <1>5, <1>6, <1>7, <1>8 DEF SessionNext, Links

LEMMA QueueNext ==
    ASSUME QueueOK, [SessionNext]_svars
    PROVE  QueueOK'
<1> USE DEF bluezVars, ownerVars, flushVars, Around
<1>e. <<>> \in Handed /\ Yields(TRUE) \in Handed /\ Yields(FALSE) \in Handed /\ TakesOver \in Handed
      /\ queue \o <<>> = queue
  BY YieldBatch DEF Handed, QueueOK
<1>k. ASSUME UNCHANGED <<queue, at, released>>
      PROVE  QueueOK'
  BY <1>k DEF QueueOK
<1>l. ASSUME queue' \in Handed, at' # "opening" \/ queue' = <<>>
      PROVE  QueueOK'
  BY <1>l DEF QueueOK
<1>1. CASE Bluez \/ RouterTask \/ ClaimStep
  BY <1>1, <1>k DEF Bluez, LinkUp, LinkDown, CardAppears, CallCodec, RouterTask, ClaimStep
<1>2. ASSUME NEW b \in BOOLEAN, NEW c \in BOOLEAN, OwnsConnection(b, c)
      PROVE  QueueOK'
  <2> DEFINE yields == ~b /\ enabled /\ ~c /\ ~released
  <2>1. /\ at' = at /\ released' = (released \/ yields)
        /\ queue' = queue \o (IF yields THEN Yields(FALSE) ELSE <<>>)
        /\ at = "opening" => c
        /\ at = "opening" \/ queue = <<>>
    BY <1>2 DEF OwnsConnection, Decided, Packet, Handles, InLoop
  <2>2. CASE yields
    <3>1. queue = <<>> /\ queue' = Yields(FALSE)
      BY <2>1, <2>2, YieldBatch
    <3>2. QED
      BY <2>1, <2>2, <3>1, <1>e, <1>l
  <2>3. CASE ~yields
    <3>1. queue' = queue /\ (released' <=> released)
      BY <2>1, <2>3, <1>e
    <3>2. QED
      BY <2>1, <3>1 DEF QueueOK
  <2>4. QED
    BY <2>2, <2>3
<1>3. CASE SmartRouting
  <2>1. /\ at' = at /\ released' = (released \/ enabled)
        /\ queue' = queue \o (IF enabled /\ ~released THEN Yields(TRUE) ELSE <<>>)
        /\ at = "opening" \/ queue = <<>>
    BY <1>3 DEF SmartRouting, Decided, Packet, Handles, InLoop
  <2>2. CASE enabled /\ ~released
    <3>1. queue = <<>> /\ queue' = Yields(TRUE)
      BY <2>1, <2>2, YieldBatch DEF QueueOK
    <3>2. QED
      BY <2>1, <2>2, <3>1, <1>e DEF QueueOK
  <2>3. CASE ~(enabled /\ ~released)
    <3>1. queue' = queue /\ (released => released') /\ (released' => released \/ enabled)
      BY <2>1, <2>3, <1>e
    <3>2. QED
      BY <2>1, <3>1 DEF QueueOK
  <2>4. QED
    BY <2>2, <2>3
<1>4. CASE Yield \/ TakeOver
  <2>1. at' = "loop" /\ queue' \in {Yields(TRUE), TakesOver}
    BY <1>4 DEF Yield, TakeOver, Decided, InLoop
  <2>2. QED
    BY <2>1, <1>e, <1>l
<1>5. ASSUME NEW b \in BOOLEAN, SetHandoff(b)
      PROVE  QueueOK'
  BY <1>5, <1>k DEF SetHandoff
<1>6. CASE OnLink
  <2>1. queue' = queue
    BY <1>6 DEF OnLink
  <2>2. UNCHANGED <<at, released>> \/ at' = "loop"
    BY <1>6 DEF OnLink
  <2>3. QED
    BY <2>1, <2>2, <1>k, <1>l DEF QueueOK
<1>7. CASE Dial \/ LinkLost \/ \E b \in BOOLEAN : Opened(b)
  <2>1. queue' = queue /\ (at' = "loop" \/ queue = <<>>)
    BY <1>7 DEF Dial, LinkLost, Opened, InLoop
  <2>2. QED
    BY <2>1, <1>l DEF QueueOK
<1>8. CASE Flush
  BY <1>8, <1>e, <1>l DEF Flush
<1>9. CASE PauseLocalPlayers \/ RouteOwn \/ DrainBegins \/ Drained \/ Settled \/ ClaimAudio
           \/ \E b \in BOOLEAN : Send(b)
  <2>1. queue' = queue /\ at' # "opening"
    BY <1>9 DEF PauseLocalPlayers, RouteOwn, DrainBegins, Drained, Settled, ClaimAudio, Send,
                Runs, Rest
  <2>2. QED
    BY <2>1, <1>l DEF QueueOK
<1>10. CASE Terminate \/ (\E b \in BOOLEAN : Restored(b)) \/ Exited \/ UNCHANGED svars
  BY <1>10, <1>k DEF Terminate, Restored, Exited, svars
<1>11. QED
  BY <1>1, <1>2, <1>3, <1>4, <1>5, <1>6, <1>7, <1>8, <1>9, <1>10
  DEF SessionNext, Decides, Links, Flushes

LEMMA BatchNext ==
    ASSUME QueueOK, BatchOK, [WatchNext]_wvars
    PROVE  BatchOK'
<1> USE DEF bluezVars, ownerVars, flushVars, Around
(* Outside a flush nothing is demanded of the batch. *)
<1>l. ASSUME at' \in {"loop", "opening"}
      PROVE  BatchOK'
  BY <1>l DEF BatchOK
<1>g. ASSUME does' \notin {"gave up waiting", "off"}, WatchNext
      PROVE  gave_up' = gave_up
  BY <1>g DEF WatchNext
<1>k. ASSUME UNCHANGED <<at, batch, mode>>, settled => settled',
             shut' # "done" => shut # "done" /\ gave_up' = gave_up
      PROVE  BatchOK'
  BY <1>k DEF BatchOK
(* One action of the batch has run. *)
<1>f. ASSUME NEW left, left \in Batches \ {<<"release">>} \/ left = <<>>, Rest(left)
      PROVE  BatchOK'
  BY <1>f DEF Rest, BatchOK
<1>1. CASE UNCHANGED wvars
  BY <1>1, <1>k DEF wvars, svars, routeVars, routerVars
<1> SUFFICES ASSUME WatchNext PROVE BatchOK'
  BY <1>1
<1>2. CASE Bluez \/ RouterTask \/ ClaimStep
  <2>1. UNCHANGED <<at, batch, mode>> /\ does' \in {"nothing", "claim"}
    BY <1>2 DEF Bluez, LinkUp, LinkDown, CardAppears, CallCodec, RouterTask, ClaimStep, RunsTask,
                routerVars, routeVars, Does
  <2>2. shut' = shut
    BY <1>2 DEF Bluez, LinkUp, LinkDown, CardAppears, CallCodec, RouterTask, ClaimStep
  <2>3. settled => settled'
    BY <1>2 DEF Bluez, LinkUp, LinkDown, CardAppears, CallCodec, RouterTask, ClaimStep, RunsTask,
                routerVars, routeVars, ReadCard, Switch, Switched, Retry, drive
  <2>4. QED
    BY <2>1, <2>2, <2>3, <1>g, <1>k
<1>3. CASE Decides \/ Links
  BY <1>3, <1>l DEF Decides, Links, OwnsConnection, SmartRouting, Yield, TakeOver, SetHandoff,
                    Decided, Packet, Handles, InLoop, OnLink, Dial, LinkLost, Opened
<1>4. CASE Flush
  <2>1. at' = "flush" /\ batch' \in Handed \ {<<>>}
    BY <1>4 DEF Flush, QueueOK
  <2>2. batch' \in Batches /\ batch' # <<"release">>
    BY <2>1, YieldBatch DEF Handed, Batches
  <2>3. QED
    BY <2>1, <2>2 DEF BatchOK
<1>5. CASE PauseLocalPlayers \/ RouteOwn \/ ClaimAudio \/ \E b \in BOOLEAN : Send(b)
  <2>1. /\ at = "flush" /\ Rest(Tail(batch))
        /\ Head(batch) \in {"pause", "route own", "claim", "release", "owns", "rest"}
    BY <1>5 DEF PauseLocalPlayers, RouteOwn, ClaimAudio, Send, Runs
  <2>2. batch \in Batches
    BY <2>1 DEF BatchOK
  <2>3. Tail(batch) \in Draining
        \/ Tail(batch) \in {<<"owns", "rest", "claim">>, <<"rest", "claim">>, <<"claim">>}
        \/ Tail(batch) = <<>>
    BY <2>1, <2>2, BatchHeads
  <2>4. Tail(batch) \in Batches \ {<<"release">>} \/ Tail(batch) = <<>>
    <3>1. CASE Tail(batch) \in Draining
      BY <3>1, DrainLeft DEF Batches
    <3>2. CASE Tail(batch) \in {<<"owns", "rest", "claim">>, <<"rest", "claim">>, <<"claim">>}
      <4>1. /\ Head(<<"owns", "rest", "claim">>) = "owns" /\ Head(<<"rest", "claim">>) = "rest"
            /\ Head(<<"claim">>) = "claim" /\ Head(<<"release">>) = "release"
        OBVIOUS
      <4>2. Tail(batch) # <<"release">>
        BY <3>2, <4>1
      <4>3. QED
        BY <3>2, <4>2 DEF Batches
    <3>3. QED
      BY <2>3, <3>1, <3>2
  <2>5. QED
    BY <2>1, <2>4, <1>f
<1>6. CASE DrainBegins
  <2>1. at = "flush" /\ Head(batch) = "route yielded" /\ batch' = batch /\ at' = "drain"
    BY <1>6 DEF DrainBegins, Runs
  <2>2. QED
    BY <2>1, BatchHeads DEF BatchOK
<1>7. CASE Drained
  <2>1. at = "drain" /\ batch' = batch /\ at' = "settle" /\ route("Yielded")
    BY <1>7 DEF Drained
  <2>2. mode' = "Yielded"
    BY <2>1 DEF route, set, routerVars
  <2>3. QED
    BY <2>1, <2>2 DEF BatchOK
<1>8. CASE Settled
  <2>1. /\ at = "settle" /\ Rest(Tail(batch)) /\ UNCHANGED <<mode, settled>>
        /\ does' = IF settled THEN "off" ELSE "gave up waiting"
    BY <1>8 DEF Settled, NoRoute, routeVars, routerVars, Does, wait_settled
  <2>2. batch \in Draining /\ mode = "Yielded"
    BY <2>1 DEF BatchOK
  <2>3. Tail(batch) \in {<<>>, <<"release">>}
    BY <2>2, DrainLeft
  <2>4. ~settled => gave_up'
    BY <2>1 DEF WatchNext
  <2>5. QED
    BY <2>1, <2>2, <2>3, <2>4 DEF Rest, BatchOK, Batches
<1>9. CASE Terminate \/ (\E b \in BOOLEAN : Restored(b)) \/ Exited
  <2>1. CASE Exited
    <3>1. shut' = "done" /\ UNCHANGED <<at, batch, mode, settled>>
      BY <2>1 DEF Exited, svars, routeVars, routerVars
    <3>2. QED
      BY <3>1, <1>k
  <2>2. CASE Terminate \/ \E b \in BOOLEAN : Restored(b)
    <3>1. /\ UNCHANGED <<at, batch, mode, settled>> /\ shut # "done"
          /\ does' \in {"exit", "restored", "not restored"}
      BY <2>2 DEF Terminate, Restored, restore_on_exit, NoRoute, routeVars, routerVars, Does
    <3>2. QED
      BY <3>1, <1>g, <1>k
  <2>3. QED
    BY <1>9, <2>1, <2>2
<1>10. QED
  BY <1>2, <1>3, <1>4, <1>5, <1>6, <1>7, <1>8, <1>9 DEF WatchNext, SessionNext, Flushes

LEMMA WaysInit == WatchInit => QueueOK /\ BatchOK /\ AliveOK
<1> SUFFICES ASSUME WatchInit PROVE QueueOK /\ BatchOK /\ AliveOK
  OBVIOUS
<1>1. queue = <<>> /\ at = "loop" /\ alive = FALSE
  BY DEF WatchInit, SessionInit
<1>2. QED
  BY <1>1 DEF QueueOK, BatchOK, AliveOK, Handed

(* Only a packet that went out says that it did. *)
LEMMA OnlySend ==
    ASSUME BatchOK, WatchNext, ~Exited, does' = "release"
    PROVE  /\ Session /\ at = "flush" /\ batch = <<"release">> /\ sock /\ alive
<1> USE DEF Does
<1>1. ~Bluez /\ ~RouterTask /\ ~ClaimStep
  BY DEF Bluez, LinkUp, LinkDown, CardAppears, CallCodec, RouterTask, ClaimStep, Around
<1>2. ~Decides
  BY DEF Decides, OwnsConnection, SmartRouting, Yield, TakeOver, SetHandoff, Decided
<1>3. ~Links
  BY DEF Links, OnLink, Dial, LinkLost, Opened
<1>4. ~Flush /\ ~PauseLocalPlayers /\ ~RouteOwn /\ ~DrainBegins /\ ~Drained /\ ~ClaimAudio
  BY DEF Flush, PauseLocalPlayers, RouteOwn, DrainBegins, Drained, ClaimAudio
<1>5. ~Settled
  BY DEF Settled
<1>6. ~Terminate /\ ~(\E b \in BOOLEAN : Restored(b))
  BY DEF Terminate, Restored
<1>8. \E b \in BOOLEAN : Send(b)
  BY <1>1, <1>2, <1>3, <1>4, <1>5, <1>6 DEF WatchNext, SessionNext, Flushes
<1>9. PICK b \in BOOLEAN : Send(b)
  BY <1>8
<1>10. b /\ Head(batch) = "release" /\ Session /\ at = "flush" /\ sock /\ alive
  BY <1>9 DEF Send, Runs
<1>11. batch \in Batches
  BY <1>10 DEF BatchOK
<1>12. QED
  BY <1>10, <1>11, BatchHeads

(* The release goes out behind the switch: when the AirPods are told that  *)
(* this host gives the audio up, the card is off or gone, or the yield     *)
(* gave up waiting for it (session.rs flush_handoff, yield_route).         *)
THEOREM OffBeforeRelease == WatchSpec => ReleaseAfterOff
<1> DEFINE I == CardOK /\ EventsOK /\ SwitchInv /\ QueueOK /\ BatchOK /\ AliveOK
           A == does' = "release" => card \in {"off", NoCard} \/ gave_up
<1>1. WatchInit => I
  BY SwitchInit, WaysInit DEF WatchInit
<1>2. ASSUME I, [WatchNext]_wvars
      PROVE  I'
  <2>1. [SessionNext]_svars
    BY <1>2 DEF WatchNext, wvars
  <2>2. QED
    BY <1>2, <2>1, RouteNext, QueueNext, BatchNext, AliveNext
<1>3. ASSUME I, [WatchNext]_wvars
      PROVE  [A]_wvars
  <2> SUFFICES ASSUME WatchNext, does' = "release", ~UNCHANGED wvars
               PROVE  card \in {"off", NoCard} \/ gave_up
    BY <1>3
  <2>1. ~Exited
    <3> SUFFICES ASSUME Exited PROVE UNCHANGED wvars
      OBVIOUS
    <3>1. UNCHANGED svars /\ does' = does
      BY DEF Exited, svars
    <3>2. gave_up' = gave_up
      BY DEF WatchNext
    <3>3. QED
      BY <3>1, <3>2 DEF wvars
  <2>2. at = "flush" /\ batch = <<"release">> /\ alive /\ shut # "done"
    BY <1>3, <2>1, OnlySend DEF Session
  <2>3. ~Down
    BY <1>3, <2>2 DEF AliveOK
  <2>4. gave_up \/ (mode = "Yielded" /\ settled)
    BY <1>3, <2>2 DEF BatchOK
  <2>5. settled /\ mode = "Yielded" => card = "off"
    BY <1>3, <2>2, <2>3 DEF SwitchInv, LandedInv
  <2>6. QED
    BY <2>4, <2>5
<1>4. WatchSpec => [][A]_wvars
  BY <1>1, <1>2, <1>3, PTL DEF WatchSpec
<1>5. QED
  BY <1>4 DEF ReleaseAfterOff

(* At most one task of the router, after the exit too: what the shutdown   *)
(* path leaves running is what ran before it.                              *)
OneTask == tasks = {} \/ \E t : tasks = {t}

LEMMA OneTaskStep ==
    ASSUME SwitchInv, SwitchInv', OneTask, [SessionNext]_svars
    PROVE  OneTask'
<1>1. CASE shut' # "done"
  BY <1>1 DEF SwitchInv, TaskInv, OneTask
<1>2. CASE tasks' = tasks
  BY <1>2 DEF OneTask
<1>3. CASE shut' = "done" /\ ~UNCHANGED svars
  <2>1. CASE shut # "done" /\ (Bluez \/ RouterTask \/ ClaimStep)
    BY <1>3, <2>1 DEF Bluez, LinkUp, LinkDown, CardAppears, CallCodec, RouterTask, ClaimStep, Around
  <2>2. CASE Decides \/ Links \/ Flushes
    BY <1>3, <2>2 DEF Decides, Links, Flushes, SmartRouting, Yield, TakeOver, OwnsConnection, SetHandoff,
           Packet, OnLink, Dial, LinkLost, Opened, Flush, PauseLocalPlayers, RouteOwn, DrainBegins,
           Drained, Settled, ClaimAudio, Send, Runs, Session
  <2>3. CASE Terminate
    BY <1>2, <2>3 DEF Terminate, NoRoute, routeVars, routerVars
  <2>4. CASE \E b \in BOOLEAN : Restored(b)
    BY <1>2, <2>4 DEF Restored, restore_on_exit
  <2>5. CASE Exited
    BY <1>3, <2>5 DEF Exited
  <2> QED BY <1>3, <2>1, <2>2, <2>3, <2>4, <2>5 DEF SessionNext
<1>4. CASE UNCHANGED svars
  BY <1>2, <1>4 DEF svars, routeVars, routerVars
<1> QED BY <1>1, <1>3, <1>4

(* The types of the router's and the supervisor's state, for any set of    *)
(* A2DP profiles and any number of retries: the card is on a profile it    *)
(* can have, one task runs at most, and a flush that is under way has      *)
(* something left to do.                                                   *)
THEOREM RouteTypeCorrect == WatchSpec => []RouteTypeOK
<1> DEFINE I == CardOK /\ EventsOK /\ SwitchInv /\ QueueOK /\ BatchOK /\ AliveOK /\ OneTask
<1>1. WatchInit => I
  BY SwitchInit, WaysInit DEF WatchInit, SessionInit, RouteInit, OneTask
<1>2. ASSUME I, [WatchNext]_wvars
      PROVE  I'
  <2>1. [SessionNext]_svars
    BY <1>2 DEF WatchNext, wvars
  <2>2. CardOK' /\ EventsOK' /\ SwitchInv'
    BY <1>2, <2>1, RouteNext
  <2> QED BY <1>2, <2>1, <2>2, QueueNext, BatchNext, AliveNext, OneTaskStep
<1>3. ASSUME I
      PROVE  RouteTypeOK
  <2>1. Cardinality(tasks) <= 1
    <3>1. CASE tasks = {}
      BY <3>1, FS_EmptySet
    <3>2. CASE \E t : tasks = {t}
      <4>1. PICK t : tasks = {t}
        BY <3>2
      <4>2. Cardinality({t}) = 1
        BY FS_Singleton
      <4> QED BY <4>1, <4>2
    <3> QED BY <1>3, <3>1, <3>2 DEF OneTask
  <2>2. at = "flush" => batch # <<>>
    <3>1. <<>> \notin Batches
      BY DEF Batches, Draining, Yields, TakesOver
    <3> QED BY <1>3, <3>1 DEF BatchOK
  <2>3. at \in {"loop", "opening", "flush", "drain", "settle"}
    BY <1>3 DEF BatchOK
  <2> QED BY <1>3, <2>1, <2>2, <2>3 DEF CardOK, RouteTypeOK
<1> QED BY <1>1, <1>2, <1>3, PTL DEF WatchSpec

----------------------------------------------------------------------------
(* Inductive: a claim that is still its epoch's runs for an owner.         *)
Claims == [mine : BOOLEAN, stage : {"check", "call"}, waits : Nat]
ClaimInv == claims \subseteq Claims /\ \A c \in claims : c.mine => owns_audio

(* Whoever takes the audio away ends the claims in flight. *)
LEMMA ClaimsLost ==
    ASSUME ClaimInv, LosesClaims
    PROVE  ClaimInv'
<1>1. CASE owner' = "Local" /\ ~released'
  BY <1>1 DEF ClaimInv, LosesClaims, owns_audio
<1>2. CASE ~(owner' = "Local" /\ ~released')
  <2>1. claims' = {[c EXCEPT !.mine = FALSE] : c \in claims}
    BY <1>2 DEF LosesClaims
  <2>2. \A c \in Claims : [c EXCEPT !.mine = FALSE] \in Claims /\ ~[c EXCEPT !.mine = FALSE].mine
    BY DEF Claims
  <2>3. QED
    BY <2>1, <2>2 DEF ClaimInv
<1>3. QED
  BY <1>1, <1>2

LEMMA ClaimNext ==
    ASSUME ClaimInv, [SessionNext]_svars
    PROVE  ClaimInv'
<1> USE DEF ownerVars, flushVars
<1>k. ASSUME UNCHANGED <<owner, released, claims>>
      PROVE  ClaimInv'
  BY <1>k DEF ClaimInv, owns_audio
<1>l. ASSUME LosesClaims \/ UNCHANGED <<owner, released, claims>>
      PROVE  ClaimInv'
  BY <1>k, <1>l, ClaimsLost
<1>1. CASE Bluez \/ RouterTask
  BY <1>1, <1>k DEF Bluez, LinkUp, LinkDown, CardAppears, CallCodec, RouterTask, Around
<1>2. CASE Decides
  BY <1>2, <1>l DEF Decides, OwnsConnection, SmartRouting, Yield, TakeOver, SetHandoff
<1>3. CASE Links
  BY <1>3, <1>l DEF Links, OnLink, Dial, LinkLost, Opened, drop_socket
<1>4. CASE Flush \/ PauseLocalPlayers \/ RouteOwn \/ DrainBegins \/ Drained \/ Settled
           \/ \E b \in BOOLEAN : Send(b)
  BY <1>4, <1>l DEF Flush, PauseLocalPlayers, RouteOwn, DrainBegins, Drained, Settled, Send,
                    drop_socket
<1>5. CASE Terminate \/ (\E b \in BOOLEAN : Restored(b)) \/ Exited \/ UNCHANGED svars
  BY <1>5, <1>k DEF Terminate, Restored, Exited, svars
<1>6. CASE ClaimAudio
  <2>1. UNCHANGED <<owner, released>>
    BY <1>6 DEF ClaimAudio
  <2>2. CASE ~owns_audio
    BY <1>6, <2>1, <2>2, <1>k DEF ClaimAudio
  <2>3. CASE owns_audio
    <3>1. claims' = {[c EXCEPT !.mine = FALSE] : c \in claims}
                       \cup {[mine |-> TRUE, stage |-> "check", waits |-> BusyRetries]}
      BY <1>6, <2>3 DEF ClaimAudio
    <3>2. \A c \in Claims : [c EXCEPT !.mine = FALSE] \in Claims
      BY DEF Claims
    <3>3. [mine |-> TRUE, stage |-> "check", waits |-> BusyRetries] \in Claims
      BY SessionAssumption DEF Claims
    <3>4. owns_audio'
      BY <2>1, <2>3 DEF owns_audio
    <3>5. QED
      BY <3>1, <3>2, <3>3, <3>4 DEF ClaimInv
  <2>4. QED
    BY <2>2, <2>3
<1>7. CASE ClaimStep
  <2>1. UNCHANGED <<owner, released>>
    BY <1>7 DEF ClaimStep
  <2>2. PICK c \in claims :
           \/ claims' = (claims \ {c}) \cup (IF c.mine THEN {[c EXCEPT !.stage = "call"]} ELSE {})
           \/ claims' = claims \ {c}
           \/ c.waits > 0
              /\ claims' = (claims \ {c}) \cup {[c EXCEPT !.stage = "check", !.waits = @ - 1]}
    BY <1>7 DEF ClaimStep, Claim
  <2>3. [c EXCEPT !.stage = "call"] \in Claims /\ [c EXCEPT !.stage = "call"].mine = c.mine
    BY <2>2 DEF ClaimInv, Claims
  <2>4. c.waits > 0 =>
           /\ [c EXCEPT !.stage = "check", !.waits = @ - 1] \in Claims
           /\ [c EXCEPT !.stage = "check", !.waits = @ - 1].mine = c.mine
    <3>1. c \in Claims /\ c.waits \in Nat
      BY <2>2 DEF ClaimInv, Claims
    <3>2. c.waits > 0 => c.waits - 1 \in Nat
      BY <3>1
    <3>3. QED
      BY <3>1, <3>2 DEF Claims
  <2>5. claims' \subseteq Claims /\ \A d \in claims' : d.mine => \E e \in claims : e.mine
    BY <2>2, <2>3, <2>4 DEF ClaimInv
  <2>6. QED
    BY <2>1, <2>5 DEF ClaimInv, owns_audio
<1>8. QED
  BY <1>1, <1>2, <1>3, <1>4, <1>5, <1>6, <1>7 DEF SessionNext, Flushes

LEMMA OnlyClaims ==
    ASSUME ClaimInv, WatchNext, ~Exited, does' = "claim"
    PROVE  owns_audio
<1> USE DEF Does
<1>1. ~Bluez /\ ~RouterTask
  BY DEF Bluez, LinkUp, LinkDown, CardAppears, CallCodec, RouterTask, Around
<1>2. ~Decides
  BY DEF Decides, OwnsConnection, SmartRouting, Yield, TakeOver, SetHandoff, Decided
<1>3. ~Links
  BY DEF Links, OnLink, Dial, LinkLost, Opened
<1>4. ~Flush /\ ~PauseLocalPlayers /\ ~RouteOwn /\ ~DrainBegins /\ ~Drained /\ ~ClaimAudio
  BY DEF Flush, PauseLocalPlayers, RouteOwn, DrainBegins, Drained, ClaimAudio
<1>5. ~Settled /\ ~(\E b \in BOOLEAN : Send(b))
  BY DEF Settled, Send, Runs
<1>6. ~Terminate /\ ~(\E b \in BOOLEAN : Restored(b))
  BY DEF Terminate, Restored
<1>7. ClaimStep
  BY <1>1, <1>2, <1>3, <1>4, <1>5, <1>6 DEF WatchNext, SessionNext, Flushes
<1>8. \E c \in claims : c.mine
  BY <1>7 DEF ClaimStep, Claim
<1>9. QED
  BY <1>8 DEF ClaimInv

(* A2DP is connected for a take-over only while this host owns the audio,  *)
(* however long the busy retries of spawn_audio_claim take.                *)
THEOREM ClaimsEnd == WatchSpec => ClaimWhileOwner
<1> DEFINE A == does' = "claim" => owns_audio
<1>1. WatchInit => ClaimInv
  BY DEF WatchInit, SessionInit, ClaimInv
<1>2. ASSUME ClaimInv, [WatchNext]_wvars
      PROVE  ClaimInv'
  <2>1. [SessionNext]_svars
    BY <1>2 DEF WatchNext, wvars
  <2>2. QED
    BY <1>2, <2>1, ClaimNext
<1>3. ASSUME ClaimInv, [WatchNext]_wvars
      PROVE  [A]_wvars
  <2> SUFFICES ASSUME WatchNext, does' = "claim", ~UNCHANGED wvars
               PROVE  owns_audio
    BY <1>3
  <2>1. ~Exited
    <3> SUFFICES ASSUME Exited PROVE UNCHANGED wvars
      OBVIOUS
    <3>1. UNCHANGED svars /\ does' = does
      BY DEF Exited, svars
    <3>2. gave_up' = gave_up
      BY DEF WatchNext
    <3>3. QED
      BY <3>1, <3>2 DEF wvars
  <2>2. QED
    BY <1>3, <2>1, OnlyClaims
<1>4. WatchSpec => [][A]_wvars
  BY <1>1, <1>2, <1>3, PTL DEF WatchSpec
<1>5. QED
  BY <1>4 DEF ClaimWhileOwner

----------------------------------------------------------------------------
(***************************************************************************)
(* Ear detection.  What was paused by the ear, what was heard of the       *)
(* players and what is still to be sent to them.                           *)
(***************************************************************************)
Heard == Players \cup {NoPlayer}
Counts == {None, 0, 1, 2}
Pendings == [count : Counts, age : Nat]
Pauses == [count : Counts, age : Nat, player : Heard, confirming : BOOLEAN]
Commands == [act : {"PausePlaying", "Play"}, player : Heard]
PlayerOK ==
    /\ status \in [Players -> {"Playing", "Paused", "Stopped"}]
    /\ player \in Heard /\ playing \in {"unknown", "yes", "no"}
    /\ readings \in Seq(Heard) /\ last \in Heard \cup {NoReading}
    /\ commands \in Seq(Commands)
    /\ ear_settled \in Counts /\ pending \in Pendings /\ paused \in Pauses
    /\ pause \in [age : Nat, lost : Counts] /\ raced \in BOOLEAN

(* What is remembered of a pause is what it was. *)
AgeInv == paused # NotPaused => paused.count = pause.lost /\ paused.age = pause.age

(* What the session heard last is what the MPRIS task sent last. *)
HeardInv ==
    last # NoReading =>
        IF readings # <<>> THEN readings[Len(readings)] = last
        ELSE playing = "yes" => player = last /\ last # NoPlayer

(* A player that is to be started is one auris paused, if it is paused.    *)
Ours(p) == p \in Players /\ (status[p] = "Paused" => p \in ours)
CommandInv ==
    \A i \in DOMAIN commands :
        \/ commands[i] = PausePlaying
        \/ paused = NotPaused /\ \E p \in Players : commands[i] = Play(p) /\ Ours(p)

(* While a pause is remembered: until our own stop is heard, nothing else  *)
(* is on its way; after it, whatever plays ends the pause.                 *)
Confirming ==
    /\ playing # "no"
    /\ \A i \in DOMAIN readings : readings[i] = NoPlayer
    /\ readings = <<>> => last # NoPlayer
    /\ PlayingNow # {} => commands # <<>> /\ readings = <<>> /\ last = read
Confirmed == playing # "yes" /\ (readings = <<>> => last \in {NoPlayer, NoReading})
OwnInv ==
    paused # NotPaused =>
        /\ Ours(paused.player)
        /\ paused.confirming => Confirming
        /\ ~paused.confirming => Confirmed

(* A command goes to the end of its queue, or is refused. *)
LEMMA Sent ==
    ASSUME commands \in Seq(Commands), NEW c \in Commands, try_send(c)
    PROVE  /\ commands' = commands \/ commands' = Append(commands, c)
           /\ commands' \in Seq(Commands)
           /\ commands = <<>> => commands' = <<c>>
           /\ commands # <<>> => commands' # <<>>
           /\ \A i \in DOMAIN commands' :
                 commands'[i] = c \/ (i \in DOMAIN commands /\ commands'[i] = commands[i])
<1>1. commands' = commands \/ commands' = Append(commands, c)
  BY DEF try_send
<1>2. commands = <<>> => commands' = <<c>>
  BY EarAssumption DEF try_send
<1>3. CASE commands' = Append(commands, c)
  <2>1. /\ DOMAIN commands' = 1..Len(commands) + 1 /\ Len(commands) \in Nat
        /\ DOMAIN commands = 1..Len(commands) /\ commands' \in Seq(Commands)
        /\ \A i \in 1..Len(commands) : commands'[i] = commands[i]
        /\ commands'[Len(commands) + 1] = c
    BY <1>3
  <2>2. commands' # <<>>
    BY <1>3
  <2>3. QED
    BY <1>1, <1>2, <2>1, <2>2
<1>4. QED
  BY <1>1, <1>2, <1>3

(* What decide makes of a settled count: nothing, a pause or a resume. *)
EarMoves ==
    \/ paused' \in {paused, NotPaused} /\ commands' = commands /\ ear_does' = Nothing
    \/ /\ playing = "yes" /\ ear_does' = PausePlaying /\ ear_settled # None
       /\ paused' = [count |-> ear_settled, age |-> 0, player |-> player, confirming |-> TRUE]
       /\ try_send(PausePlaying)
    \/ /\ paused # NotPaused /\ paused.age < RESUME_WINDOW /\ ear_settled' >= paused.count
       /\ paused' = NotPaused /\ paused.player # NoPlayer
       /\ try_send(Play(paused.player)) /\ ear_does' = Play(paused.player)

LEMMA TickMoves ==
    ASSUME PlayerOK, NEW found \in Pendings, tick(found)
    PROVE  EarMoves /\ ear_settled' \in Counts /\ pending' \in Pendings
<1> DEFINE left == IF paused.age >= RESUME_WINDOW THEN NotPaused ELSE paused
<1>1. paused \in Pauses /\ ear_settled \in Counts /\ NoPending \in Pendings
  BY DEF PlayerOK, NoPending, Pendings, Counts
<1>2. RESUME_WINDOW \in Nat
  BY EarAssumption
<1>3. left \in {paused, NotPaused}
      /\ (left # NotPaused => left = paused /\ paused.age < RESUME_WINDOW)
  BY <1>1, <1>2 DEF Pauses
<1> HIDE DEF left
<1>4. CASE found = NoPending \/ found.age < SETTLE
  BY <1>1, <1>3, <1>4 DEF tick, left, EarMoves
<1>5. CASE ~(found = NoPending \/ found.age < SETTLE)
  <2>1. pending' = NoPending /\ ear_settled' = found.count /\ found.count \in Counts
    BY <1>5 DEF tick, Pendings
  <2>2. CASE ear_settled = None
    BY <1>1, <1>3, <1>5, <2>1, <2>2 DEF tick, left, EarMoves
  <2>3. CASE ear_settled # None /\ removed(found.count, left)
    BY <1>1, <1>3, <2>1, <2>3 DEF removed, EarMoves
  <2>4. CASE ear_settled # None /\ returned(found.count, left)
    <3>1. CASE left = NotPaused \/ found.count < left.count
      BY <1>1, <1>3, <2>1, <2>4, <3>1 DEF returned, EarMoves
    <3>2. CASE ~(left = NotPaused \/ found.count < left.count)
      <4>1. left = paused /\ paused # NotPaused /\ paused.age < RESUME_WINDOW
        BY <1>3, <3>2
      <4>2. found.count >= paused.count
        BY <1>1, <2>1, <3>2, <4>1 DEF Pauses, Counts, None
      <4>3. QED
        BY <1>1, <2>1, <2>4, <3>2, <4>1, <4>2 DEF returned, EarMoves
    <3>3. QED
      BY <3>1, <3>2
  <2>5. QED
    BY <1>5, <2>2, <2>3, <2>4 DEF tick, left
<1>6. QED
  BY <1>4, <1>5

LEMMA EarStep ==
    ASSUME PlayerOK, Tick \/ \E count \in {0, 1, 2, Unknown} : Ear(count)
    PROVE  /\ EarMoves /\ ear_settled' \in Counts /\ pending' \in Pendings
           /\ UNCHANGED <<playing, player, status, last, readings>>
<1>1. CASE Tick
  BY <1>1, TickMoves DEF Tick, PlayerOK
<1>2. ASSUME NEW count \in {0, 1, 2, Unknown}, Ear(count)
      PROVE  /\ EarMoves /\ ear_settled' \in Counts /\ pending' \in Pendings
             /\ UNCHANGED <<playing, player>>
  <2>1. CASE count = Unknown
    BY <1>2, <2>1 DEF Ear, EarMoves, earVars, PlayerOK
  <2>2. CASE count # Unknown /\ ear_settled = count
    BY <1>2, <2>2 DEF Ear, EarMoves, PlayerOK, NoPending, Pendings, Counts
  <2>3. CASE count # Unknown /\ ear_settled # count
    <3>1. Noticed(count) \in Pendings
      BY <1>2, <2>3 DEF Noticed, Pendings, Counts, PlayerOK, Unknown
    <3>2. tick(Noticed(count)) /\ UNCHANGED <<playing, player>>
      BY <1>2, <2>3 DEF Ear
    <3>3. QED
      BY <3>1, <3>2, TickMoves
  <2>4. QED
    BY <2>1, <2>2, <2>3
<1>3. QED
  BY <1>1, <1>2 DEF Ear, Tick

(* The history: which steps take a player into ours and out of it. *)
LEMMA History ==
    ASSUME EarWatchNext
    PROVE  /\ ear_does'.act = "paused" => ours' = ours \cup (PlayingNow \ PlayingNow')
           /\ ear_does'.act \in {"user", "played"} => ours' = ours \ {ear_does'.player}
           /\ ear_does'.act \notin {"paused", "user", "played"} => ours' = ours
           /\ ear_does' = PausePlaying => pause' = [age |-> 0, lost |-> ear_settled]
           /\ ear_does' # PausePlaying /\ paused'.age > paused.age =>
                 pause' = [pause EXCEPT !.age = Up(@, RESUME_WINDOW)]
           /\ ear_does' # PausePlaying /\ ~(paused'.age > paused.age) => pause' = pause
           /\ ~raced' => ~EarRace /\ (ear_does' = PausePlaying \/ ~raced)
  BY DEF EarWatchNext

(* A command that has run is not one that was asked for. *)
LEMMA Ran ==
    ASSUME PlayerOK, RunCommand
    PROVE  /\ Head(commands) \in Commands /\ commands # <<>> /\ commands' \in Seq(Commands)
           /\ status' \in [Players -> {"Playing", "Paused", "Stopped"}]
           /\ \/ /\ Head(commands).act = "PausePlaying" /\ ear_does'.act = "paused"
                 /\ \A p \in Players : status'[p] = status[p] \/ p \in PlayingNow \ PlayingNow'
              \/ /\ Head(commands).act = "Play" /\ status[Head(commands).player] = "Paused"
                 /\ ear_does'.act = "played" /\ ear_does'.player = Head(commands).player
                 /\ status' = [status EXCEPT ![Head(commands).player] = "Playing"]
              \/ /\ Head(commands).act = "Play" /\ status' = status /\ ear_does' = Nothing
<1> DEFINE c == Head(commands)
<1>1. commands # <<>> /\ commands' = Tail(commands) /\ commands \in Seq(Commands)
  BY DEF RunCommand, PlayerOK
<1>2. c \in Commands /\ commands' \in Seq(Commands)
  BY <1>1
<1>3. /\ [c EXCEPT !.act = "paused"].act = "paused" /\ [c EXCEPT !.act = "played"].act = "played"
      /\ [c EXCEPT !.act = "played"].player = c.player
  BY <1>2 DEF Commands
<1>4. status \in [Players -> {"Playing", "Paused", "Stopped"}]
  BY DEF PlayerOK
<1>5. ASSUME NEW failed \in SUBSET PlayingNow,
             status' = [p \in Players |-> IF p \in PlayingNow \ failed THEN "Paused" ELSE status[p]]
      PROVE  /\ status' \in [Players -> {"Playing", "Paused", "Stopped"}]
             /\ \A p \in Players : status'[p] = status[p] \/ p \in PlayingNow \ PlayingNow'
  BY <1>4, <1>5 DEF PlayingNow
<1>6. \/ /\ c.act = "PausePlaying" /\ ear_does' = [c EXCEPT !.act = "paused"]
         /\ \E failed \in SUBSET PlayingNow :
               status' = [p \in Players |-> IF p \in PlayingNow \ failed THEN "Paused" ELSE status[p]]
      \/ /\ c.act = "Play" /\ status[c.player] = "Paused"
         /\ status' = [status EXCEPT ![c.player] = "Playing"]
         /\ ear_does' = [c EXCEPT !.act = "played"]
      \/ c.act = "Play" /\ status' = status /\ ear_does' = Nothing
  BY DEF RunCommand, play_player
<1>7. QED
  BY <1>1, <1>2, <1>3, <1>4, <1>5, <1>6

LEMMA ReadIs ==
    /\ read \in Heard
    /\ PlayingNow = {} => read = NoPlayer
    /\ PlayingNow # {} => read \in PlayingNow /\ read # NoPlayer
<1>1. PlayingNow \subseteq Players
  BY DEF PlayingNow
<1>2. PlayingNow # {} => (CHOOSE p \in PlayingNow : TRUE) \in PlayingNow
  BY Zenon
<1>3. QED
  BY <1>1, <1>2, EarAssumption DEF read, Heard

(* What neither decides nor runs a command. *)
LEMMA OtherSteps ==
    ASSUME SendReading \/ BusLost \/ OnPlayback \/ LinkOpens \/ LinkClosed \/ AudioMoves \/ Pass
    PROVE  ear_does' = Nothing \/ ear_does'.act = "bus lost"
<1>1. CASE BusLost
  <2>1. ear_does' = [act |-> "bus lost", player |-> NoPlayer]
    BY <1>1 DEF BusLost
  <2>2. QED
    BY <2>1
<1>2. CASE ~BusLost
  BY <1>2 DEF SendReading, OnPlayback, LinkOpens, LinkClosed, AudioMoves, Pass
<1>3. QED
  BY <1>1, <1>2

LEMMA PlayerNext ==
    ASSUME PlayerOK, [EarWatchNext]_earWatchVars
    PROVE  PlayerOK'
<1> USE DEF earVars, mprisVars
<1>c. PausePlaying \in Commands /\ (\A p \in Heard : Play(p) \in Commands)
      /\ NotPaused \in Pauses
  BY DEF PausePlaying, Play, Commands, NotPaused, Pauses, Heard, Counts

<1>1. CASE UNCHANGED earWatchVars
  BY <1>1 DEF earWatchVars, evars, PlayerOK
<1> SUFFICES ASSUME EarWatchNext PROVE PlayerOK'
  BY <1>1
<1>h. pause' \in [age : Nat, lost : Counts] /\ raced' \in BOOLEAN
  <2>1. pause \in [age : Nat, lost : Counts] /\ ear_settled \in Counts
    BY DEF PlayerOK
  <2>2. Up(pause.age, RESUME_WINDOW) \in Nat
    BY <2>1 DEF Up
  <2>3. \/ pause' = [age |-> 0, lost |-> ear_settled]
        \/ pause' = [pause EXCEPT !.age = Up(@, RESUME_WINDOW)]
        \/ pause' = pause
    BY DEF EarWatchNext
  <2>4. [age |-> 0, lost |-> ear_settled] \in [age : Nat, lost : Counts]
    BY <2>1
  <2>5. [pause EXCEPT !.age = Up(@, RESUME_WINDOW)] \in [age : Nat, lost : Counts]
    BY <2>1, <2>2
  <2>6. raced' \in BOOLEAN
    BY Zenon DEF EarWatchNext
  <2>7. QED
    BY <2>1, <2>3, <2>4, <2>5, <2>6
<1>2. CASE SendReading
  <2>1. readings' \in Seq(Heard) /\ last' \in Heard
    BY <1>2, ReadIs DEF SendReading, PlayerOK
  <2>2. QED
    BY <1>2, <1>h, <2>1 DEF SendReading, PlayerOK
<1>3. CASE RunCommand
  <2>1. UNCHANGED <<earVars, last, readings>>
    BY <1>3 DEF RunCommand
  <2>2. status' \in [Players -> {"Playing", "Paused", "Stopped"}] /\ commands' \in Seq(Commands)
    BY <1>3, Ran
  <2>3. QED
    BY <1>h, <2>1, <2>2 DEF PlayerOK
<1>4. CASE BusLost
  <2>1. commands' = <<>> /\ last' = NoReading
    BY <1>4 DEF BusLost
  <2>2. commands' \in Seq(Commands) /\ last' \in Heard \cup {NoReading}
    BY <2>1
  <2>3. QED
    BY <1>4, <1>h, <2>2 DEF BusLost, PlayerOK
<1>5. CASE \E p \in Players, s \in {"Playing", "Paused", "Stopped"} : UserSets(p, s)
  <2>1. status' \in [Players -> {"Playing", "Paused", "Stopped"}]
    BY <1>5 DEF UserSets, PlayerOK
  <2>2. UNCHANGED <<earVars, last, readings, commands>>
    BY <1>5 DEF UserSets
  <2>3. QED
    BY <1>h, <2>1, <2>2 DEF PlayerOK
<1>6. CASE Tick \/ \E count \in {0, 1, 2, Unknown} : Ear(count)
  <2>1. /\ EarMoves /\ ear_settled' \in Counts /\ pending' \in Pendings
        /\ UNCHANGED <<playing, player, status, last, readings>>
    BY <1>6, EarStep
  <2>2. paused' \in Pauses
    <3>1. paused \in Pauses /\ NotPaused \in Pauses
      BY <1>c DEF PlayerOK
    <3>2. [count |-> ear_settled, age |-> 0, player |-> player, confirming |-> TRUE] \in Pauses
      BY DEF PlayerOK, Pauses
    <3>3. QED
      BY <2>1, <3>1, <3>2 DEF EarMoves
  <2>3. commands' \in Seq(Commands)
    <3>1. paused.player \in Heard /\ commands \in Seq(Commands)
      BY DEF PlayerOK, Pauses
    <3>2. commands' = commands \/ try_send(PausePlaying) \/ try_send(Play(paused.player))
      BY <2>1 DEF EarMoves
    <3>3. QED
      BY <3>1, <3>2, <1>c, Sent
  <2>4. QED
    BY <1>h, <2>1, <2>2, <2>3 DEF PlayerOK
<1>7. CASE OnPlayback
  <2>1. readings' \in Seq(Heard) /\ Head(readings) \in Heard
    <3>1. readings # <<>> /\ readings' = Tail(readings) /\ readings \in Seq(Heard)
      BY <1>7 DEF OnPlayback, PlayerOK
    <3>2. QED
      BY <3>1
  <2>2. player' \in Heard /\ playing' \in {"unknown", "yes", "no"}
    <3>1. player' \in {Head(readings), player} /\ playing' \in {"yes", "no"}
      BY <1>7 DEF OnPlayback
    <3>2. QED
      BY <2>1, <3>1 DEF PlayerOK
  <2>3. paused' \in {paused, NotPaused, [paused EXCEPT !.confirming = FALSE]}
    BY <1>7 DEF OnPlayback, playback
  <2>4. paused' \in Pauses
    <3>1. paused \in Pauses /\ NotPaused \in Pauses
      BY <1>c DEF PlayerOK
    <3>2. [paused EXCEPT !.confirming = FALSE] \in Pauses
      BY <3>1 DEF Pauses
    <3>3. QED
      BY <2>3, <3>1, <3>2
  <2>5. QED
    BY <1>7, <1>h, <2>1, <2>2, <2>4 DEF OnPlayback, PlayerOK
<1>8. CASE LinkOpens \/ LinkClosed
  BY <1>8, <1>h DEF LinkOpens, LinkClosed, PlayerOK, NoPending, Pendings, Counts
<1>9. CASE AudioMoves
  <2>1. commands' = commands \/ try_send(PausePlaying)
    BY <1>9 DEF AudioMoves
  <2>2. commands' \in Seq(Commands)
    BY <2>1, <1>c, Sent DEF PlayerOK
  <2>3. QED
    BY <1>9, <1>h, <2>2 DEF AudioMoves, PlayerOK
<1>10. CASE Pass
  <2> DEFINE a == IF pending = NoPending THEN 0 ELSE Up(pending.age, SETTLE)
             b == IF paused = NotPaused THEN 0 ELSE Up(paused.age, RESUME_WINDOW)
  <2>0. a \in Nat /\ b \in Nat
    BY DEF PlayerOK, Pendings, Pauses, Up
  <2>a. pending' = [pending EXCEPT !.age = a] /\ paused' = [paused EXCEPT !.age = b]
    <3>1. pending' = [pending EXCEPT !.age = a]
      BY <1>10, Zenon DEF Pass
    <3>2. paused' = [paused EXCEPT !.age = b]
      BY <1>10, Zenon DEF Pass
    <3>3. QED
      BY <3>1, <3>2
  <2> HIDE DEF a, b
  <2>1. pending' \in Pendings
    BY <2>0, <2>a DEF PlayerOK, Pendings
  <2>2. paused' \in Pauses
    BY <2>0, <2>a DEF PlayerOK, Pauses
  <2>3. QED
    BY <1>10, <1>h, <2>1, <2>2 DEF Pass, PlayerOK
<1>11. QED
  BY <1>2, <1>3, <1>4, <1>5, <1>6, <1>7, <1>8, <1>9, <1>10 DEF EarWatchNext, EarNext

LEMMA PlayerInit == EarWatchInit => PlayerOK /\ AgeInv /\ HeardInv /\ CommandInv /\ OwnInv
<1> SUFFICES ASSUME EarWatchInit
             PROVE  PlayerOK /\ AgeInv /\ HeardInv /\ CommandInv /\ OwnInv
  OBVIOUS
<1> USE DEF EarWatchInit, EarInit
<1>1. NotPaused \in Pauses /\ NoPending \in Pendings
  BY DEF NotPaused, NoPending, Pauses, Pendings, Heard, Counts
<1>2. <<>> \in Seq(Heard) /\ <<>> \in Seq(Commands)
  OBVIOUS
<1>3. [age |-> RESUME_WINDOW, lost |-> 0] \in [age : Nat, lost : Counts]
  BY EarAssumption DEF Counts
<1>4. PlayerOK
  BY <1>1, <1>2, <1>3 DEF PlayerOK, Heard, Counts
<1>5. AgeInv /\ HeardInv /\ OwnInv
  BY DEF AgeInv, HeardInv, OwnInv
<1>6. CommandInv
  BY DEF CommandInv
<1>7. QED
  BY <1>4, <1>5, <1>6

LEMMA AgeNext ==
    ASSUME PlayerOK, AgeInv, [EarWatchNext]_earWatchVars
    PROVE  AgeInv'
<1> USE DEF earVars, mprisVars
<1>t. /\ paused \in Pauses /\ pause \in [age : Nat, lost : Counts] /\ paused.age \in Nat
      /\ NotPaused.age = 0
  BY DEF PlayerOK, Pauses, NotPaused
<1>1. CASE UNCHANGED earWatchVars
  BY <1>1 DEF earWatchVars, evars, AgeInv
<1> SUFFICES ASSUME EarWatchNext PROVE AgeInv'
  BY <1>1
(* A step that asks for no pause, and makes none older. *)
<1>k. ASSUME ear_does' # PausePlaying, paused' \in {paused, NotPaused}
      PROVE  AgeInv'
  <2>1. ~(paused'.age > paused.age)
    BY <1>t, <1>k
  <2>2. pause' = pause
    BY <1>k, <2>1, History
  <2>3. QED
    BY <1>k, <2>2 DEF AgeInv
<1>n. Nothing # PausePlaying /\ (\A p : Play(p) # PausePlaying) /\ PausePlaying.act = "PausePlaying"
      /\ [act |-> "bus lost", player |-> NoPlayer] # PausePlaying
  BY DEF Nothing, PausePlaying, Play
<1>2. CASE SendReading \/ BusLost \/ LinkOpens \/ LinkClosed \/ AudioMoves
  BY <1>2, <1>k, <1>n DEF SendReading, BusLost, LinkOpens, LinkClosed, AudioMoves
<1>3. CASE RunCommand
  <2>1. paused' = paused
    BY <1>3 DEF RunCommand
  <2>2. ear_does'.act # "PausePlaying"
    BY <1>3, Ran DEF Nothing
  <2>3. QED
    BY <1>k, <1>n, <2>1, <2>2
<1>5. CASE \E p \in Players, s \in {"Playing", "Paused", "Stopped"} : UserSets(p, s)
  <2>1. paused' = paused /\ ear_does'.act = "user"
    BY <1>5 DEF UserSets
  <2>2. QED
    BY <1>k, <1>n, <2>1
<1>6. CASE Tick \/ \E count \in {0, 1, 2, Unknown} : Ear(count)
  <2>1. EarMoves
    BY <1>6, EarStep
  <2>2. CASE ear_does' = PausePlaying
    <3>1. paused' = [count |-> ear_settled, age |-> 0, player |-> player, confirming |-> TRUE]
      BY <1>n, <2>1, <2>2 DEF EarMoves
    <3>2. pause' = [age |-> 0, lost |-> ear_settled]
      BY <2>2, History
    <3>3. QED
      BY <3>1, <3>2 DEF AgeInv
  <2>3. CASE ear_does' # PausePlaying
    BY <1>k, <2>1, <2>3 DEF EarMoves
  <2>4. QED
    BY <2>2, <2>3
<1>7. CASE OnPlayback
  <2>1. ear_does' # PausePlaying
    BY <1>7, <1>n DEF OnPlayback
  <2>2. \/ paused' \in {paused, NotPaused}
        \/ paused' = [paused EXCEPT !.confirming = FALSE] /\ paused.confirming
    BY <1>7 DEF OnPlayback, playback
  <2>3. CASE paused' = [paused EXCEPT !.confirming = FALSE] /\ paused.confirming
    <3>1. paused'.age = paused.age /\ paused'.count = paused.count
      BY <1>t, <2>3 DEF Pauses
    <3>2. paused # NotPaused
      BY <2>3 DEF NotPaused
    <3>3. pause' = pause
      BY <1>t, <2>1, <3>1, History
    <3>4. QED
      BY <3>1, <3>2, <3>3 DEF AgeInv
  <2>4. QED
    BY <1>k, <2>1, <2>2, <2>3
<1>8. CASE Pass
  <2> DEFINE b == Up(paused.age, RESUME_WINDOW)
  <2>1. ear_does' # PausePlaying
    BY <1>8, <1>n DEF Pass
  <2>2. CASE paused = NotPaused
    <3>1. paused' = NotPaused
      BY <1>8, <2>2 DEF Pass, NotPaused
    <3>2. QED
      BY <1>k, <2>1, <3>1
  <2>3. CASE paused # NotPaused
    <3>1. paused' = [paused EXCEPT !.age = b]
      BY <1>8, <2>3 DEF Pass
    <3>2. paused'.age = b /\ paused'.count = paused.count /\ paused.age = pause.age
          /\ paused.count = pause.lost
      BY <1>t, <2>3, <3>1 DEF Pauses, AgeInv
    <3>3. b \in Nat /\ (b > paused.age \/ b = paused.age)
      BY <1>t, EarAssumption DEF Up
    <3>4. CASE b > paused.age
      <4>1. pause' = [pause EXCEPT !.age = b]
        BY <2>1, <3>2, <3>4, History
      <4>2. pause'.age = b /\ pause'.lost = pause.lost
        BY <1>t, <4>1
      <4>3. QED
        BY <3>2, <4>2 DEF AgeInv
    <3>5. CASE b = paused.age
      <4>1. pause' = pause
        BY <1>t, <2>1, <3>2, <3>5, History
      <4>2. QED
        BY <3>2, <3>5, <4>1 DEF AgeInv
    <3>6. QED
      BY <3>3, <3>4, <3>5
  <2>4. QED
    BY <2>2, <2>3
<1>9. QED
  BY <1>2, <1>3, <1>5, <1>6, <1>7, <1>8 DEF EarWatchNext, EarNext

(* A resume answers the pause: as many buds are in as were before it, and  *)
(* the window has not passed (ear_media.rs returned).                      *)
THEOREM ResumeInTime == EarWatchSpec => ResumeAnswersPause
<1> DEFINE I == PlayerOK /\ AgeInv
           A == ear_does'.act = "Play" => ear_settled' >= pause.lost /\ pause.age < RESUME_WINDOW
<1>1. EarWatchInit => I
  BY PlayerInit
<1>2. ASSUME I, [EarWatchNext]_earWatchVars
      PROVE  I'
  BY <1>2, PlayerNext, AgeNext
<1>3. ASSUME I, [EarWatchNext]_earWatchVars
      PROVE  [A]_earWatchVars
  <2> SUFFICES ASSUME EarWatchNext, ear_does'.act = "Play"
               PROVE  ear_settled' >= pause.lost /\ pause.age < RESUME_WINDOW
    BY <1>3
  <2>1. Nothing.act = "nothing" /\ PausePlaying.act = "PausePlaying"
    BY DEF Nothing, PausePlaying
  <2>2. ~SendReading /\ ~BusLost /\ ~OnPlayback /\ ~LinkOpens /\ ~LinkClosed /\ ~AudioMoves /\ ~Pass
    BY <2>1, OtherSteps
  <2>3. ~RunCommand
    BY <1>3, <2>1, Ran
  <2>4. ~(\E p \in Players, s \in {"Playing", "Paused", "Stopped"} : UserSets(p, s))
    BY DEF UserSets
  <2>5. Tick \/ \E count \in {0, 1, 2, Unknown} : Ear(count)
    BY <2>2, <2>3, <2>4 DEF EarWatchNext, EarNext
  <2>6. EarMoves
    BY <1>3, <2>5, EarStep
  <2>7. paused # NotPaused /\ paused.age < RESUME_WINDOW /\ ear_settled' >= paused.count
    BY <2>1, <2>6 DEF EarMoves
  <2>8. QED
    BY <1>3, <2>7 DEF AgeInv
<1>4. EarWatchSpec => [][A]_earWatchVars
  BY <1>1, <1>2, <1>3, PTL DEF EarWatchSpec
<1>5. QED
  BY <1>4 DEF ResumeAnswersPause

----------------------------------------------------------------------------
(* When nothing is on its way, a remembered pause is a silent one. *)
LEMMA QuietPause ==
    ASSUME PlayerOK, OwnInv, Quiet, paused # NotPaused
    PROVE  ~paused.confirming /\ PlayingNow = {} /\ last = NoPlayer
<1>1. readings = <<>> /\ commands = <<>> /\ last = read /\ read \in Heard
  BY ReadIs DEF Quiet
<1>2. ~paused.confirming
  <2> SUFFICES ASSUME paused.confirming PROVE FALSE
    OBVIOUS
  <2>1. Confirming
    BY DEF OwnInv
  <2>2. PlayingNow = {} /\ last # NoPlayer
    BY <1>1, <2>1 DEF Confirming
  <2>3. QED
    BY <1>1, <2>2, ReadIs
<1>3. last = NoPlayer
  BY <1>1, <1>2, EarAssumption DEF OwnInv, Confirmed, Heard
<1>4. QED
  BY <1>1, <1>2, <1>3, ReadIs

(* The ends of a queue, before and after its head is taken. *)
LEMMA TailEnds ==
    ASSUME NEW S, NEW q \in Seq(S), q # <<>>
    PROVE  /\ Head(q) = q[1] /\ 1 \in DOMAIN q
           /\ Tail(q) # <<>> => Tail(q)[Len(Tail(q))] = q[Len(q)]
           /\ Tail(q) = <<>> => q[1] = q[Len(q)]
<1>1. Len(q) \in Nat /\ Len(q) # 0 /\ DOMAIN q = 1..Len(q) /\ Head(q) = q[1]
  OBVIOUS
<1>2. Tail(q) \in Seq(S) /\ Len(Tail(q)) = Len(q) - 1
      /\ \A i \in 1..Len(q) - 1 : Tail(q)[i] = q[i + 1]
  OBVIOUS
<1>3. CASE Len(q) = 1
  <2>1. Tail(q) = <<>>
    <3>1. Tail(q) \in Seq(S) /\ Len(Tail(q)) = 0
      BY <1>2, <1>3
    <3>2. \A s \in Seq(S) : s # <<>> => Len(s) \in Nat \ {0}
      BY EmptySeq
    <3>3. QED
      BY <3>1, <3>2
  <2>2. QED
    BY <1>1, <1>3, <2>1
<1>4. CASE Len(q) # 1
  <2>1. Len(q) - 1 \in 1..Len(q) - 1 /\ Len(q) - 1 + 1 = Len(q) /\ Len(Tail(q)) # 0
    BY <1>1, <1>2, <1>4
  <2>2. Tail(q)[Len(Tail(q))] = q[Len(q)]
    BY <1>2, <2>1
  <2>3. Tail(q) # <<>>
    BY <2>1, EmptySeq
  <2>4. QED
    BY <1>1, <2>2, <2>3
<1>5. QED
  BY <1>3, <1>4

LEMMA HeardNext ==
    ASSUME PlayerOK, HeardInv, [EarWatchNext]_earWatchVars
    PROVE  HeardInv'
<1> USE DEF earVars, mprisVars
<1>k. ASSUME UNCHANGED <<last, readings>>,
             UNCHANGED <<playing, player>> \/ playing' = "unknown" \/ last' = NoReading
      PROVE  HeardInv'
  BY <1>k DEF HeardInv
<1>1. CASE UNCHANGED earWatchVars
  BY <1>1, <1>k DEF earWatchVars, evars
<1>2. CASE SendReading
  <2>1. readings' = Append(readings, read) /\ last' = read /\ readings \in Seq(Heard)
        /\ read \in Heard
    BY <1>2, ReadIs DEF SendReading, PlayerOK
  <2>2. readings' # <<>> /\ readings'[Len(readings')] = last'
    BY <2>1
  <2>3. QED
    BY <2>2 DEF HeardInv
<1>3. CASE RunCommand \/ LinkOpens \/ LinkClosed \/ AudioMoves \/ Pass
  BY <1>3, <1>k DEF RunCommand, LinkOpens, LinkClosed, AudioMoves, Pass
<1>4. CASE BusLost
  BY <1>4 DEF BusLost, HeardInv
<1>5. CASE \E p \in Players, s \in {"Playing", "Paused", "Stopped"} : UserSets(p, s)
  BY <1>5, <1>k DEF UserSets
<1>6. CASE Tick \/ \E count \in {0, 1, 2, Unknown} : Ear(count)
  BY <1>6, <1>k, EarStep
<1>7. CASE OnPlayback
  <2> DEFINE h == Head(readings)
  <2>1. readings # <<>> /\ readings \in Seq(Heard) /\ readings' = Tail(readings) /\ last' = last
    BY <1>7 DEF OnPlayback, PlayerOK
  <2>2. playing' = (IF h # NoPlayer THEN "yes" ELSE "no")
        /\ player' = (IF h # NoPlayer THEN h ELSE player)
    BY <1>7 DEF OnPlayback
  <2>3. CASE readings' # <<>>
    <3>1. readings'[Len(readings')] = readings[Len(readings)]
      BY <2>1, <2>3, TailEnds
    <3>2. QED
      BY <2>1, <2>3, <3>1 DEF HeardInv
  <2>4. CASE readings' = <<>>
    <3>1. h = readings[Len(readings)]
      BY <2>1, <2>4, TailEnds
    <3>2. QED
      BY <2>1, <2>2, <2>4, <3>1 DEF HeardInv
  <2>5. QED
    BY <2>3, <2>4
<1>8. QED
  BY <1>1, <1>2, <1>3, <1>4, <1>5, <1>6, <1>7 DEF EarWatchNext, EarNext

(* What is remembered and queued is auris's own while no race was met.  A   *)
(* pause that is decided with nothing on its way starts afresh, whatever   *)
(* was raced before it.                                                    *)
OwnOK == CommandInv /\ OwnInv

LEMMA FreshPause ==
    ASSUME PlayerOK, HeardInv, EarMoves, ear_does' = PausePlaying, Quiet,
           UNCHANGED <<playing, player, status, last, readings>>
    PROVE  OwnOK'
<1>1. readings = <<>> /\ commands = <<>> /\ last = read /\ commands \in Seq(Commands)
  BY DEF Quiet, PlayerOK
<1>2. /\ playing = "yes" /\ try_send(PausePlaying)
      /\ paused' = [count |-> ear_settled, age |-> 0, player |-> player, confirming |-> TRUE]
  BY DEF EarMoves, Nothing, PausePlaying, Play
<1>3. player = read /\ last # NoPlayer
  BY <1>1, <1>2, ReadIs, EarAssumption DEF HeardInv, Heard
<1>4. player \in PlayingNow
  BY <1>1, <1>3, ReadIs
<1>5. paused'.player = player /\ paused'.confirming /\ Ours(paused.player)'
  BY <1>2, <1>4 DEF Ours, PlayingNow
<1>6. commands' = <<PausePlaying>>
  BY <1>1, <1>2, EarAssumption DEF try_send
<1>7. read' = read
  BY DEF PlayingNow, read
<1>8. Confirming'
  BY <1>1, <1>2, <1>3, <1>6, <1>7 DEF Confirming
<1>9. CommandInv'
  BY <1>6 DEF CommandInv
<1>10. QED
  BY <1>5, <1>8, <1>9 DEF OwnOK, OwnInv

(* Who decides a pause, and who starts a player. *)
LEMMA PauseDecided ==
    ASSUME PlayerOK, EarWatchNext, ear_does' = PausePlaying
    PROVE  Tick \/ \E count \in {0, 1, 2, Unknown} : Ear(count)
<1>1. ear_does'.act = "PausePlaying" /\ Nothing.act = "nothing"
  BY DEF PausePlaying, Nothing
<1>2. ~SendReading /\ ~BusLost /\ ~OnPlayback /\ ~LinkOpens /\ ~LinkClosed /\ ~AudioMoves /\ ~Pass
  BY <1>1, OtherSteps
<1>3. ~RunCommand
  BY <1>1, Ran
<1>4. ~(\E p \in Players, s \in {"Playing", "Paused", "Stopped"} : UserSets(p, s))
  BY <1>1 DEF UserSets
<1>5. QED
  BY <1>2, <1>3, <1>4 DEF EarWatchNext, EarNext

LEMMA Played ==
    ASSUME PlayerOK, EarWatchNext, ear_does'.act = "played"
    PROVE  RunCommand
<1>1. /\ Nothing.act = "nothing" /\ PausePlaying.act = "PausePlaying"
      /\ \A p : Play(p).act = "Play"
  BY DEF PausePlaying, Nothing, Play
<1>2. ~SendReading /\ ~BusLost /\ ~OnPlayback /\ ~LinkOpens /\ ~LinkClosed /\ ~AudioMoves /\ ~Pass
  BY <1>1, OtherSteps
<1>3. ~(Tick \/ \E count \in {0, 1, 2, Unknown} : Ear(count))
  BY <1>1, EarStep DEF EarMoves
<1>4. ~(\E p \in Players, s \in {"Playing", "Paused", "Stopped"} : UserSets(p, s))
  BY DEF UserSets
<1>5. QED
  BY <1>2, <1>3, <1>4 DEF EarWatchNext, EarNext

LEMMA OwnNext ==
    ASSUME PlayerOK, HeardInv, OwnOK, EarWatchNext, ~EarRace, ear_does' # PausePlaying
    PROVE  CommandInv' /\ OwnInv'
<1> USE DEF earVars, mprisVars
<1>n. /\ Nothing.act = "nothing" /\ (\A p : Play(p).act = "Play")
      /\ PausePlaying.act = "PausePlaying" /\ NotPaused.confirming = FALSE
  BY DEF Nothing, PausePlaying, Play, NotPaused
<1>i. CommandInv /\ OwnInv
  BY DEF OwnOK
<1>t. /\ PausePlaying \in Commands
      /\ paused \in Pauses /\ commands \in Seq(Commands) /\ readings \in Seq(Heard)
      /\ DOMAIN commands = 1..Len(commands)
  BY DEF PlayerOK, PausePlaying, Commands, Heard
<1>s. ASSUME status' = status
      PROVE  PlayingNow' = PlayingNow /\ read' = read
  BY <1>s DEF PlayingNow, read
<1>o. ASSUME status' = status, ours' = ours, NEW p
      PROVE  Ours(p)' <=> Ours(p)
  BY <1>o DEF Ours
(* Nothing the remembered pause speaks of has moved. *)
<1>k. ASSUME UNCHANGED <<status, ours, last, readings, player>>, paused' \in {paused, NotPaused},
             UNCHANGED playing \/ playing' = "unknown",
             commands' = commands \/ try_send(PausePlaying)
      PROVE  CommandInv' /\ OwnInv'
  <2>1. CommandInv'
    <3>1. \A i \in DOMAIN commands' :
             commands'[i] = PausePlaying \/ (i \in DOMAIN commands /\ commands'[i] = commands[i])
      BY <1>k, <1>t, Sent
    <3>2. QED
      BY <1>i, <1>k, <3>1 DEF CommandInv, Ours
  <2>2. OwnInv'
    <3> SUFFICES ASSUME paused' # NotPaused
                 PROVE  /\ Ours(paused.player)'
                        /\ paused.confirming => Confirming'
                        /\ ~paused.confirming => Confirmed'
      BY <1>k DEF OwnInv
    <3>1. paused # NotPaused /\ (commands # <<>> => commands' # <<>>)
      BY <1>k, <1>t, Sent
    <3>2. PlayingNow' = PlayingNow /\ read' = read
      BY <1>k, <1>s
    <3>3. Confirming => Confirming'
      BY <1>k, <3>1, <3>2 DEF Confirming
    <3>4. Confirmed => Confirmed'
      BY <1>k DEF Confirmed
    <3>5. paused' = paused /\ (Ours(paused.player) => Ours(paused.player)')
      BY <1>k DEF Ours
    <3>6. QED
      BY <1>i, <3>1, <3>3, <3>4, <3>5 DEF OwnInv
  <2>3. QED
    BY <2>1, <2>2
<1>3. CASE LinkOpens \/ LinkClosed \/ AudioMoves
  <2>1. ear_does' = Nothing
    BY <1>3 DEF LinkOpens, LinkClosed, AudioMoves
  <2>2. ours' = ours
    BY <1>n, <2>1, History
  <2>3. QED
    BY <1>3, <2>2, <1>k DEF LinkOpens, LinkClosed, AudioMoves
<1>2. CASE SendReading
  <2>1. /\ readings' = Append(readings, read) /\ last' = read /\ last # read
        /\ UNCHANGED <<status, commands, paused, playing, player>> /\ ear_does' = Nothing
    BY <1>2 DEF SendReading
  <2>2. ours' = ours
    BY <1>n, <2>1, History
  <2>3. CommandInv'
    BY <1>i, <2>1, <2>2 DEF CommandInv, Ours
  <2>4. /\ readings' # <<>>
        /\ \A i \in DOMAIN readings' :
              readings'[i] = read \/ (i \in DOMAIN readings /\ readings'[i] = readings[i])
    <3>1. /\ DOMAIN readings' = 1..Len(readings) + 1 /\ Len(readings) \in Nat
          /\ DOMAIN readings = 1..Len(readings)
          /\ \A i \in 1..Len(readings) : readings'[i] = readings[i]
          /\ readings'[Len(readings) + 1] = read
      BY <1>t, <2>1, ReadIs
    <3>2. readings' # <<>>
      BY <1>t, <2>1, ReadIs
    <3>3. QED
      BY <3>1, <3>2
  <2>5. Confirming => Confirming'
    <3> SUFFICES ASSUME Confirming PROVE Confirming'
      OBVIOUS
    <3>1. PlayingNow = {}
      BY <2>1 DEF Confirming
    <3>2. PlayingNow' = {} /\ read = NoPlayer
      BY <2>1, <3>1, <1>s, ReadIs
    <3>3. QED
      BY <2>1, <2>4, <3>2 DEF Confirming
  <2>6. Confirmed => Confirmed'
    BY <2>1, <2>4 DEF Confirmed
  <2>7. QED
    BY <1>i, <2>1, <2>2, <2>3, <2>5, <2>6 DEF OwnInv, Ours
<1>4. CASE BusLost
  <2>1. /\ commands' = <<>> /\ last' = NoReading /\ ear_does'.act = "bus lost"
        /\ UNCHANGED <<status, ours, readings, paused, playing, player>>
    <3>1. ear_does'.act = "bus lost"
      BY <1>4, Zenon DEF BusLost
    <3>2. ours' = ours
      BY <3>1, History
    <3>3. QED
      BY <1>4, <3>1, <3>2 DEF BusLost
  <2>0. commands = <<>>
    BY <2>1 DEF EarRace
  <2>2. ours' = ours
    BY <2>1
  <2>3. CommandInv'
    <3>1. commands' = commands
      BY <2>0, <2>1
    <3>2. QED
      BY <1>i, <2>1, <3>1 DEF CommandInv, Ours
  <2>4. PlayingNow' = PlayingNow
    BY <2>1, <1>s
  <2>5. Confirming => Confirming'
    BY <2>0, <2>1, <2>4, EarAssumption DEF Confirming
  <2>6. Confirmed => Confirmed'
    BY <2>1 DEF Confirmed
  <2>7. QED
    BY <1>i, <2>1, <2>2, <2>3, <2>5, <2>6 DEF OwnInv, Ours
<1>5. CASE RunCommand
  <2> DEFINE c == Head(commands)
  <2>1. /\ commands # <<>> /\ commands' = Tail(commands)
        /\ UNCHANGED <<earVars, last, readings>>
    BY <1>5 DEF RunCommand
  <2>2. /\ c = commands[1] /\ 1 \in DOMAIN commands
        /\ \A i \in DOMAIN commands' : i + 1 \in DOMAIN commands /\ commands'[i] = commands[i + 1]
    BY <1>t, <2>1
  <2>3. \A p : Ours(p) => Ours(p)'
    <3> SUFFICES ASSUME NEW p \in Players, Ours(p), status'[p] = "Paused"
                 PROVE  p \in ours'
      BY DEF Ours
    <3>1. CASE ear_does'.act = "paused"
      <4>1. ours' = ours \cup (PlayingNow \ PlayingNow')
        BY <3>1, History
      <4>2. status'[p] = status[p] \/ p \in PlayingNow \ PlayingNow'
        BY <1>5, <1>n, <3>1, Ran
      <4>3. QED
        BY <4>1, <4>2 DEF Ours
    <3>2. CASE ear_does'.act = "played" /\ ear_does'.player = c.player
               /\ status' = [status EXCEPT ![c.player] = "Playing"]
      <4>1. p # c.player /\ status[p] = "Paused"
        BY <3>2 DEF PlayerOK
      <4>2. ours' = ours \ {c.player}
        BY <3>2, History
      <4>3. QED
        BY <4>1, <4>2 DEF Ours
    <3>3. CASE status' = status /\ ear_does' = Nothing
      <4>1. ours' = ours
        BY <1>n, <3>3, History
      <4>2. QED
        BY <3>3, <4>1 DEF Ours
    <3>4. QED
      BY <1>5, <3>1, <3>2, <3>3, Ran
  <2>4. CommandInv'
    BY <1>i, <2>1, <2>2, <2>3 DEF CommandInv
  <2>5. CASE paused = NotPaused
    BY <2>1, <2>4, <2>5 DEF OwnInv
  <2>6. CASE paused # NotPaused
    <3>1. c = PausePlaying
      BY <1>i, <2>2, <2>6 DEF CommandInv
    <3>2. ear_does'.act = "paused"
      BY <1>5, <1>n, <3>1, Ran
    <3>3. PlayingNow' = {}
      BY <3>2 DEF EarRace
    <3>4. Confirming => Confirming'
      BY <2>1, <3>3 DEF Confirming
    <3>5. Confirmed => Confirmed'
      BY <2>1 DEF Confirmed
    <3>6. QED
      BY <1>i, <2>1, <2>3, <2>4, <2>6, <3>4, <3>5 DEF OwnInv
  <2>7. QED
    BY <2>5, <2>6
<1>6. ASSUME NEW p \in Players, NEW s \in {"Playing", "Paused", "Stopped"}, UserSets(p, s)
      PROVE  CommandInv' /\ OwnInv'
  <2>1. /\ s = "Paused" => status[p] = "Playing"
        /\ status' = [status EXCEPT ![p] = s]
        /\ ear_does' = [act |-> "user", player |-> p]
        /\ UNCHANGED <<earVars, last, readings, commands>>
    BY <1>6 DEF UserSets
  <2>0. Quiet /\ commands = <<>>
    BY <2>1 DEF EarRace, Quiet
  <2>2. ours' = ours \ {p}
    BY <2>1, History
  <2>3. CommandInv'
    BY <2>0, <2>1 DEF CommandInv
  <2>4. CASE paused # NotPaused
    <3>1. ~paused.confirming /\ PlayingNow = {} /\ Confirmed /\ Ours(paused.player)
      BY <1>i, <2>0, <2>4, QuietPause DEF OwnInv
    <3>2. s # "Paused"
      BY <2>1, <3>1 DEF PlayingNow
    <3>3. \A q \in Players : status'[q] = "Paused" => q # p /\ status[q] = "Paused"
      BY <2>1, <3>2 DEF PlayerOK
    <3>4. Ours(paused.player)'
      BY <2>1, <2>2, <3>1, <3>3 DEF Ours
    <3>5. QED
      BY <2>1, <2>3, <3>1, <3>4 DEF OwnInv, Confirmed
  <2>5. QED
    BY <2>1, <2>3, <2>4 DEF OwnInv
<1>7. CASE Tick \/ \E count \in {0, 1, 2, Unknown} : Ear(count)
  <2>1. EarMoves /\ UNCHANGED <<playing, player, status, last, readings>>
    BY <1>7, EarStep
  <2>2. CASE paused' \in {paused, NotPaused} /\ commands' = commands /\ ear_does' = Nothing
    <3>1. ours' = ours
      BY <1>n, <2>2, History
    <3>2. QED
      BY <1>k, <2>1, <2>2, <3>1
  <2>3. ASSUME paused # NotPaused, paused' = NotPaused, ear_does' = Play(paused.player),
               try_send(Play(paused.player))
        PROVE  CommandInv' /\ OwnInv'
    <3>1. ours' = ours
      BY <1>n, <2>3, History
    <3>2. PICK p : p = paused.player
      OBVIOUS
    <3>3. Ours(p)
      BY <1>i, <2>3, <3>2 DEF OwnInv
    <3>4. p \in Players /\ Ours(p)' /\ Play(p) \in Commands
      BY <2>1, <3>1, <3>3 DEF Ours, Play, Commands, Heard
    <3>5. \A i \in DOMAIN commands' :
             commands'[i] = Play(p) \/ (i \in DOMAIN commands /\ commands'[i] = commands[i])
      BY <1>t, <2>3, <3>2, <3>4, Sent
    <3>6. \A i \in DOMAIN commands : commands[i] = PausePlaying
      BY <1>i, <2>3 DEF CommandInv
    <3>7. CommandInv'
      BY <2>3, <3>4, <3>5, <3>6 DEF CommandInv
    <3>8. QED
      BY <2>3, <3>7 DEF OwnInv
  <2>4. QED
    BY <2>1, <2>2, <2>3 DEF EarMoves
<1>8. CASE OnPlayback
  <2> DEFINE h == Head(readings)
             now == IF h # NoPlayer THEN "yes" ELSE "no"
  <2>1. /\ readings # <<>> /\ readings' = Tail(readings) /\ playing' = now
        /\ paused' = (IF playing = now THEN paused ELSE playback(h # NoPlayer))
        /\ UNCHANGED <<status, last, commands>> /\ ear_does' = Nothing
    BY <1>8 DEF OnPlayback
  <2>2. ours' = ours
    BY <1>n, <2>1, History
  <2>3. /\ h = readings[1] /\ 1 \in DOMAIN readings
        /\ readings' = <<>> => h = readings[Len(readings)]
    BY <1>t, <2>1, TailEnds
  <2>4. paused = NotPaused => paused' = NotPaused
    BY <1>n, <2>1 DEF playback
  <2>5. CommandInv'
    BY <1>i, <2>1, <2>2, <2>4 DEF CommandInv, Ours
  <2>6. CASE paused # NotPaused /\ paused' # NotPaused
    <3>1. h = NoPlayer
      <4>1. CASE paused.confirming
        BY <1>i, <2>3, <2>6, <4>1 DEF OwnInv, Confirming
      <4>2. CASE ~paused.confirming
        BY <1>i, <2>1, <2>6, <4>2 DEF OwnInv, Confirmed, playback
      <4>3. QED
        BY <4>1, <4>2
    <3>2. paused'.player = paused.player /\ ~paused'.confirming
      <4>1. CASE paused.confirming
        <5>1. playing # "no"
          BY <1>i, <2>6, <4>1 DEF OwnInv, Confirming
        <5>2. paused' = [paused EXCEPT !.confirming = FALSE]
          BY <2>1, <3>1, <4>1, <5>1 DEF playback
        <5>3. QED
          BY <1>t, <5>2 DEF Pauses
      <4>2. CASE ~paused.confirming
        BY <2>1, <2>6, <4>2 DEF playback
      <4>3. QED
        BY <4>1, <4>2
    <3>3. Confirmed'
      BY <2>1, <2>3, <3>1 DEF Confirmed, HeardInv
    <3>4. Ours(paused.player)'
      BY <1>i, <2>1, <2>2, <2>6, <3>2 DEF OwnInv, Ours
    <3>5. QED
      BY <2>5, <3>2, <3>3, <3>4 DEF OwnInv
  <2>7. QED
    BY <2>4, <2>5, <2>6 DEF OwnInv
<1>9. CASE Pass
  <2>1. UNCHANGED <<status, last, readings, commands, playing, player>> /\ ear_does' = Nothing
    BY <1>9 DEF Pass
  <2>2. ours' = ours /\ PlayingNow' = PlayingNow /\ read' = read
    BY <1>n, <1>s, <2>1, History
  <2>3. CASE paused = NotPaused
    <3>1. paused' = NotPaused
      BY <1>9, <2>3 DEF Pass, NotPaused
    <3>2. QED
      BY <1>k, <2>1, <2>2, <3>1
  <2>4. CASE paused # NotPaused
    <3>1. paused' = [paused EXCEPT !.age = Up(paused.age, RESUME_WINDOW)]
      BY <1>9, <2>4 DEF Pass
    <3>2. paused'.player = paused.player /\ paused'.confirming = paused.confirming
      BY <1>t, <3>1 DEF Pauses
    <3>3. CommandInv'
      BY <1>i, <2>1, <2>4 DEF CommandInv
    <3>4. (Confirming => Confirming') /\ (Confirmed => Confirmed')
      BY <2>1, <2>2 DEF Confirming, Confirmed
    <3>5. QED
      BY <1>i, <2>1, <2>2, <2>4, <3>2, <3>3, <3>4 DEF OwnInv, Ours
  <2>5. QED
    BY <2>3, <2>4
<1>10. QED
  BY <1>2, <1>3, <1>4, <1>5, <1>6, <1>7, <1>8, <1>9 DEF EarWatchNext, EarNext

(* auris starts only what it paused itself and nobody touched since,       *)
(* however late readings, commands and ticks come, unless the ear race was *)
(* met (mpris.rs play_player, ear_media.rs playback).                      *)
THEOREM OwnPauseOnly == EarWatchSpec => OnlyOwnPauseUndone
<1> DEFINE I == PlayerOK /\ HeardInv /\ (raced \/ OwnOK)
           A == ear_does'.act = "played" => ear_does'.player \in ours \/ raced
<1>1. EarWatchInit => I
  BY PlayerInit DEF OwnOK
<1>2. ASSUME I, [EarWatchNext]_earWatchVars
      PROVE  I'
  <2>1. PlayerOK' /\ HeardInv'
    BY <1>2, PlayerNext, HeardNext
  <2>2. CASE UNCHANGED earWatchVars
    <3>1. OwnOK' <=> OwnOK
      BY <2>2 DEF earWatchVars, evars, earVars, mprisVars, OwnOK, CommandInv, OwnInv, Ours,
                  Confirming, Confirmed, PlayingNow, read
    <3>2. QED
      BY <1>2, <2>1, <2>2, <3>1 DEF earWatchVars
  <2>3. ASSUME EarWatchNext, ~raced'
        PROVE  OwnOK'
    <3>1. ~EarRace /\ (ear_does' = PausePlaying \/ ~raced)
      BY <2>3, History
    <3>2. CASE ear_does' = PausePlaying
      <4>1. Quiet /\ (Tick \/ \E count \in {0, 1, 2, Unknown} : Ear(count))
        BY <1>2, <2>3, <3>1, <3>2, PauseDecided DEF EarRace
      <4>2. QED
        BY <1>2, <3>2, <4>1, EarStep, FreshPause
    <3>3. CASE ear_does' # PausePlaying
      BY <1>2, <2>3, <3>1, <3>3, OwnNext DEF OwnOK
    <3>4. QED
      BY <3>2, <3>3
  <2>4. QED
    BY <1>2, <2>1, <2>2, <2>3
<1>3. ASSUME I, [EarWatchNext]_earWatchVars
      PROVE  [A]_earWatchVars
  <2> SUFFICES ASSUME EarWatchNext, ear_does'.act = "played", ~raced
               PROVE  ear_does'.player \in ours
    BY <1>3
  <2>1. \A p : Play(p).act = "Play" /\ Play(p).player = p
    BY DEF Play
  <2>2. PausePlaying.act = "PausePlaying"
    BY DEF PausePlaying
  <2>3. RunCommand
    BY <1>3, Played
  <2> DEFINE c == Head(commands)
  <2>4. /\ c.act = "Play" /\ status[c.player] = "Paused" /\ ear_does'.player = c.player
        /\ commands # <<>>
    <3>1. ear_does' # Nothing /\ ear_does'.act # "paused"
      BY DEF Nothing
    <3>2. QED
      BY <1>3, <2>3, <3>1, Ran
  <2>5. c = commands[1] /\ 1 \in DOMAIN commands
    BY <1>3, <2>4 DEF PlayerOK
  <2>6. PICK p \in Players : c = Play(p) /\ Ours(p)
    BY <1>3, <2>2, <2>4, <2>5 DEF OwnOK, CommandInv
  <2>7. QED
    BY <2>1, <2>4, <2>6 DEF Ours
<1>4. EarWatchSpec => [][A]_earWatchVars
  BY <1>1, <1>2, <1>3, PTL DEF EarWatchSpec
<1>5. QED
  BY <1>4 DEF OnlyOwnPauseUndone
=============================================================================
