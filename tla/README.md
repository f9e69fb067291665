# Verification of aurisd

TLA+ models of the Rust daemon `aurisd` (`src/daemon/src`), the part of auris
that speaks the Apple Accessory Protocol (AAP) to a pair of AirPods, takes part
in the AirPods' ownership handoff between hosts, and brings a lost link back.
TLC checks the models on small instances, TLAPS proves the main safety
properties for every instance. `PROJECT.json` maps each definition to the lines
it stands for, and lists the runs, the hazards, the findings and the theorems.

## 1. The system

One task, the *supervisor* (`aap/session.rs`), owns all protocol state. Its
`run` loop is a biased `select!` over, in this order: link events of the BlueZ
watcher, commands of the control socket, MPRIS readings, results of rejoin and
auto-connect calls, adverts, packets, and a 250 ms tick. Every wake folds one
event into pure state machines `decide(state, event, now) -> [actions]` and then
performs the actions. What runs beside it are the BlueZ watcher, the scanner, the
MPRIS task, the spawned `Device1.Connect` and profile claims, the router's
`pw-cli` task, the control server's connections, and the snapshot writer.

| component | state | operations | correct when | modelled in |
|---|---|---|---|---|
| ownership handoff, `handoff.rs` | owner, released, hold, play edge, take-over clocks | AirPods' reports, MPRIS readings, transport, tick, take-over, yield | never fights the user or the other host: take-over only on a fresh sustained press, one re-pause per request, no early "not streaming" | `Handoff` |
| rejoin, `rejoin.rs` | last report, rate limit, loop flag, pending sequence | disconnect with reason, reports, relay, ear, commands, tick, connect result | pages only to answer an eviction that still stands; bounded, spaced, stops on ping-pong | `Rejoin` |
| auto-connect, `autoconnect.rs` | presence, disarm flag, pending sequence, fallback schedule; the scan's setups and property streams | advert, link change, command, tick, connect result; radio and discovery events | pages only on arrival or in the fallback's budget; a user's decision sticks; the scan comes back and hears the AirPods | `AutoConnect`, `Scanner` |
| link recovery, `session.rs` + `bluez.rs` | both machines, epochs, spawned calls, result channels | link events, results, commands, tick | one policy pages at a time; no superseded call; every sequence ends | `LinkRecovery`, `OnePager` |
| media transport watch, `bluez.rs` | transports by path, three unread streams | subscribe, read all, read a signal, lose the bus | the last report is BlueZ's state | `AudioWatch` |
| AAP link, `session.rs` + `socket.rs` | acl, generation, socket, dial deadline, opening, watchdogs | dial, acknowledgements, drop, suppress, rearm, commands, readback | no socket of an old link; one unattended dial; a command acts on its link; silence is noticed | `AapLink`, `Readback` |
| handoff queue, `session.rs` | queued actions, the batch, claims | flush, send, drain, settle, claim, exit | the release follows the card's switch; a claim only while owner | `HandoffSession` |
| audio route, `audio_route.rs` | card, mode, the switching task, the note for the exit | set, read, switch, retry, restore | a switch that landed stays; the note is true | `AudioRoute` |
| ear media, `ear_media.rs` + `mpris.rs` | settled count, pending change, who was paused; players and two queues | ear report, playback, tick, pause, play | resumes only what it paused itself, and only that pause | `EarMedia` |
| store and settings verification, `store.rs`, `settings.rs`, `state.rs` | the published snapshot, what later packets are resolved with; requested and reported settings | updates, selection, dump, reopen | a fact belongs to the selected device; fresh means live; a side is that side; a verdict is true | `Store`, `Telemetry`, `Readback` |
| battery cache and snapshot writer, `cache.rs`, `writer.rs` | last written snapshot | debounced write, load at the start | no foreign or live fact is restored; the last change is written | `Telemetry`, `CtlServer` |
| BLE battery, `ble.rs` | age of the adverts' cells | advert, expiry | (see the store) | `Telemetry` |
| control server, `ctl_server.rs`, `ctl_proto.rs` | client slots, the queue, replies and deadlines | accept, dispatch, deadline, subscribe | an answer is true; an expired command never runs; readers catch up | `CtlServer` |
| wire format, `aap/codec.rs`, `models.rs` | none | encode, decode | a value or text arrives as it was meant | `Codec` |
| command-line client, `bin/auris.rs` | the verdict it waits for | write, watch, time out | never reports an earlier write's verdict | `SettingClient` |
| configuration and start-up, `config.rs`, `bin/aurisd.rs` | options | start, SIGTERM, crash | | constants; the start, stop and crash of `Telemetry`, the exit of `HandoffSession` |
| DMS panel (QML) | view of the snapshot | | | no |

How they interact: the handoff machine hears of the link through
`LinkOpened`/`LinkClosed`, of BlueZ through transport events, of the user through
MPRIS readings and commands; what it decides goes through the session's queue to
the card, the players and the AirPods. Rejoin and auto-connect hear of the same
drop, one after the other; auto-connect reads whether a rejoin is pending before
each of its events, rejoin reads nothing of auto-connect. Both perform their
connects in spawned tasks that answer on a channel each, and that compare an
atomic epoch with their sequence number before they call BlueZ. Everything ends in
the store, whose watch channel wakes the writer and the subscribers.

What is hard: the echoes of the daemon's own actions (a player that it paused
reports Playing once more, a rejoin's own connect looks like anybody's), three
asynchronous sources for one fact (the `Connected` property, the `Disconnected`
signal, the call's result), state read before an await and used after it, batches
whose sends fail half-way, facts of one device or one link that outlive it, and
many timers that overlap. `PROJECT.json` lists them as hazards, each at the line
where it bites.

## 2. Modules

    Handoff ── HandoffHold ───── MCHandoffHold    HandoffProofs
       │  └─── HandoffStream ─── MCHandoffStream  HandoffProofs
       └────── MCHandoffLive
    Rejoin ─── RejoinWatch ────────┐              RejoinProofs
    AutoConnect ─ AutoConnectWatch ┤              AutoConnectProofs
    Scanner, AudioWatch ───────────┴ MCDecide     AutoConnectProofs
    LinkRecovery (INSTANCEs Rejoin, AutoConnect; implements OnePager)
       └────── MCLinkRecovery                     RecoveryProofs
    AapLink (INSTANCEs Readback)
       └─ AapWatch ─ MCAapLink                    AapProofs
    AudioRoute ─ HandoffSession ─ RouteWatch ┐    MediaProofs
    EarMedia ─── EarWatch ───────────────────┴ MCMedia   MediaProofs
    Store ─ Telemetry ┐                           StatusProofs
    CtlServer         ┤                           StatusProofs
    SettingClient     ┤                           StatusProofs
    Codec ────────────┴ MCStore                   WireProofs

A *watch* module (`HandoffHold`, `HandoffStream`, `RejoinWatch`,
`AutoConnectWatch`, `AapWatch`, `RouteWatch`, `EarWatch`) adds history variables
that observe the events of the machine it extends, independently of the machine's
own bookkeeping, and states the properties over them: when the user's press began,
whether an eviction still waits for its answer, which settings were reported after
their last write. None of them restricts a step of the machine.

**Time.** Instants are kept as ages: how long ago they were, frozen at the window
the code compares them with, because older readings cannot be told apart.
Deadlines count down. `Pass` (`RejoinPass`, `AutoPass`, `Wait`, `ScannerPass`,
`Second`, `SecondPasses`) is one unit of time; the daemon's tick is an action of
its own, so a tick may come late or several may come at once. `None` is kept apart
from "long ago" where the code tells them apart.

**Awaits.** Where one task awaits inside a handler, the handler is cut there: a
variable (`at` of `AapLink` and `HandoffSession`, `stage` of a task, `handler` of
`CtlServer`) says what is waited for, and everybody else acts in between. Where the
code drains the link events after an await (`opening_alive`, `drain_link_events`),
the next step needs their queue to be empty.

**Handoff** has one action per event of `handoff::decide`. The variables have the
names of the fields of `HandoffState`; `phase` is the part of the AAP link it needs
(down, opening, readback window, up), since the session marks ownership reports of
the opening and of the readback window as state; `reading` is `last_playback`.
`out` is the list of actions the latest event returned. `AudioSource` is split in
`AudioSourceHere` and `AudioSourceOther` along its first branch. Left out: the
application's name, the peer of a record, the published view, packets that change
nothing.

**Rejoin** and **AutoConnect** have one action per event of their `decide`.
`rejoin`/`auto` is the pending sequence (`NoRejoin`/`NoAuto` when there is none),
`rejoin_does`/`auto_does` the set of actions the event returned. `Connected` of
Rejoin also performs the `LinkSessionStarted` that the session sends in the same
handler when the link is new. A report is the set of hosts it lists and those whose
link is up; how a host is recognised as Apple's is the constant `AppleOuis` and the
learned list `known`.

**Scanner** is the other half of `autoconnect.rs`, the task `run` with `scan`,
`diagnose` and `park`. `phase` is where it is, `fault` why the last setup failed;
the radio and the objects of BlueZ are the environment. `missed` says what became
of the latest advert, `able` for how long a scan could have been running.

**AudioWatch** is `watch_audio_objects`: BlueZ's `objects`, the three streams the
signals are sorted into, and `by_path`, the task's idea of them.

**LinkRecovery** is the supervisor's share: `OnConnected`, `OnLinkDown`,
`OnIdentity`, `OnDisconnected` are the arms of `on_link`, each with its calls into
both machines in the order of the code, `OnTick` is `on_tick`, `OnRejoinResult` and
`OnAutoResult` fold a result, `Perform` is what `rejoin_event` and
`autoconnect_event` do with the decisions: spawn a call, store or clear the epoch.
The two D-Bus streams are two queues, `props` and `drops`. A task reads the device
(`Check`, `Call`), calls BlueZ (`Linked` is the page itself, external) and reports
(`Return`). The supervisor may take any channel next, although the select is
biased: a signal or a command may be on its way for any time, so the bias decides
nothing but the liveness assumption below. Not modelled: a result lost because its
channel is full (16 places for a handful of results).

**OnePager** is the abstract specification of the two policies together: an owner
(nobody, rejoin, auto) and a page count under a limit; only a drop moves the
ownership from one policy to the other, always to the rejoin.
`OnePagerHolds` states that LinkRecovery implements it under the mapping `owner`,
`tries`, which is also what `publish_link` shows to the panel.

**AapLink** is the supervisor's AAP side. `OnLink` are the arms of `on_link`,
`Dial` … `FeaturesAck` the guarded dial and the opening, `Tick` and `TickRest`
`tick_verification` and the watchdogs, `SendControl`, `SendWrite` and the `Rearm`
steps the commands, `Battery`, `SettingReport`, `OtherPacket`, `PeerCloses` what the
AirPods send. A socket is the generation it was dialled for. **Readback** is the
part of the store that judges a setting; it is a set of functions on a document, as
an `Update` is one on the snapshot, and `AapLink` applies them to `doc`.

**HandoffSession** performs what the handoff decides: `Flush` takes the queue as a
batch, `Send`, `RouteOwn`, `DrainBegins`, `Drained`, `Settled`, `ClaimAudio` run it,
`ClaimStep` is a spawned claim, `Terminate` and `Restored` the exit. The decisions
themselves are `Handoff`'s; here a decision is one of three kinds, and any of them
may come at any time. **AudioRoute** is the router: `set` cancels and spawns,
`ReadCard`, `Switch`, `Switched` are its task between the two tools it calls.

**EarMedia** has one action per event of `ear_media::decide`, the queue to the MPRIS
task and the one back, and the players. **Store** is the telemetry half of
`store.rs`, functions on the snapshot; **Telemetry** what applies them: link events,
packets, adverts, the cache, start, stop and crash. A fact carries no content but
the device it was measured on. **CtlServer** follows one request per client
from the accept to the answer, and the two kinds of readers of the watch channel;
**SettingClient** the CLI's wait for a verdict; **Codec** the typed settings and the
OPACK messages, written and read back (a text is its name and the offsets at which
its characters end).

**Composition.** Three MC modules hold components side by side and explore each
with the others *at rest* in their initial state: `MCDecide`, `MCMedia` and
`MCStore`. They meet only through events that the modules let happen at any time
(an advert for `AutoConnect`, `audio_on_airpods` for `EarMedia`, a change of the
snapshot for `CtlServer`), so their product has nothing that the parts have not.
Where components do interact, the module that composes them is explored in full:
`LinkRecovery`, `AapLink` with `Readback`, `HandoffSession` with `AudioRoute`,
`Telemetry` with `Store` and the cache.

## 3. Runs

| run | shows | instance and bounds |
|---|---|---|
| `hold` | `TakeOverAnswersAFreshPlay`, `OneRepausePerRequest`, `RepauseOnlyWhileYielded` | one other host, two players, windows of 1 or 2 units; the A2DP transport unknown |
| `stream` | `TakeOverNeedsSustainedPlay`, `StopNeverEarly`, `WarnedOncePerTakeOver` | one host, one player, grace longer than check and stop windows; no audio change, no call |
| `live` | `StopIsAnnounced`, `PressTakesOver` | one host, one player |
| `decide` | of the rejoin: `PageAnswersEviction`, `SequencesSpaced`, `PingPongStops`, `EvidenceUsedOnce`; of the auto-connect: `UserDecisionSticks`, `AdvertPageNeedsArrival`, `FallbackBounded`; of the scan: `ScanResumes`, `AdvertIsSeen`; of the transports: `ReportIsTrue` | an Apple host and another, one place in the known list, three attempts; auto-connect in units of five seconds, every delay in its real proportion, a budget of two minutes for ten; the AirPods' address and a foreign one, one watched slot, three unread events; one A2DP and one hands-free transport, five signals |
| `recovery` | `OnePagerHolds`, `RejoinCallsStand`; `RejoinEnds`, `AutoEnds` | one sequence of each policy with two attempts, one signal of a kind on its way, drops for Remote or Local; the watcher fails or starts over only while no Disconnected signal is on its way |
| `aap_link` | `SocketIsCurrent`, `OneAutomaticDial`, `SilenceBounded`, `CommandActsOnItsLink`, `VerdictIsTrue` | two link events on their way, three generations, one key with two values, one command at a time |
| `media` | `RouteLanded`, `ReleaseAfterOff`, `ClaimWhileOwner`; `OnlyOwnPauseUndone`, `ResumeAnswersPause` | one link event, one claim with one busy retry, one retry of the router; ear detection by its default rule with two players and queues of one |
| `store` | `FactsAreOwn`, `FreshMeansLive`, `EarOnItsSide`; `AnswerIsTrue`, `InertOnceAnswered`, `WatchersCatchUp`; `VerdictIsNotOlder`; `WireKeepsMeaning` | two devices, two buds; two clients and a queue of one; two writers of one key, two lines on their way; texts that end at, past and across the bound of 32 bytes |
| `forgotten_grace` | violation of `StopNeverWithinGrace` | as `stream`, without its constraint and without automatic take-over |
| `stale_call` | violation of `DisarmedNeverCalls` | as `recovery`, whatever the watcher does |
| `yield_stuck` | violation of `YieldedNeedsLink` | as `media` |
| `mismatch` | violation of `MismatchIsFresh` | as `aap_link`, a longer readback budget |

Why the bounds are enough. Windows of one or two units distinguish "before", "at"
and "after" for every comparison; where two windows interact their order is the
code's. Two players let one be re-paused, or touched by the user, and the other
not; a second other host would only be another sender of the same reports. A queue
of one is full with one element, which is when the code blocks or refuses. Three
generations are a link, its successor while work of the first is pending, and one
more. Two devices are the selected one and the one a late fact belongs to. The
constraints of `MCLinkRecovery` leave out what only decides whether a drop
qualifies, which is the subject of `decide`. In `media` nothing is assumed of how
fast the players, the D-Bus task and the two queues are: readings and commands wait
as long as they like, a full queue refuses a command, a player may not obey one, and
a lost session bus drops those that wait. A re-pause of the hold (`Pause` of one
player) is a `PausePlaying` that the other players do not obey. One reading of the
players (`read` of mpris.rs, a call to each) is taken at one instant. `hold`, `stream`, `decide`,
`recovery`, `aap_link` and `media` have a view that drops variables no
action reads (`out`, `does`, `rejoin_does`, ages whose window cannot matter under
the constraint); each MC module says which and why. Symmetry is used where no
property tells the permuted values apart: the two values of a setting, the devices
and the clients of `store`.

`store` also evaluates `SizesAreTheirs`: the sizes of the keys and fixed texts
of `Codec` are the lengths of their names, but for the address, whose name stands for
a text of 17 bytes. No run disables the deadlock check.

**Fairness.** `live` and `recovery` assume that the tick, the clock and the reading
of results are weakly fair. The supervisor's select reaches them whenever no earlier
branch is ready; the tick is the last branch, so a flood of packets or commands
without a pause could starve it, and the liveness results do not cover that.
`recovery` also assumes that a spawned connect ends, which the code enforces with
`REJOIN_CONNECT_TIMEOUT`. Nothing is assumed of the AirPods, BlueZ's signals, the
players, the other hosts or the user. The fairness of `recovery` has the view as
its subscript: a fair step is one that changes something a machine reads.
`ScanResumes`, `SilenceBounded` and `WatchersCatchUp` say "in time" as invariants:
they count the time that has passed, or look at a reader that is at rest.

## 4. Findings

| run | the text | the code |
|---|---|---|
| `forgotten_grace` | docs/BATTERY_AND_HANDOFF.md:127, no `NO` within 8 s of a take-over while the stream starts | `reset_link` forgets the take-over (handoff.rs:412) when the AAP link reopens, as a readback makes it do, although the transport and its stream are not touched: a pause then announces the stop after three seconds. `StopNeverEarly` names this exception, and holds |
| `stale_call` | autoconnect.rs:16-18, letting go "has to stick" | `LocalConnected` with a call in flight leaves the epoch standing, and the late task calls `Device1.Connect` after the user disconnected |
| `yield_stuck` | session.rs:774-776, with the link gone the A2DP profile is restored | `flush_handoff` performs a queued yield without looking at the link: after a failed opening, or a drop handled before the flush, the card is switched off with nothing left to put it back |
| `mismatch` | daemon/README.md:94, store.rs:129-131, a mismatch is what a fresh dump reported | a write within the readback window of a fresh link keeps the reports from before it, and is judged by them |

## 5. Stated, and known not to hold

These are definitions of the modules that no run repeats: the code does not keep
them, and for most a neighbour names the exception that does hold. They are of use
to whoever changes the code there.

| definition | says | what the code does |
|---|---|---|
| `HandoffHold!DisabledNeverRepauses` | handoff.rs:9-10, automatic actions need `[handoff] enabled` | the re-pause of a held player (handoff.rs:712) does not look at it |
| `RejoinWatch!OnePageAMinute` | rejoin.rs:53-54, not more than once a minute | `last_sequence` is the decision, not the deferred page; `SequencesSpaced` is what holds |
| `AapWatch!ReadbackEnds` (under `AapLiveSpec`) | daemon/README.md:96, no readback within 10 s ends as unverified | `finish_readback` clears the budget while a reopen is armed (session.rs:1084-1090), so the next waits without one |
| `EarWatch!UntouchedByTheUser` | ear_media.rs 21 and 27-28, only auris's own pause is undone, and a player the user touched is left alone | a reading says only whether something plays, so a stop by the user between a pause's decision and its effect is taken for auris's own (ear_media.rs 246-257). `OnlyOwnPauseUndone` excepts this race, `EarRace`, and holds |
| `EarWatch!RemovalPauses` | ear_media.rs:11, a removal pauses | `LinkClosed` clears the settled count (283-291): a removal across a reopen is a first report |
| `Telemetry!LoneBudSide` | the in-ear state of a lone bud is on its side | an advert marks a bud in the case as present, and its expiry does not assign the sides again (store.rs 221-237, 272-289, 498-517); `EarOnItsSide` excludes BLE cells |
| `CtlServer!SlotsAreForClients` | a slot is free once its client hung up | a subscriber's hang-up is noticed on the next change of the snapshot only (ctl_server.rs 245-270) |
| `SettingClient!VerdictIsOwn` | a verdict is that of the client's own write | two clients that write one key share its status |
| `AudioWatch!ReportIsAlwaysTrue` | bluez.rs:574, no change is lost | `select!` over three streams lets a signal overtake an older one |
| `Scanner!ModelIsTheirs` | docs/BATTERY_AND_HANDOFF.md:146, the model "from the DID when known" | read once when the scan starts (autoconnect.rs:834) |
| `Codec!KeptIsConfirmed` | a value kept is confirmed | a listening-mode cycle asked for in another order than the mask decodes to is a mismatch (settings.rs 96-108) |

`EarRace` has four ways to be met: the session decides a pause, or the user touches a
player, while a reading or a command is on its way; a player does not obey a pause;
the session bus is lost with commands waiting. With any one of them taken out of
`EarRace`, TLC finds `OnlyOwnPauseUndone` violated on the instance of `media`, so none
of them can be dropped. The exception ends with the next pause decided when nothing is
on its way. No exception are a full queue, a resume decided while readings or commands
still wait, and a `Play` that waits while the link, the card and the buds move.

Met while modelling, and not stated in a module:

- `on_packet` routes a lost ownership before the pause and the drain that
  audio_route.rs 16-27 asks for (session.rs 1219-1224).
- Suppression does not clear `verify_at`, and `auto_suppressed` is never read.
- A SIGTERM between pw-cli's switch and `note_yielded` (audio_route.rs 390-418)
  leaves the card off. `HandoffSession` has the step (`Terminate` between `Switch`
  and `Switched`); `RouteLanded` speaks of the time before it.
- A second eviction folded before the result of the rejoin's connect does not stop
  rejoining (session.rs:575 against rejoin.rs:60-61).
- A failed write of `state.json` waits for the next change; an unpinned daemon's
  first change replaces the cache by an empty block (writer.rs 73-93).
- `noise_control`, `conversational_awareness` and `adaptive_level` survive a change
  of device and a lost link (store.rs 409-457, against the comment at 436-437).
- `watch_audio_objects` and `watch_disconnected` are not restarted until the watch
  of the device is rebuilt (bluez.rs 186-200); an error of one device's property
  stream ends the whole scan; a device met with the watched set full is not followed
  later.
- The CLI's `read_line` under a timeout loses a snapshot it had read half of
  (auris.rs 398-424).

## 6. Proofs

TLAPS proves the theorems below for any set of hosts, players, devices and clients
and any values of the constants that the assumptions admit. *DurationAssumption*
asks for positive durations, a grace that is at least the check and the stop
windows, and an opening window shorter than its maximum, as the constants of
handoff.rs are; *NameAssumption* that the names of nobody are not names of somebody;
*RejoinAssumption* and *PoliciesAssumption* only that the delays are natural
numbers, that there is at least one attempt, and a busy retry or backoff for each
attempt but the last; *StoreAssumption* that the two buds are among the cells; *CtlAssumption* that the
bounds are numbers and the writer is nobody's client; *AutoAssumption* that
the delays and budgets are natural numbers and there is a backoff for each attempt
but the last; *ScannerAssumption* that the AirPods' addresses are among the addresses
and the waits and caps natural numbers; *AudioAssumption* that no path is that of two
kinds of transport; *RouteAssumption* that `off`, the hands-free profile and the names
for no card and no profile are not A2DP profiles, and the plain one is;
*EarAssumption* that times are natural numbers, a queue holds at least one element, and the names for
nobody and for nothing read yet are no player's; *CodecAssumption* that the offsets
at which a name's characters end increase and the bound of a short text is 31 or 32
bytes; *AapAssumption* that the delays are natural numbers and no value is `NoValue`;
*WatchdogAssumption*, which only `SilenceEnds` needs, that the battery watchdog has
spent its resends before the link counts as idle, as 10 s three times in 300 s have
(session.rs 63-72).

| theorem | property of |
|---|---|
| `HandoffProofs!TypeCorrect` | (`TypeOK`) |
| `HandoffProofs!RepauseSafe` | `RepauseOnlyWhileYielded` |
| `HandoffProofs!TakeOverFresh` | `TakeOverAnswersAFreshPlay` |
| `HandoffProofs!OneRepause` | `OneRepausePerRequest` |
| `HandoffProofs!TakeOverSustained` | `TakeOverNeedsSustainedPlay` |
| `HandoffProofs!StopTimely` | `StopNeverEarly` |
| `HandoffProofs!WarnedOnce` | `WarnedOncePerTakeOver` |
| `RejoinProofs!RejoinTypeCorrect` | (`RejoinTypeOK`) |
| `RejoinProofs!PagesAnswer` | `PageAnswersEviction` |
| `RejoinProofs!PagesBounded` | (`AttemptsBounded`) |
| `RejoinProofs!PagesSpaced` | `SequencesSpaced` |
| `RejoinProofs!PingPongEnds` | `PingPongStops` |
| `RejoinProofs!EvidenceFresh` | `EvidenceUsedOnce` |
| `AutoConnectProofs!AutoTypeCorrect` | (`AutoTypeOK`) |
| `AutoConnectProofs!UserDecision` | `UserDecisionSticks` |
| `AutoConnectProofs!AdvertArrival` | `AdvertPageNeedsArrival` |
| `AutoConnectProofs!FallbackOnSchedule` | `FallbackBounded` |
| `AutoConnectProofs!ScanWaitBounded` | `ScanResumes` |
| `AutoConnectProofs!AdvertsSeen` | `AdvertIsSeen` |
| `AutoConnectProofs!ReportStaysTrue` | `ReportIsTrue` |
| `MediaProofs!RouteTypeCorrect` | (`RouteTypeOK`) |
| `MediaProofs!SwitchStays` | `RouteLanded` |
| `MediaProofs!OffBeforeRelease` | `ReleaseAfterOff` |
| `MediaProofs!ClaimsEnd` | `ClaimWhileOwner` |
| `MediaProofs!ResumeInTime` | `ResumeAnswersPause` |
| `MediaProofs!OwnPauseOnly` | `OnlyOwnPauseUndone` |
| `RecoveryProofs!LinkTypeCorrect` | (`LinkTypeOK`) |
| `RecoveryProofs!PoliciesShareOnePager` | `OnePagerHolds` |
| `RecoveryProofs!NoSupersededRejoinPages` | `RejoinCallsStand` |
| `StatusProofs!TelemetryTypeCorrect` | (`TelemetryTypeOK`) |
| `StatusProofs!FactsStayOwn` | `FactsAreOwn` |
| `StatusProofs!FreshStaysLive` | `FreshMeansLive` |
| `StatusProofs!EarStaysOnItsSide` | `EarOnItsSide` |
| `StatusProofs!CtlTypeCorrect` | (`CtlTypeOK`) |
| `StatusProofs!AnswersAreTrue` | `AnswerIsTrue` |
| `StatusProofs!AnsweredStaysInert` | `InertOnceAnswered` |
| `StatusProofs!ReadersCatchUp` | `WatchersCatchUp` |
| `StatusProofs!ReportsNotOlder` | `VerdictIsNotOlder` |
| `WireProofs!WireKeeps` | `WireKeepsMeaning` |
| `WireProofs!TextsArrive` | (a text of `WireKeepsMeaning`) |
| `WireProofs!NumbersArrive` | (a number of `WireKeepsMeaning`) |
| `AapProofs!AapTypeCorrect` | (`AapTypeOK`) |
| `AapProofs!SocketStaysCurrent` | `SocketIsCurrent` |
| `AapProofs!OneUnattendedDial` | `OneAutomaticDial` |
| `AapProofs!CommandsActOnTheirLink` | `CommandActsOnItsLink` |
| `AapProofs!VerdictsAreTrue` | `VerdictIsTrue` |
| `AapProofs!SilenceEnds` | `SilenceBounded` |

The properties in parentheses have a theorem and no run of their own. `TextsArrive`
and `NumbersArrive` are about one object of a message, `WireKeeps` about whole
messages and settings.

Few of the properties are inductive, because each speaks of what a watch variable or
another actor saw and the steps read only the machine's own fields. The argument is
each time an invariant that ties the two together, kept by every action:

- `YieldInv`: a hold exists only while the audio is released, and nothing is
  released without a link. The step that re-pauses needs the hold, so it needs the
  release (`RepauseSafe`).
- `FreshInv`: a pending play edge is a play no request has come after, because every
  counted request drops the edge (`AskDropsEdge`). Its `CountInv`:
  whoever was paused again since the latest request is in `repaused`.
- `EdgeInv`: a pending edge is as old as the run of Playing readings it started.
  `QuietInv` and `GraceInv`: a pending stop is as old as the silence, and the
  take-over instant is the true one unless the audio was given up, when nothing is
  announced, or the link closed in between, the exception `StopNeverEarly` names.
  `WarnInv`: the time left to the stream check and the age of the take-over make up
  `STREAM_CHECK`, so a second warning would need a second take-over.
- `AnswerInv` of `RejoinProofs`: a pending sequence answers an eviction that stands,
  since whatever overrides one cancels. `CountInv`: the sequence has paged less
  often than its attempt number, once more when a connect is in flight. `LoopInv`:
  the machine's loop flag holds wherever the ping-pong was seen, and no sequence is
  pending under it. `SpacingInv`: the age behind the rate limit is no more than the
  age of the latest decision, so the deferral added to it makes up the spacing.
  `ToldInv`: hosts are listed only by a report not used up.
- `VetoInv` of `AutoConnectProofs`: while a user's decision stands the host is
  disarmed and has nothing pending, and the machine's absence is the silence the
  watch measures, so both end with the same advert. `ArrivalInv`: a pending sequence
  of an advert is still the arrival it answers, and what was heard last is no older
  than what the machine takes for the latest sign. `AwayInv`: the machine's away time
  is the one measured from the drop once it is anchored, and a due page counts down
  what is left of the interval since the latest page.
- `WaitInv`, for the scan: how long it could have run, phase by phase. Parked or
  resting it is no more than the wait itself, and only the settling of an adapter
  event adds to that, because every other way out of a park restarts one of the two.
  `FollowInv`: what discovery has not yet said is enough to bring the scan up to
  date. A device that has no unread event is followed or was refused, a followed
  address without a property stream has its removal ahead, and the latest unread
  event of an address is what BlueZ has.
- `ReadInv`, for the transports: whatever order `select!` reads the three streams in,
  of a transport that was not overtaken the latest unread signal says what it is
  (`LatestInv`), one that exists is announced after its unread removals (`AddedInv`),
  and it is known unless that announcement is unread (`KnownInv`). Reading a signal
  that nothing older is behind keeps all three; with nothing unread they say that
  what is known is what BlueZ has. `OlderUnread` is exactly the exception needed.
- `SwitchInv` of `MediaProofs`: there is one switching task at most, it works for the
  mode asked for last, and a switch that reached PipeWire is where the card is, unless
  news of the link's end is on its way. `QueueOK` and `BatchOK`: what is queued and
  what is left of a batch are the few suffixes of a decision, and a yield with only
  its release left has waited for the card. `AliveOK` connects the two: a socket that
  is alive has no news of its end. `ClaimInv`: a claim whose epoch stands is an
  owner's, since whatever takes the audio away bumps the epoch.
- `AgeInv`, for ear detection: what the machine remembers of its pause is the pause.
  `OwnInv`: until the stop it asked for is heard nothing else is on its way to the
  machine (`Confirming`), and afterwards whatever plays ends the pause (`Confirmed`),
  so a player still remembered, or queued to be started (`CommandInv`), has not been
  touched. Both hold while no ear race was met (`raced \/ OwnOK`): each clause of
  `EarRace` is the one way in which a step of the user, of a player or of the bus
  could break them, and a pause decided with nothing on its way establishes them
  again from what is heard alone (`FreshPause`). `HeardInv` makes the queue's last
  reading the one the D-Bus task sent.
- `PagerInv` of `RecoveryProofs`: while a rejoin is pending there is no sequence of
  the auto-connect, and a sequence that waits has attempts left. That is the whole
  refinement: each handler is one step of `OnePager` or none, although it calls both
  machines, because the rejoin is asked first and the auto-connect reads its answer.
  `CallInv`: a sequence has at most one task or one result that carries its number,
  and only while it is in flight; a task that finds its own epoch is the pending
  sequence's.
- `OwnInv` of `StatusProofs`: whatever resolves a later packet (the last in-ear
  report, the name) is the selected device's, and a packet still to come is the
  peer's, which is the selected device. `LiveInv`: a fresh AAP cell needs the
  socket, a fresh BLE one the observer. `SideInv`: with the battery packet in, the
  cells say which bud is out; with the in-ear packet in, its report is that of a
  primary bud; with both, the sides are those the cells resolve the report to, so
  the order of the packets does not matter.
- `CtlInv` of `StatusProofs` (`CourseType`, `CourseInv`): a client's handler, the queue,
  the supervisor's command and the answer are in one of the few combinations a
  request passes through. `WatchInv`: a reader at rest has either not seen a change,
  or shown it, or lost it to a failed write.
- `TextsArrive` and `NumbersArrive`, for the wire: `opack_str` cuts at the greatest
  boundary that fits, which exists because 0 is one (`Greatest`); the next character
  would not fit, or it would be the greater one (`Cut`). The tag is then 64 and that
  length, at most 96, so the reader takes it for a text and for nothing else, from
  *CodecAssumption*: the boundaries of a name increase and the bound is 31 or 32.
- `WireInv` of `WireProofs` says only that what is kept or relayed is what
  `encode_set_setting` and `Body` make of what was asked for; the work is in what a
  reader finds there. `Reads` follows the reader through the ten objects of a body
  (`TenObjects`, `FiveEntries`), each on the ground of the two theorems above; a field
  is found by its key because no two keys are equal and no name is a key. The text
  that makes the other host yield is 31 bytes which occur in no other message
  (`PlainTyped`). The mask of a listening-mode cycle is a sum of different powers of
  two; the lemmas follow its four bits one by one, so no induction is needed.
- `ClientInv` (`AnswerInv`, `LineInv`, `OutcomeInv`): what is on its way to a client
  was sent after its write was recorded.
- `Together` of `AapProofs`. `LinkInv`: an opening carries a generation the link has
  reached and goes on only while it is still the link's, so the socket it ends in is
  current. `DialInv`: while the automatic dial is armed, or taken and not yet made,
  none was made; each new link starts the count again and makes an opening of the
  old one stale. `CmdInv`: a command whose mark still says current was sent under
  this very generation, since every step that changes the link clears the mark.
  `FreshInv`: of a setting not written since the last dump, what was reported and
  what is still to come is the value the AirPods hold; without a socket nothing was
  reported. `SilenceInv`: the silence is no more than the resends and the handshake
  timer account for, and after a battery report than the idle time and the probe do;
  between two ticks it is less, because the tick acts on equality.

The types are proved in parts (switches, values, the pending sequence) because the
solver does the arithmetic and the Boolean variables better apart. Several of the
type theorems say more than types and need the invariants above: `LinkTypeCorrect`
that an epoch names a sequence that was begun (`Numbered`), so that no task is ever
taken for one of a later sequence; `AapTypeCorrect` that a socket is of a generation
the link had, from `LinkInv`; `CtlTypeCorrect` that the queue and the waiting time
keep their bounds; `RouteTypeCorrect` that one switching task runs at most, also while
the daemon exits (`OneTask`), and that a flush under way has an action left.

Only model-checked: everything under fairness (`StopIsAnnounced`, `PressTakesOver`,
`RejoinEnds`, `AutoEnds`), which is out of the prover's reach, and the four
violations. Every other property of a passing run has a theorem.

## 7. Not modelled

The QML panel keeps no protocol state. Of the components listed as partly modelled,
these are left out: the bytes of the fixed handshake frames and of the BLE adverts
with their decryption; the choice of adapter and device and the watcher's retries in
`bluez.rs`; `send_control`'s optimistic update and packets that change no state; the
published views of handoff and link, and the settings' own values, in `store.rs`;
the temporary file and rename in `writer.rs`; parsing and printing of the CLI, of
the configuration and of JSON; logging. The recovery runs take one sequence of each
policy: a second one, or a third attempt, takes TLC beyond the few minutes a run may
last, and the safety theorems of `RecoveryProofs` cover every number of them.

## 8. Plan

1. A composition of `Handoff` with `HandoffSession`, so that the queue carries the
   machine's own decisions, and exclusive ownership as its abstract specification.
2. Retries of the watcher (`bluez.rs` `watch`) and the choice of the device, below
   `LinkRecovery` and `AapLink`.
