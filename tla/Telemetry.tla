------------------------------ MODULE Telemetry ------------------------------
(***************************************************************************)
(* Everything that tells the store about the accessory: the link events    *)
(* (session.rs on_link), the packets of an opening or open AAP socket      *)
(* (on_packet), the proximity adverts of the pinned device and their       *)
(* expiry (ble.rs), the battery cache that outlives the process (cache.rs, *)
(* writer.rs) and the start, stop and crash of the daemon (bin/aurisd.rs). *)
(*                                                                         *)
(* The AirPods are the environment: a bud is worn, out, or in the case; a  *)
(* change makes them report battery and in-ear state, in either order, and *)
(* a report tells the state at the time it is delivered.  The primary bud  *)
(* is the one that is out; with both out, or both away, it may be either.  *)
(* The battery reports a bud as present when it is out of the case.        *)
(***************************************************************************)
EXTENDS Store

VARIABLES
    up,             \* the daemon runs
    pin,            \* the device of --device or the config, or NoDevice
    s,              \* the snapshot
    peer,           \* the device the AAP socket, opening or open, talks to
    worn,           \* where the buds of the peer are
    pending,        \* reports the peer has on their way
    cache           \* battery.json

tvars == <<up, pin, s, peer, worn, pending, cache>>

Unseen == [b \in Buds |-> "case"]          \* worn, with nobody to tell
Out(b) == worn[b] # "case"
SocketEnds == peer' = NoDevice /\ pending' = {} /\ worn' = Unseen
CacheDocument == [address: Origins, of: [Cells -> Origins]]

(* cache::load and save.  A restored cell is history. *)
load_AnyAddress(address) ==
    IF address = NoDevice THEN NoCells
    ELSE [c \in Cells |-> [NoCell EXCEPT !.of = cache.of[c]]]
load(address) ==
    IF address = NoDevice \/ cache.address # address THEN NoCells
    ELSE [c \in Cells |-> [NoCell EXCEPT !.of = cache.of[c]]]
save == [address |-> s.address, of |-> [c \in Cells |-> s.cells[c].of]]

TelemetryInit ==
    /\ up = FALSE /\ pin = NoDevice
    /\ s = InitialSnapshot(NoDevice, NoCells)
    /\ peer = NoDevice /\ worn = Unseen /\ pending = {}
    /\ cache = [address |-> NoDevice, of |-> [c \in Cells |-> NoDevice]]

----------------------------------------------------------------------------
(* The process. *)
Start(p) ==
    /\ ~up /\ up' = TRUE /\ pin' = p
    /\ s' = InitialSnapshot(p, load(p))
    /\ UNCHANGED <<peer, worn, pending, cache>>

(* SIGTERM: the closing state is published from the end of main. *)
Stop ==
    /\ up /\ up' = FALSE
    /\ s' = ExpireBle(AapLink(s, FALSE), 0)
    /\ SocketEnds /\ UNCHANGED <<pin, cache>>

(* A crash leaves the snapshot of nobody; only the cache is kept. *)
Crash ==
    /\ up /\ up' = FALSE
    /\ s' = InitialSnapshot(NoDevice, NoCells)
    /\ SocketEnds /\ UNCHANGED <<pin, cache>>

(* writer::run saves the readings when they differ from the last it saved; *)
(* saving the same again changes nothing.                                  *)
WriterSaves ==
    /\ up /\ cache' = save
    /\ UNCHANGED <<up, pin, s, peer, worn, pending>>

----------------------------------------------------------------------------
(* on_link.  drop_socket ends the socket and applies AapLink(false). *)
Environment == <<up, pin, cache>>

Selected(d, named) ==           \* another adapter, pin or device
    /\ up /\ pin \in {NoDevice, d}
    /\ s' = Identity(AclConnected(AapLink(s, FALSE), FALSE), d, named)
    /\ SocketEnds /\ UNCHANGED Environment

Refreshed(named) ==             \* the same identity again
    /\ up /\ s.address # NoDevice
    /\ s' = Identity(s, s.address, named)
    /\ UNCHANGED <<peer, worn, pending, Environment>>

Connected ==
    /\ up /\ s.address # NoDevice /\ ~s.connected
    /\ s' = AclConnected(s, TRUE)
    /\ UNCHANGED <<peer, worn, pending, Environment>>

Disconnected ==
    /\ up /\ s.connected
    /\ s' = AclConnected(AapLink(s, FALSE), FALSE)
    /\ SocketEnds /\ UNCHANGED Environment

----------------------------------------------------------------------------
(* The AAP socket: its packets are handled from the opening on. *)
OpeningStarts ==
    /\ up /\ s.connected /\ peer = NoDevice
    /\ peer' = s.address /\ worn' \in [Buds -> Worn \ {"unknown"}]
    /\ pending' = {"battery", "ear"}
    /\ UNCHANGED <<s, Environment>>

Promoted ==
    /\ peer # NoDevice /\ ~s.aap_link
    /\ s' = AapLink(s, TRUE)
    /\ UNCHANGED <<peer, worn, pending, Environment>>

LinkLost ==                     \* a failed opening, or drop_socket
    /\ peer # NoDevice
    /\ s' = AapLink(s, FALSE)
    /\ SocketEnds /\ UNCHANGED Environment

(* The battery packet: the cells the peer has measured are present. *)
BatteryPacket ==
    /\ "battery" \in pending
    /\ s' = Battery(s, peer, {b \in Buds : Out(b)})
    /\ pending' = pending \ {"battery"}
    /\ UNCHANGED <<peer, worn, Environment>>

EarPacket ==
    /\ "ear" \in pending
    /\ \E primary \in Buds :
        LET secondary == CHOOSE b \in Buds : b # primary IN
        /\ Out(primary) \/ ~Out(secondary)
        /\ s' = Ear(s, [of |-> peer, primary |-> worn[primary], secondary |-> worn[secondary]])
    /\ pending' = pending \ {"ear"}
    /\ UNCHANGED <<peer, worn, Environment>>

MetadataPacket ==
    /\ peer # NoDevice
    /\ s' = Metadata(s, peer)
    /\ UNCHANGED <<peer, worn, pending, Environment>>

BudMoves(b, where) ==
    /\ peer # NoDevice /\ worn[b] # where
    /\ worn' = [worn EXCEPT ![b] = where]
    /\ pending' = {"battery", "ear"}
    /\ UNCHANGED <<s, peer, Environment>>

----------------------------------------------------------------------------
(* The proximity observer: it needs a pin, and hears that device only. *)
Advert(seen) ==
    /\ up /\ pin # NoDevice
    /\ s' = BleBattery(s, pin, seen)
    /\ UNCHANGED <<peer, worn, pending, Environment>>

(* A second: readings age, and the observer expires the old ones. *)
Older(cell) ==
    IF cell.fresh /\ cell.age <= FRESHNESS THEN [cell EXCEPT !.age = @ + 1] ELSE cell
Second ==
    /\ up
    /\ LET aged == [s EXCEPT !.cells = [c \in Cells |-> Older(s.cells[c])]] IN
       s' = IF pin = NoDevice THEN aged ELSE ExpireBle(aged, FRESHNESS + 1)
    /\ UNCHANGED <<peer, worn, pending, Environment>>

TelemetryNext ==
    \/ \E p \in Origins : Start(p)
    \/ Stop \/ Crash \/ WriterSaves
    \/ \E d \in Devices, named \in BOOLEAN : Selected(d, named)
    \/ \E named \in BOOLEAN : Refreshed(named)
    \/ Connected \/ Disconnected \/ OpeningStarts \/ Promoted \/ LinkLost
    \/ BatteryPacket \/ EarPacket \/ MetadataPacket
    \/ \E b \in Buds, where \in Worn \ {"unknown"} : BudMoves(b, where)
    \/ \E seen \in SUBSET Cells : Advert(seen)
    \/ Second

TelemetrySpec == TelemetryInit /\ [][TelemetryNext]_tvars

----------------------------------------------------------------------------
TelemetryTypeOK ==
    /\ up \in BOOLEAN /\ pin \in Origins /\ s \in Snapshot /\ peer \in Origins
    /\ worn \in [Buds -> Worn] /\ pending \subseteq {"battery", "ear"}
    /\ cache \in CacheDocument

(* Every published reading, in-ear state and name was measured on, or is   *)
(* the name of, the selected device, whatever devices were selected        *)
(* before, in this process or an earlier one, and so is what the store     *)
(* keeps aside to resolve later packets (store.rs 432-459, 509-511;        *)
(* cache.rs 34-37).                                                        *)
FactsAreOwn ==
    /\ \A c \in Cells : s.cells[c].of \in {NoDevice, s.address}
    /\ {s.ear.of, s.last_ear.of, s.name, s.metadata_name} \subseteq {NoDevice, s.address}

(* A fresh reading has somebody who would notice it is no longer true: the *)
(* AAP socket it came over is still there, or it is a BLE reading younger  *)
(* than the freshness window; and a bud is called present exactly when its *)
(* reading is fresh.  The daemon restores no reading as fresh and leaves   *)
(* none behind when it is stopped (store.rs 239-252, 526-547; cache.rs     *)
(* 38-44; bin/aurisd.rs 167-175).                                          *)
FreshMeansLive ==
    \A c \in Cells :
        LET cell == s.cells[c] IN
        /\ cell.present = cell.fresh
        /\ cell.fresh => \/ cell.source = "aap" /\ peer # NoDevice
                         \/ cell.source = "ble" /\ up /\ cell.age <= FRESHNESS

(* With every report delivered and exactly one bud out of the case, that   *)
(* bud's state is published on its own side, in whatever order the battery *)
(* and in-ear packets came (store.rs 265-277, 497-505).  Only for sides    *)
(* whose readings come from AAP: see LoneBudSide.                          *)
LoneBud(b) == Out(b) /\ \A other \in Buds \ {b} : ~Out(other)
Reported == peer # NoDevice /\ pending = {}
OnItsSide(b) == (IF b = "left" THEN s.ear.left ELSE s.ear.right) = worn[b]
EarOnItsSide ==
    (Reported /\ PRIMARY_BUD = "auto" /\ \A b \in Buds : s.cells[b].source # "ble")
        => \A b \in Buds : LoneBud(b) => OnItsSide(b)

(* The same whatever the proximity observer said: it adds battery only,    *)
(* never ear state (daemon/README.md 301-305).                             *)
LoneBudSide == Reported => \A b \in Buds : LoneBud(b) => OnItsSide(b)
=============================================================================
