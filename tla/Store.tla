-------------------------------- MODULE Store --------------------------------
(***************************************************************************)
(* The telemetry half of the published snapshot (store.rs): who is         *)
(* selected, the battery cells, the in-ear states and the name.  The       *)
(* readback half is in Readback.  The snapshot is a value and an Update a  *)
(* function on it, as mutate is in store.rs.                               *)
(*                                                                         *)
(* A fact carries no content but the device it was measured on: levels,    *)
(* charging and strings are left out, `of` is what the properties ask      *)
(* about.  The private Aux of the store (last_ear, metadata_name) is part  *)
(* of the record.                                                          *)
(***************************************************************************)
EXTENDS Naturals

CONSTANTS
    Devices, NoDevice,      \* NoDevice: the empty address
    Cells,                  \* battery cells; the two buds are among them
    PRIMARY_BUD,            \* config primary_bud
    RECENT,                 \* recent_aap: 15 s
    FRESHNESS               \* BleConfig freshness_seconds

ASSUME StoreAssumption ==
    /\ NoDevice \notin Devices /\ {"left", "right"} \subseteq Cells
    /\ PRIMARY_BUD \in {"auto", "left", "right"}
    /\ RECENT \in Nat /\ FRESHNESS \in Nat

Buds == {"left", "right"}
Origins == Devices \cup {NoDevice}
Worn == {"unknown", "ear", "out", "case"}
Cell == [of: Origins, source: {"none", "aap", "ble"}, fresh: BOOLEAN,
         present: BOOLEAN, age: 0..FRESHNESS + 1]
Snapshot ==
    [address: Origins, connected: BOOLEAN, aap_link: BOOLEAN,
     cells: [Cells -> Cell],
     ear: [of: Origins, left: Worn, right: Worn],
     last_ear: [of: Origins, primary: Worn, secondary: Worn],
     name: Origins, metadata_name: Origins]

NoCell == [of |-> NoDevice, source |-> "none", fresh |-> FALSE, present |-> FALSE, age |-> 0]
NoCells == [c \in Cells |-> NoCell]
NoEar == [of |-> NoDevice, left |-> "unknown", right |-> "unknown"]
NoReport == [of |-> NoDevice, primary |-> "unknown", secondary |-> "unknown"]

(* Snapshot::initial, with the battery the cache gave back. *)
InitialSnapshot(address, cells) ==
    [address |-> address, connected |-> FALSE, aap_link |-> FALSE, cells |-> cells,
     ear |-> NoEar, last_ear |-> NoReport, name |-> NoDevice, metadata_name |-> NoDevice]

(* What is left of a reading that no longer holds: dimmed, with its origin. *)
Historical(cell) == [cell EXCEPT !.fresh = FALSE, !.present = FALSE, !.age = 0]
Measured(d, by) == [of |-> d, source |-> by, fresh |-> TRUE, present |-> TRUE, age |-> 0]

(* apply_cell: an absent bud does not dim a BLE observation. *)
apply_cell(cell, d, present) ==
    IF present THEN Measured(d, "aap")
    ELSE IF cell.source = "ble" /\ cell.fresh THEN cell ELSE Historical(cell)

invalidate_aap_Nothing(cells) == cells
invalidate_aap(cells) ==
    [c \in Cells |-> IF cells[c].source = "ble" THEN cells[c] ELSE Historical(cells[c])]

recent_aap(cell) == cell.fresh /\ cell.source = "aap" /\ cell.age < RECENT

(* Which side the primary byte describes. *)
primary_is_left(cells) ==
    CASE PRIMARY_BUD = "left" -> TRUE
      [] PRIMARY_BUD = "right" -> FALSE
      [] OTHER -> cells["left"].present \/ ~cells["right"].present

assign_ear(s, report) ==
    [s EXCEPT !.ear =
        IF primary_is_left(s.cells)
        THEN [of |-> report.of, left |-> report.primary, right |-> report.secondary]
        ELSE [of |-> report.of, left |-> report.secondary, right |-> report.primary]]

----------------------------------------------------------------------------
(* The Updates of mutate. *)

(* Identity: another address keeps nothing; BlueZ's name is a fallback. *)
Identity(s, d, named) ==
    LET other == s.address \notin {NoDevice, d}
        old == IF other
               THEN [s EXCEPT !.cells = NoCells, !.ear = NoEar, !.last_ear = NoReport,
                              !.name = NoDevice, !.metadata_name = NoDevice]
               ELSE s
    IN  [old EXCEPT !.address = d,
                    !.name = IF named /\ old.metadata_name = NoDevice THEN d ELSE @]

AclConnected(s, up) ==
    IF up THEN [s EXCEPT !.connected = TRUE]
    ELSE [s EXCEPT !.connected = FALSE, !.aap_link = FALSE, !.cells = invalidate_aap(@),
                   !.ear = NoEar, !.last_ear = NoReport]

(* AapLink: a lost socket leaves the in-ear states as they were. *)
AapLink(s, up) ==
    IF up THEN [s EXCEPT !.aap_link = TRUE]
    ELSE [s EXCEPT !.aap_link = FALSE, !.cells = invalidate_aap(@)]

(* Battery: present is what resolves the last in-ear report, so it is redone. *)
Battery_KeepsSides(s, d, present) ==
    [s EXCEPT !.cells = [c \in Cells |-> apply_cell(s.cells[c], d, c \in present)]]
Battery(s, d, present) ==
    LET told == [s EXCEPT !.cells =
                    [c \in Cells |-> apply_cell(s.cells[c], d, c \in present)]]
    IN  IF s.last_ear = NoReport THEN told ELSE assign_ear(told, s.last_ear)

BleBattery(s, d, seen) ==
    IF s.address # d THEN s ELSE
    [s EXCEPT !.cells = [c \in Cells |->
         IF c \in seen /\ ~recent_aap(s.cells[c]) THEN Measured(d, "ble") ELSE s.cells[c]]]

(* ExpireBle: readings older than the cutoff are history. *)
ExpireBle(s, freshness) ==
    [s EXCEPT !.cells = [c \in Cells |->
         IF s.cells[c].source = "ble" /\ s.cells[c].fresh /\ s.cells[c].age >= freshness
         THEN Historical(s.cells[c]) ELSE s.cells[c]]]

Ear(s, report) == assign_ear([s EXCEPT !.last_ear = report], report)

Metadata(s, d) == [s EXCEPT !.name = d, !.metadata_name = d]

(* The two derived fields mutate ends with. *)
stale(s) == \A c \in Cells : ~s.cells[c].fresh
source(s) ==
    CASE s.aap_link -> "aap"
      [] ~s.aap_link /\ (\E c \in Cells : s.cells[c].fresh /\ s.cells[c].source = "ble") -> "ble"
      [] OTHER -> "none"
=============================================================================
