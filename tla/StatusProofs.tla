--------------------------- MODULE StatusProofs ---------------------------
(***************************************************************************)
(* From the readings to the user: the snapshot that is published, the      *)
(* control socket that serves it, and the client that reads a verdict from *)
(* it; for any devices, cells, freshness window, clients, queue, cap and   *)
(* deadline.                                                               *)
(*                                                                         *)
(* The snapshot.  What is published is the selected device's and, where it *)
(* is called fresh, watched over.  FactsAreOwn speaks of the snapshot      *)
(* alone, but packets are measured on the peer of the socket and a start   *)
(* takes what the cache holds: OwnInv adds that the peer is the selected   *)
(* device and that the cache holds the readings of the device it names.    *)
(* Each update of the store has a lemma for its type, its device and its   *)
(* facts.  FreshMeansLive follows from LiveInv: the fresh cells are those  *)
(* of the sources in `heard', the socket while there is one and the        *)
(* observer while the daemon runs with a pinned device.  A step that       *)
(* silences a source dims its cells.                                       *)
(*                                                                         *)
(* The server.  An answer is true, an answered command stays inert, no     *)
(* reader of the watch channel misses the last change.  A command leaves   *)
(* its handler for the queue and then for on_command, and the handler does *)
(* not wait for it for ever.  CourseInv keeps the two sides together:      *)
(* while a request is only being sent nothing of it is in the queue or at  *)
(* work, and once it is answered its handler waits for nothing, which is   *)
(* what every effect asks first.                                           *)
(*                                                                         *)
(* The client.  A step that reports takes its verdict from a line, and a   *)
(* line was the status when it was sent.  The invariant follows that way   *)
(* back: once a client has its answer, the status and every line it has    *)
(* not read are about its write or a later one, because only a write       *)
(* changes what the status is about and the writes are numbered in their   *)
(* order.                                                                  *)
(***************************************************************************)
EXTENDS Telemetry, CtlServer, SettingClient, SequenceTheorems, FiniteSetTheorems, TLAPS

(* A snapshot whose facts are its device's, and a cell somebody watches. *)
Own(t) ==
    /\ \A c \in Cells : t.cells[c].of \in {NoDevice, t.address}
    /\ t.ear.of \in {NoDevice, t.address} /\ t.last_ear.of \in {NoDevice, t.address}
    /\ t.name \in {NoDevice, t.address} /\ t.metadata_name \in {NoDevice, t.address}

LEMMA OwnIsFacts == FactsAreOwn <=> Own(s)
BY DEF FactsAreOwn, Own

----------------------------------------------------------------------------
(* The updates: the type of the snapshot, its device, and whose its facts are. *)
LEMMA CellsTyped ==
    /\ NoCell \in Cell
    /\ \A cell \in Cell : Historical(cell) \in Cell
    /\ \A d \in Origins, by \in {"aap", "ble"} : Measured(d, by) \in Cell
<1>1. NoCell \in Cell
  BY StoreAssumption DEF NoCell, Cell, Origins
<1>2. ASSUME NEW cell \in Cell PROVE Historical(cell) \in Cell
  <2>1. 0 \in 0..FRESHNESS + 1
    BY StoreAssumption
  <2> QED BY <2>1 DEF Cell, Historical
<1>3. ASSUME NEW d \in Origins, NEW by \in {"aap", "ble"} PROVE Measured(d, by) \in Cell
  BY StoreAssumption DEF Cell, Measured
<1> QED BY <1>1, <1>2, <1>3

LEMMA InvalidateTyped ==
    ASSUME NEW cells \in [Cells -> Cell]
    PROVE  /\ invalidate_aap(cells) \in [Cells -> Cell]
           /\ \A c \in Cells : invalidate_aap(cells)[c].of = cells[c].of
<1>1. \A cell \in Cell : Historical(cell) \in Cell /\ Historical(cell).of = cell.of
  BY CellsTyped DEF Historical, Cell
<1> QED BY <1>1 DEF invalidate_aap

LEMMA AapLinkOwn ==
    ASSUME NEW t \in Snapshot, NEW b \in BOOLEAN
    PROVE  /\ AapLink(t, b) \in Snapshot
           /\ AapLink(t, b).address = t.address /\ AapLink(t, b).connected = t.connected
           /\ AapLink(t, b).cells = IF b THEN t.cells ELSE invalidate_aap(t.cells)
           /\ Own(t) => Own(AapLink(t, b))
<1>1. t.cells \in [Cells -> Cell]
  BY DEF Snapshot
<1> QED BY <1>1, InvalidateTyped DEF AapLink, Snapshot, Own

LEMMA AclConnectedOwn ==
    ASSUME NEW t \in Snapshot, NEW b \in BOOLEAN
    PROVE  /\ AclConnected(t, b) \in Snapshot
           /\ AclConnected(t, b).address = t.address /\ AclConnected(t, b).connected = b
           /\ AclConnected(t, b).cells = IF b THEN t.cells ELSE invalidate_aap(t.cells)
           /\ Own(t) => Own(AclConnected(t, b))
<1>1. t.cells \in [Cells -> Cell]
  BY DEF Snapshot
<1>2. /\ NoEar \in [of: Origins, left: Worn, right: Worn] /\ NoEar.of = NoDevice
      /\ NoReport \in [of: Origins, primary: Worn, secondary: Worn] /\ NoReport.of = NoDevice
  BY DEF NoEar, NoReport, Origins, Worn
<1> QED BY <1>1, <1>2, InvalidateTyped DEF AclConnected, Snapshot, Own

LEMMA IdentityOwn ==
    ASSUME NEW t \in Snapshot, NEW d \in Origins, NEW named \in BOOLEAN
    PROVE  /\ Identity(t, d, named) \in Snapshot
           /\ Identity(t, d, named).address = d
           /\ Identity(t, d, named).connected = t.connected
           /\ Identity(t, d, named).cells = IF t.address \in {NoDevice, d} THEN t.cells ELSE NoCells
           /\ Own(t) => Own(Identity(t, d, named))
<1>1. /\ NoEar \in [of: Origins, left: Worn, right: Worn] /\ NoEar.of = NoDevice
      /\ NoReport \in [of: Origins, primary: Worn, secondary: Worn] /\ NoReport.of = NoDevice
      /\ NoCells \in [Cells -> Cell] /\ \A c \in Cells : NoCells[c].of = NoDevice
      /\ NoDevice \in Origins
  BY CellsTyped DEF NoEar, NoReport, NoCells, NoCell, Origins, Worn
<1> DEFINE old == [t EXCEPT !.cells = NoCells, !.ear = NoEar, !.last_ear = NoReport,
                            !.name = NoDevice, !.metadata_name = NoDevice]
<1>2. /\ old \in Snapshot /\ old.address = t.address /\ old.connected = t.connected
      /\ old.cells = NoCells /\ old.ear = NoEar /\ old.last_ear = NoReport
      /\ old.name = NoDevice /\ old.metadata_name = NoDevice
  BY <1>1 DEF Snapshot
<1> HIDE DEF old
<1>3. CASE t.address \in {NoDevice, d}
  <2>1. Identity(t, d, named) =
          [t EXCEPT !.address = d, !.name = IF named /\ t.metadata_name = NoDevice THEN d ELSE @]
    BY <1>3 DEF Identity
  <2> QED BY <1>3, <2>1 DEF Snapshot, Own
<1>4. CASE t.address \notin {NoDevice, d}
  <2>1. Identity(t, d, named) =
          [old EXCEPT !.address = d, !.name = IF named /\ old.metadata_name = NoDevice THEN d ELSE @]
    BY <1>4 DEF Identity, old
  <2> QED BY <1>1, <1>2, <1>4, <2>1 DEF Snapshot, Own
<1> QED BY <1>3, <1>4

(* assign_ear changes the in-ear states alone, and they are the report's. *)
LEMMA AssignOwn ==
    ASSUME NEW t \in Snapshot, NEW report \in [of: Origins, primary: Worn, secondary: Worn]
    PROVE  \E e \in [of: {report.of}, left: Worn, right: Worn] :
              assign_ear(t, report) = [t EXCEPT !.ear = e]
<1>1. CASE primary_is_left(t.cells)
  BY <1>1 DEF assign_ear
<1>2. CASE ~primary_is_left(t.cells)
  BY <1>2 DEF assign_ear
<1> QED BY <1>1, <1>2

LEMMA BatteryOwn ==
    ASSUME NEW t \in Snapshot, NEW present \in SUBSET Buds, t.address # NoDevice
    PROVE  /\ Battery(t, t.address, present) \in Snapshot
           /\ Battery(t, t.address, present).address = t.address
           /\ Battery(t, t.address, present).connected = t.connected
           /\ Battery(t, t.address, present).cells =
                [c \in Cells |-> apply_cell(t.cells[c], t.address, c \in present)]
           /\ Own(t) => Own(Battery(t, t.address, present))
<1> DEFINE cells == [c \in Cells |-> apply_cell(t.cells[c], t.address, c \in present)]
           told == [t EXCEPT !.cells = cells]
<1>0. t.address \in Origins /\ t.cells \in [Cells -> Cell]
  BY DEF Snapshot
<1>1. ASSUME NEW c \in Cells
      PROVE  cells[c] \in Cell /\ cells[c].of \in {t.cells[c].of, t.address}
  <2>1. cells[c] \in {Measured(t.address, "aap"), t.cells[c], Historical(t.cells[c])}
    BY DEF apply_cell
  <2>2. Measured(t.address, "aap").of = t.address /\ Historical(t.cells[c]).of = t.cells[c].of
    BY <1>0 DEF Measured, Historical, Cell
  <2> QED BY <1>0, <2>1, <2>2, CellsTyped
<1> HIDE DEF cells
<1>2. cells \in [Cells -> Cell]
  BY <1>1 DEF cells
<1>3. /\ told \in Snapshot /\ told.address = t.address /\ told.connected = t.connected
      /\ told.cells = cells
      /\ told.ear = t.ear /\ told.last_ear = t.last_ear /\ told.name = t.name
      /\ told.metadata_name = t.metadata_name
  BY <1>2 DEF Snapshot
<1> HIDE DEF told
<1>4. Own(t) => Own(told)
  BY <1>1, <1>3 DEF Own
<1>5. CASE t.last_ear = NoReport
  <2>1. Battery(t, t.address, present) = told
    BY <1>5 DEF Battery, told, cells
  <2> QED BY <1>3, <1>4, <2>1 DEF cells
<1>6. CASE t.last_ear # NoReport
  <2>1. Battery(t, t.address, present) = assign_ear(told, t.last_ear)
    BY <1>6 DEF Battery, told, cells
  <2>2. t.last_ear \in [of: Origins, primary: Worn, secondary: Worn]
    BY DEF Snapshot
  <2>3. PICK e \in [of: {t.last_ear.of}, left: Worn, right: Worn] :
          assign_ear(told, t.last_ear) = [told EXCEPT !.ear = e]
    BY <1>3, <2>2, AssignOwn
  <2> QED BY <1>3, <1>4, <2>1, <2>2, <2>3 DEF Snapshot, Own, cells
<1> QED BY <1>5, <1>6

LEMMA EarOwn ==
    ASSUME NEW t \in Snapshot, NEW report \in [of: Origins, primary: Worn, secondary: Worn],
           report.of = t.address
    PROVE  /\ Ear(t, report) \in Snapshot
           /\ Ear(t, report).address = t.address /\ Ear(t, report).connected = t.connected
           /\ Ear(t, report).cells = t.cells
           /\ Own(t) => Own(Ear(t, report))
<1> DEFINE told == [t EXCEPT !.last_ear = report]
<1>1. /\ told \in Snapshot /\ told.address = t.address /\ told.connected = t.connected
      /\ told.cells = t.cells /\ told.ear = t.ear /\ told.last_ear = report
      /\ told.name = t.name /\ told.metadata_name = t.metadata_name
  BY DEF Snapshot
<1> HIDE DEF told
<1>2. Ear(t, report) = assign_ear(told, report)
  BY DEF Ear, told
<1>3. PICK e \in [of: {report.of}, left: Worn, right: Worn] :
        assign_ear(told, report) = [told EXCEPT !.ear = e]
  BY <1>1, AssignOwn
<1> QED BY <1>1, <1>2, <1>3 DEF Snapshot, Own

LEMMA BleOwn ==
    ASSUME NEW t \in Snapshot, NEW d \in Origins, NEW seen \in SUBSET Cells
    PROVE  /\ BleBattery(t, d, seen) \in Snapshot
           /\ BleBattery(t, d, seen).address = t.address
           /\ BleBattery(t, d, seen).connected = t.connected
           /\ \A c \in Cells : BleBattery(t, d, seen).cells[c] \in {t.cells[c], Measured(d, "ble")}
           /\ Own(t) => Own(BleBattery(t, d, seen))
<1>1. CASE t.address # d
  BY <1>1 DEF BleBattery
<1>2. CASE t.address = d
  <2>1. t.cells \in [Cells -> Cell] /\ Measured(d, "ble") \in Cell /\ Measured(d, "ble").of = d
    BY CellsTyped DEF Snapshot, Measured
  <2> QED BY <1>2, <2>1 DEF BleBattery, Snapshot, Own
<1> QED BY <1>1, <1>2

LEMMA ExpireOwn ==
    ASSUME NEW t \in Snapshot, NEW n \in Nat
    PROVE  /\ ExpireBle(t, n) \in Snapshot
           /\ ExpireBle(t, n).address = t.address /\ ExpireBle(t, n).connected = t.connected
           /\ \A c \in Cells : ExpireBle(t, n).cells[c] =
                IF t.cells[c].source = "ble" /\ t.cells[c].fresh /\ t.cells[c].age >= n
                THEN Historical(t.cells[c]) ELSE t.cells[c]
           /\ Own(t) => Own(ExpireBle(t, n))
<1>1. \A cell \in Cell : Historical(cell) \in Cell /\ Historical(cell).of = cell.of
  BY CellsTyped DEF Historical, Cell
<1>2. t.cells \in [Cells -> Cell]
  BY DEF Snapshot
<1> QED BY <1>1, <1>2 DEF ExpireBle, Snapshot, Own

----------------------------------------------------------------------------
(* Without a process there is no socket; a socket talks to the selected    *)
(* device; only a peer has reports on their way; the cache is one device's. *)
SocketInv ==
    /\ ~up => peer = NoDevice
    /\ peer \in {NoDevice, s.address}
    /\ pending # {} => peer # NoDevice
    /\ s.connected => s.address # NoDevice
CacheInv == \A c \in Cells : cache.of[c] \in {NoDevice, cache.address}
OwnInv == TelemetryTypeOK /\ SocketInv /\ CacheInv /\ Own(s)

(* What a step that leaves the environment alone owes. *)
LEMMA OwnRest ==
    ASSUME OwnInv, UNCHANGED <<up, pin, cache>>,
           s' \in Snapshot, s'.connected => s'.address # NoDevice, Own(s'),
           \/ SocketEnds
           \/ /\ s'.address = s.address /\ peer' = peer
              /\ worn' \in [Buds -> Worn] /\ pending' \subseteq {"battery", "ear"}
              /\ pending' # {} => peer # NoDevice
    PROVE  OwnInv'
<1>0. Unseen \in [Buds -> Worn] /\ NoDevice \in Origins
  BY DEF Unseen, Worn, Origins
<1>1. TelemetryTypeOK'
  BY <1>0 DEF OwnInv, TelemetryTypeOK, SocketEnds
<1>2. SocketInv'
  BY DEF OwnInv, SocketInv, SocketEnds
<1>3. CacheInv'
  BY DEF OwnInv, CacheInv
<1> QED BY <1>1, <1>2, <1>3 DEF OwnInv, Own

LEMMA SelectedOwn ==
    ASSUME OwnInv, NEW d \in Devices, NEW named \in BOOLEAN, Selected(d, named)
    PROVE  OwnInv'
<1> DEFINE closed == AapLink(s, FALSE)
           gone == AclConnected(closed, FALSE)
<1>1. s \in Snapshot /\ Own(s) /\ d \in Origins
  BY DEF OwnInv, TelemetryTypeOK, Origins
<1>2. closed \in Snapshot /\ Own(closed)
  BY <1>1, AapLinkOwn
<1> HIDE DEF closed
<1>3. gone \in Snapshot /\ Own(gone) /\ ~gone.connected
  BY <1>2, AclConnectedOwn
<1> HIDE DEF gone
<1>4. s' = Identity(gone, d, named) /\ SocketEnds /\ UNCHANGED <<up, pin, cache>>
  BY DEF Selected, Environment, gone, closed
<1>5. s' \in Snapshot /\ Own(s') /\ ~s'.connected
  BY <1>1, <1>3, <1>4, IdentityOwn
<1> QED BY <1>4, <1>5, OwnRest

LEMMA OwnStep ==
    ASSUME OwnInv, [TelemetryNext]_tvars
    PROVE  OwnInv'
<1>0. /\ s \in Snapshot /\ Own(s) /\ peer \in {NoDevice, s.address} /\ s.address \in Origins
      /\ (s.connected => s.address # NoDevice) /\ worn \in [Buds -> Worn]
      /\ pending \subseteq {"battery", "ear"} /\ (pending # {} => peer # NoDevice)
  BY DEF OwnInv, TelemetryTypeOK, SocketInv, Snapshot
<1>1. ASSUME NEW p \in Origins, Start(p) PROVE OwnInv'
  <2>1. NoEar \in [of: Origins, left: Worn, right: Worn] /\ NoEar.of = NoDevice
    BY DEF NoEar, Origins, Worn
  <2>2. NoReport \in [of: Origins, primary: Worn, secondary: Worn] /\ NoReport.of = NoDevice
    BY DEF NoReport, Origins, Worn
  <2>3. load(p) \in [Cells -> Cell] /\ \A c \in Cells : load(p)[c].of \in {NoDevice, p}
    <3>1. NoCells \in [Cells -> Cell] /\ \A c \in Cells : NoCells[c].of = NoDevice
      BY CellsTyped DEF NoCells, NoCell
    <3>2. CASE p = NoDevice \/ cache.address # p
      BY <3>1, <3>2 DEF load
    <3>3. CASE ~(p = NoDevice \/ cache.address # p)
      <4>1. \A c \in Cells : cache.of[c] \in Origins /\ cache.of[c] \in {NoDevice, p}
        BY <3>3 DEF OwnInv, TelemetryTypeOK, CacheInv, CacheDocument
      <4>2. \A o \in Origins : [NoCell EXCEPT !.of = o] \in Cell /\ [NoCell EXCEPT !.of = o].of = o
        BY CellsTyped DEF Cell
      <4> QED BY <3>3, <4>1, <4>2 DEF load
    <3> QED BY <3>2, <3>3
  <2>4. s' \in Snapshot /\ s'.address = p /\ ~s'.connected /\ Own(s')
    BY <1>1, <2>1, <2>2, <2>3 DEF Start, InitialSnapshot, Snapshot, Own, Origins
  <2>5. TelemetryTypeOK'
    BY <1>1, <2>4 DEF OwnInv, TelemetryTypeOK, Start
  <2>6. SocketInv' /\ CacheInv'
    BY <1>1, <2>4 DEF OwnInv, SocketInv, CacheInv, Start
  <2> QED BY <2>4, <2>5, <2>6 DEF OwnInv, Own
<1>2. CASE Stop
  <2> DEFINE closed == AapLink(s, FALSE)
  <2>1. closed \in Snapshot /\ Own(closed) /\ closed.address = s.address
        /\ closed.connected = s.connected
    BY <1>0, AapLinkOwn
  <2> HIDE DEF closed
  <2>2. s' = ExpireBle(closed, 0)
    BY <1>2 DEF Stop, closed
  <2>3. s' \in Snapshot /\ Own(s') /\ s'.address = s.address /\ s'.connected = s.connected
    BY <2>1, <2>2, ExpireOwn
  <2>4. Unseen \in [Buds -> Worn] /\ NoDevice \in Origins
    BY DEF Unseen, Worn, Origins
  <2>5. TelemetryTypeOK'
    BY <1>2, <2>3, <2>4 DEF OwnInv, TelemetryTypeOK, Stop, SocketEnds
  <2>6. SocketInv' /\ CacheInv'
    BY <1>0, <1>2, <2>3 DEF OwnInv, SocketInv, CacheInv, Stop, SocketEnds
  <2> QED BY <2>3, <2>5, <2>6 DEF OwnInv, Own
<1>3. CASE Crash
  <2>1. /\ NoEar \in [of: Origins, left: Worn, right: Worn] /\ NoEar.of = NoDevice
        /\ NoReport \in [of: Origins, primary: Worn, secondary: Worn] /\ NoReport.of = NoDevice
        /\ NoCells \in [Cells -> Cell] /\ \A c \in Cells : NoCells[c].of = NoDevice
    BY CellsTyped DEF NoEar, NoReport, NoCells, NoCell, Origins, Worn
  <2>2. s' \in Snapshot /\ ~s'.connected /\ Own(s')
    BY <1>3, <2>1 DEF Crash, InitialSnapshot, Snapshot, Own, Origins
  <2>3. Unseen \in [Buds -> Worn] /\ NoDevice \in Origins
    BY DEF Unseen, Worn, Origins
  <2>4. TelemetryTypeOK'
    BY <1>3, <2>2, <2>3 DEF OwnInv, TelemetryTypeOK, Crash, SocketEnds
  <2>5. SocketInv' /\ CacheInv'
    BY <1>3, <2>2 DEF OwnInv, SocketInv, CacheInv, Crash, SocketEnds
  <2> QED BY <2>2, <2>4, <2>5 DEF OwnInv, Own
<1>4. CASE WriterSaves
  <2>1. cache' \in CacheDocument /\ CacheInv'
    BY <1>0, <1>4 DEF WriterSaves, save, CacheDocument, CacheInv, Own, Snapshot, Cell
  <2> QED BY <1>4, <2>1 DEF OwnInv, TelemetryTypeOK, SocketInv, WriterSaves, Own
<1>5. ASSUME NEW d \in Devices, NEW named \in BOOLEAN, Selected(d, named) PROVE OwnInv'
  BY <1>5, SelectedOwn
<1>6. ASSUME NEW named \in BOOLEAN, Refreshed(named) PROVE OwnInv'
  <2>1. s' \in Snapshot /\ Own(s') /\ s'.address = s.address /\ s'.connected = s.connected
    BY <1>0, <1>6, IdentityOwn DEF Refreshed
  <2> QED BY <1>0, <1>6, <2>1, OwnRest DEF Refreshed, Environment
<1>7. CASE Connected
  <2>1. s' \in Snapshot /\ Own(s') /\ s'.address = s.address /\ s'.connected
    BY <1>0, <1>7, AclConnectedOwn DEF Connected
  <2> QED BY <1>0, <1>7, <2>1, OwnRest DEF Connected, Environment
<1>8. CASE Disconnected
  <2> DEFINE closed == AapLink(s, FALSE)
  <2>1. closed \in Snapshot /\ Own(closed)
    BY <1>0, AapLinkOwn
  <2> HIDE DEF closed
  <2>2. s' = AclConnected(closed, FALSE)
    BY <1>8 DEF Disconnected, closed
  <2>3. s' \in Snapshot /\ Own(s') /\ ~s'.connected
    BY <2>1, <2>2, AclConnectedOwn
  <2> QED BY <1>8, <2>3, OwnRest DEF Disconnected, Environment
<1>9. CASE OpeningStarts
  <2>1. s.address # NoDevice /\ s.address \in Origins
    BY <1>0, <1>9 DEF OpeningStarts
  <2>2. worn' \in [Buds -> Worn]
    BY <1>9 DEF OpeningStarts
  <2>3. TelemetryTypeOK'
    BY <1>9, <2>1, <2>2 DEF OwnInv, TelemetryTypeOK, OpeningStarts, Environment
  <2>4. SocketInv' /\ CacheInv'
    BY <1>9, <2>1 DEF OwnInv, SocketInv, CacheInv, OpeningStarts, Environment
  <2> QED BY <1>0, <1>9, <2>3, <2>4 DEF OwnInv, Own, OpeningStarts
<1>10. CASE Promoted
  <2>1. s' \in Snapshot /\ Own(s') /\ s'.address = s.address /\ s'.connected = s.connected
    BY <1>0, <1>10, AapLinkOwn DEF Promoted
  <2> QED BY <1>0, <1>10, <2>1, OwnRest DEF Promoted, Environment
<1>11. CASE LinkLost
  <2>1. s' \in Snapshot /\ Own(s') /\ s'.address = s.address /\ s'.connected = s.connected
    BY <1>0, <1>11, AapLinkOwn DEF LinkLost
  <2> QED BY <1>0, <1>11, <2>1, OwnRest DEF LinkLost, Environment
<1>12. CASE BatteryPacket
  <2>1. peer = s.address /\ s.address # NoDevice
    BY <1>0, <1>12 DEF BatteryPacket
  <2>2. {b \in Buds : Out(b)} \in SUBSET Buds
    OBVIOUS
  <2>3. s' \in Snapshot /\ Own(s') /\ s'.address = s.address /\ s'.connected = s.connected
    BY <1>0, <1>12, <2>1, <2>2, BatteryOwn DEF BatteryPacket
  <2> QED BY <1>0, <1>12, <2>1, <2>3, OwnRest DEF BatteryPacket, Environment
<1>13. CASE EarPacket
  <2>1. peer = s.address /\ s.address # NoDevice
    BY <1>0, <1>13 DEF EarPacket
  <2>2. PICK primary \in Buds :
          s' = Ear(s, [of |-> peer, primary |-> worn[primary],
                       secondary |-> worn[CHOOSE b \in Buds : b # primary]])
    BY <1>13 DEF EarPacket
  <2>3. (CHOOSE b \in Buds : b # primary) \in Buds
    BY DEF Buds
  <2> DEFINE report == [of |-> peer, primary |-> worn[primary],
                        secondary |-> worn[CHOOSE b \in Buds : b # primary]]
  <2>4. report \in [of: Origins, primary: Worn, secondary: Worn] /\ report.of = s.address
    BY <1>0, <2>1, <2>3
  <2> HIDE DEF report
  <2>5. s' = Ear(s, report)
    BY <2>2 DEF report
  <2>6. s' \in Snapshot /\ Own(s') /\ s'.address = s.address /\ s'.connected = s.connected
    BY <1>0, <2>4, <2>5, EarOwn
  <2> QED BY <1>0, <1>13, <2>1, <2>6, OwnRest DEF EarPacket, Environment
<1>14. CASE MetadataPacket
  <2>1. peer = s.address
    BY <1>0, <1>14 DEF MetadataPacket
  <2>2. s' \in Snapshot /\ Own(s') /\ s'.address = s.address /\ s'.connected = s.connected
    BY <1>0, <1>14, <2>1 DEF MetadataPacket, Metadata, Snapshot, Own
  <2> QED BY <1>0, <1>14, <2>2, OwnRest DEF MetadataPacket, Environment
<1>15. ASSUME NEW b \in Buds, NEW where \in Worn \ {"unknown"}, BudMoves(b, where) PROVE OwnInv'
  <2>1. worn' \in [Buds -> Worn]
    BY <1>0, <1>15 DEF BudMoves
  <2> QED BY <1>0, <1>15, <2>1, OwnRest DEF BudMoves, Environment
<1>16. ASSUME NEW seen \in SUBSET Cells, Advert(seen) PROVE OwnInv'
  <2>1. pin \in Origins
    BY DEF OwnInv, TelemetryTypeOK
  <2>2. s' \in Snapshot /\ Own(s') /\ s'.address = s.address /\ s'.connected = s.connected
    BY <1>0, <1>16, <2>1, BleOwn DEF Advert
  <2> QED BY <1>0, <1>16, <2>2, OwnRest DEF Advert, Environment
<1>17. CASE Second
  <2> DEFINE cells == [c \in Cells |-> Older(s.cells[c])]
             aged == [s EXCEPT !.cells = cells]
  <2>1. \A cell \in Cell : Older(cell) \in Cell /\ Older(cell).of = cell.of
    BY StoreAssumption DEF Cell, Older
  <2>2. cells \in [Cells -> Cell] /\ \A c \in Cells : cells[c].of = s.cells[c].of
    BY <1>0, <2>1 DEF Snapshot
  <2> HIDE DEF cells
  <2>3. aged \in Snapshot /\ Own(aged) /\ aged.address = s.address
        /\ aged.connected = s.connected
    BY <1>0, <2>2 DEF Snapshot, Own
  <2> HIDE DEF aged
  <2>4. s' = IF pin = NoDevice THEN aged ELSE ExpireBle(aged, FRESHNESS + 1)
    BY <1>17 DEF Second, aged, cells
  <2>5. FRESHNESS + 1 \in Nat
    BY StoreAssumption
  <2>6. s' \in Snapshot /\ Own(s') /\ s'.address = s.address /\ s'.connected = s.connected
    BY <2>3, <2>4, <2>5, ExpireOwn
  <2> QED BY <1>0, <1>17, <2>6, OwnRest DEF Second, Environment
<1>18. CASE UNCHANGED tvars
  BY <1>18 DEF tvars, OwnInv, TelemetryTypeOK, SocketInv, CacheInv, Own
<1> QED BY <1>1, <1>2, <1>3, <1>4, <1>5, <1>6, <1>7, <1>8, <1>9, <1>10, <1>11, <1>12, <1>13,
           <1>14, <1>15, <1>16, <1>17, <1>18 DEF TelemetryNext

LEMMA OwnStart == TelemetryInit => OwnInv
<1>1. /\ NoEar \in [of: Origins, left: Worn, right: Worn] /\ NoEar.of = NoDevice
      /\ NoReport \in [of: Origins, primary: Worn, secondary: Worn] /\ NoReport.of = NoDevice
      /\ NoCells \in [Cells -> Cell] /\ \A c \in Cells : NoCells[c].of = NoDevice
      /\ Unseen \in [Buds -> Worn] /\ NoDevice \in Origins
  BY CellsTyped DEF NoEar, NoReport, NoCells, NoCell, Origins, Worn, Unseen
<1> SUFFICES ASSUME TelemetryInit PROVE OwnInv
  OBVIOUS
<1>2. s \in Snapshot /\ Own(s) /\ ~s.connected
  BY <1>1 DEF TelemetryInit, InitialSnapshot, Snapshot, Own
<1>3. TelemetryTypeOK
  BY <1>1, <1>2 DEF TelemetryInit, TelemetryTypeOK, CacheDocument
<1>4. SocketInv /\ CacheInv
  BY <1>2 DEF TelemetryInit, SocketInv, CacheInv
<1> QED BY <1>2, <1>3, <1>4 DEF OwnInv

(* Nothing that is published, or kept to resolve later packets, comes from *)
(* another device than the selected one, however often the selection       *)
(* changes and whatever a cache of an earlier process holds (store.rs      *)
(* 432-459; cache.rs 34-37).                                               *)
THEOREM FactsStayOwn == TelemetrySpec => []FactsAreOwn
<1>1. TelemetryInit => OwnInv
  BY OwnStart
<1>2. OwnInv /\ [TelemetryNext]_tvars => OwnInv'
  BY OwnStep
<1>3. OwnInv => FactsAreOwn
  BY OwnIsFacts DEF OwnInv
<1> QED BY <1>1, <1>2, <1>3, PTL DEF TelemetrySpec

----------------------------------------------------------------------------
(* Who would notice that a reading no longer holds, by its source, and the *)
(* cells whose fresh readings are among theirs.                            *)
heard == (IF peer # NoDevice THEN {"aap"} ELSE {})
            \cup (IF up /\ pin # NoDevice THEN {"ble"} ELSE {})
CellLive(cell, who) ==
    /\ cell.present = cell.fresh
    /\ cell.fresh => cell.source \in who /\ (cell.source = "ble" => cell.age <= FRESHNESS)
AllLive(cells, who) == \A c \in Cells : CellLive(cells[c], who)
LiveInv == AllLive(s.cells, heard)

LEMMA LiveIsFresh == OwnInv /\ LiveInv => FreshMeansLive
<1> SUFFICES ASSUME OwnInv, LiveInv, NEW c \in Cells
             PROVE  /\ s.cells[c].present = s.cells[c].fresh
                    /\ s.cells[c].fresh =>
                          \/ s.cells[c].source = "aap" /\ peer # NoDevice
                          \/ s.cells[c].source = "ble" /\ up /\ s.cells[c].age <= FRESHNESS
  BY DEF FreshMeansLive
<1>1. CellLive(s.cells[c], heard)
  BY DEF LiveInv, AllLive
<1> QED BY <1>1 DEF CellLive, heard

LEMMA LiveMore ==
    ASSUME NEW cells, NEW few, NEW many, few \subseteq many, AllLive(cells, few)
    PROVE  AllLive(cells, many)
BY DEF AllLive, CellLive

LEMMA HistoricalLive ==
    ASSUME NEW cell \in Cell, NEW who
    PROVE  CellLive(Historical(cell), who)
<1>1. Historical(cell).fresh = FALSE /\ Historical(cell).present = FALSE
  BY DEF Historical, Cell
<1> QED BY <1>1 DEF CellLive

LEMMA InvalidateLive ==
    ASSUME NEW cells \in [Cells -> Cell], NEW who, AllLive(cells, who)
    PROVE  AllLive(invalidate_aap(cells), who \ {"aap"})
<1> SUFFICES ASSUME NEW c \in Cells
             PROVE  CellLive(invalidate_aap(cells)[c], who \ {"aap"})
  BY DEF AllLive
<1>1. CASE cells[c].source = "ble"
  BY <1>1 DEF invalidate_aap, AllLive, CellLive
<1>2. CASE cells[c].source # "ble"
  <2>1. invalidate_aap(cells)[c] = Historical(cells[c])
    BY <1>2 DEF invalidate_aap
  <2> QED BY <2>1, HistoricalLive
<1> QED BY <1>1, <1>2

LEMMA NothingLive ==
    ASSUME NEW cells, NEW who,
           \A c \in Cells : cells[c].fresh = FALSE /\ cells[c].present = FALSE
    PROVE  AllLive(cells, who)
BY DEF AllLive, CellLive

LEMMA NoCellsLive == \A who : AllLive(NoCells, who)
<1>1. \A c \in Cells : NoCells[c].fresh = FALSE /\ NoCells[c].present = FALSE
  BY DEF NoCells, NoCell
<1> QED BY <1>1, NothingLive

(* Steps that keep the cells, or only dim what came over the socket. *)
LEMMA LiveRest ==
    ASSUME OwnInv, LiveInv, UNCHANGED <<up, pin, cache>>,
           \/ s'.cells = s.cells /\ (peer # NoDevice => peer' # NoDevice)
           \/ s'.cells = invalidate_aap(s.cells)
           \/ s'.cells = NoCells
           \/ s'.cells = invalidate_aap(invalidate_aap(s.cells))
    PROVE  LiveInv'
<1>0. s.cells \in [Cells -> Cell] /\ invalidate_aap(s.cells) \in [Cells -> Cell]
  BY InvalidateTyped DEF OwnInv, TelemetryTypeOK, Snapshot
<1>1. heard \ {"aap"} \subseteq heard' /\ (heard \ {"aap"}) \ {"aap"} \subseteq heard'
  BY DEF heard
<1>2. CASE s'.cells = s.cells /\ (peer # NoDevice => peer' # NoDevice)
  <2>1. heard \subseteq heard'
    BY <1>2 DEF heard
  <2> QED BY <1>2, <2>1, LiveMore DEF LiveInv
<1>3. CASE s'.cells = invalidate_aap(s.cells)
  BY <1>0, <1>1, <1>3, InvalidateLive, LiveMore DEF LiveInv
<1>4. CASE s'.cells = NoCells
  BY <1>4, NoCellsLive DEF LiveInv
<1>5. CASE s'.cells = invalidate_aap(invalidate_aap(s.cells))
  <2>1. AllLive(invalidate_aap(s.cells), heard \ {"aap"})
    BY <1>0, InvalidateLive DEF LiveInv
  <2>2. AllLive(s'.cells, (heard \ {"aap"}) \ {"aap"})
    BY <1>0, <1>5, <2>1, InvalidateLive
  <2> QED BY <1>1, <2>2, LiveMore DEF LiveInv
<1> QED BY <1>2, <1>3, <1>4, <1>5

LEMMA StopLive ==
    ASSUME OwnInv, LiveInv, Stop
    PROVE  LiveInv'
<1> DEFINE closed == AapLink(s, FALSE)
<1>1. s \in Snapshot /\ s.cells \in [Cells -> Cell]
  BY DEF OwnInv, TelemetryTypeOK, Snapshot
<1>2. closed \in Snapshot /\ closed.cells = invalidate_aap(s.cells)
  BY <1>1, AapLinkOwn
<1> HIDE DEF closed
<1>3. AllLive(closed.cells, heard \ {"aap"}) /\ closed.cells \in [Cells -> Cell]
  BY <1>1, <1>2, InvalidateLive, InvalidateTyped DEF LiveInv
<1>4. s' = ExpireBle(closed, 0)
  BY DEF Stop, closed
<1> SUFFICES ASSUME NEW c \in Cells PROVE CellLive(s'.cells[c], heard')
  BY DEF LiveInv, AllLive
<1>5. s'.cells[c] = IF closed.cells[c].source = "ble" /\ closed.cells[c].fresh /\ closed.cells[c].age >= 0
                    THEN Historical(closed.cells[c]) ELSE closed.cells[c]
  BY <1>2, <1>4, ExpireOwn
<1>6. closed.cells[c] \in Cell /\ CellLive(closed.cells[c], heard \ {"aap"})
  BY <1>3 DEF AllLive
<1>7. CASE closed.cells[c].fresh
  <2>1. closed.cells[c].source = "ble"
    BY <1>6, <1>7 DEF CellLive, heard
  <2>2. closed.cells[c].age >= 0
    BY <1>6, StoreAssumption DEF Cell
  <2> QED BY <1>5, <1>6, <1>7, <2>1, <2>2, HistoricalLive
<1>8. CASE ~closed.cells[c].fresh
  <2>1. s'.cells[c] = closed.cells[c]
    BY <1>5, <1>8
  <2> QED BY <1>6, <1>8, <2>1 DEF CellLive
<1> QED BY <1>7, <1>8

LEMMA BatteryLive ==
    ASSUME OwnInv, LiveInv, BatteryPacket
    PROVE  LiveInv'
<1>1. s \in Snapshot /\ peer = s.address /\ s.address # NoDevice
  BY DEF OwnInv, TelemetryTypeOK, SocketInv, BatteryPacket
<1> DEFINE present == {b \in Buds : Out(b)}
<1>2. present \in SUBSET Buds
  OBVIOUS
<1>3. s' = Battery(s, s.address, present)
  BY <1>1 DEF BatteryPacket
<1> HIDE DEF present
<1>4. s'.cells = [c \in Cells |-> apply_cell(s.cells[c], s.address, c \in present)]
  BY <1>1, <1>2, <1>3, BatteryOwn
<1>5. heard' = heard /\ "aap" \in heard
  BY <1>1 DEF heard, BatteryPacket, Environment
<1> SUFFICES ASSUME NEW c \in Cells PROVE CellLive(s'.cells[c], heard)
  BY <1>5 DEF LiveInv, AllLive
<1>6. s.cells[c] \in Cell /\ CellLive(s.cells[c], heard)
  BY <1>1 DEF Snapshot, LiveInv, AllLive
<1>7. CellLive(Measured(s.address, "aap"), heard)
  BY <1>5 DEF CellLive, Measured
<1>8. s'.cells[c] \in {Measured(s.address, "aap"), s.cells[c], Historical(s.cells[c])}
  BY <1>4 DEF apply_cell
<1> QED BY <1>6, <1>7, <1>8, HistoricalLive

LEMMA SecondLive ==
    ASSUME OwnInv, LiveInv, Second
    PROVE  LiveInv'
<1> DEFINE cells == [c \in Cells |-> Older(s.cells[c])]
           aged == [s EXCEPT !.cells = cells]
<1>1. s \in Snapshot /\ s.cells \in [Cells -> Cell]
  BY DEF OwnInv, TelemetryTypeOK, Snapshot
<1>2. ASSUME NEW cell \in Cell
      PROVE  /\ Older(cell) \in Cell
             /\ Older(cell).source = cell.source /\ Older(cell).fresh = cell.fresh
             /\ Older(cell).present = cell.present
  BY StoreAssumption DEF Cell, Older
<1>3. cells \in [Cells -> Cell]
  BY <1>1, <1>2
<1>4. \A c \in Cells : cells[c] = Older(s.cells[c])
  OBVIOUS
<1> HIDE DEF cells
<1>5. aged \in Snapshot /\ aged.cells = cells
  BY <1>1, <1>3 DEF Snapshot
<1> HIDE DEF aged
<1>6. s' = IF pin = NoDevice THEN aged ELSE ExpireBle(aged, FRESHNESS + 1)
  BY DEF Second, aged, cells
<1>7. heard' = heard
  BY DEF Second, Environment, heard
<1> SUFFICES ASSUME NEW c \in Cells PROVE CellLive(s'.cells[c], heard)
  BY <1>7 DEF LiveInv, AllLive
<1>8. s.cells[c] \in Cell /\ CellLive(s.cells[c], heard) /\ cells[c] \in Cell
  BY <1>1, <1>3 DEF LiveInv, AllLive
<1>9. /\ cells[c].source = s.cells[c].source /\ cells[c].fresh = s.cells[c].fresh
      /\ cells[c].present = s.cells[c].present
  BY <1>2, <1>4, <1>8
<1>10. CASE pin = NoDevice
  <2>1. s'.cells[c] = cells[c]
    BY <1>5, <1>6, <1>10
  <2>2. cells[c].fresh => cells[c].source # "ble"
    BY <1>8, <1>9, <1>10 DEF CellLive, heard
  <2> QED BY <1>8, <1>9, <2>1, <2>2 DEF CellLive
<1>11. CASE pin # NoDevice
  <2>1. s'.cells[c] = IF cells[c].source = "ble" /\ cells[c].fresh /\ cells[c].age >= FRESHNESS + 1
                      THEN Historical(cells[c]) ELSE cells[c]
    <3>1. FRESHNESS + 1 \in Nat
      BY StoreAssumption
    <3> QED BY <1>5, <1>6, <1>11, <3>1, ExpireOwn
  <2>2. CASE cells[c].source = "ble" /\ cells[c].fresh /\ cells[c].age >= FRESHNESS + 1
    BY <1>8, <2>1, <2>2, HistoricalLive
  <2>3. CASE ~(cells[c].source = "ble" /\ cells[c].fresh /\ cells[c].age >= FRESHNESS + 1)
    <3>1. s'.cells[c] = cells[c]
      BY <2>1, <2>3
    <3>2. (cells[c].fresh /\ cells[c].source = "ble") => cells[c].age <= FRESHNESS
      BY <1>8, <2>3, StoreAssumption DEF Cell
    <3> QED BY <1>8, <1>9, <3>1, <3>2 DEF CellLive
  <2> QED BY <2>2, <2>3
<1> QED BY <1>10, <1>11

LEMMA LiveStep ==
    ASSUME OwnInv, LiveInv, [TelemetryNext]_tvars
    PROVE  LiveInv'
<1>0. s \in Snapshot /\ s.cells \in [Cells -> Cell]
  BY DEF OwnInv, TelemetryTypeOK, Snapshot
<1>1. ASSUME NEW p \in Origins, Start(p) PROVE LiveInv'
  <2>1. \A o \in Origins : [NoCell EXCEPT !.of = o].fresh = FALSE
                              /\ [NoCell EXCEPT !.of = o].present = FALSE
    BY DEF NoCell
  <2>2. \A c \in Cells : cache.of[c] \in Origins
    BY DEF OwnInv, TelemetryTypeOK, CacheDocument
  <2>3. \A c \in Cells : load(p)[c].fresh = FALSE /\ load(p)[c].present = FALSE
    BY <2>1, <2>2 DEF load, NoCells, NoCell
  <2>4. s'.cells = load(p)
    BY <1>1 DEF Start, InitialSnapshot
  <2> QED BY <2>3, <2>4, NothingLive DEF LiveInv
<1>2. CASE Stop
  BY <1>2, StopLive
<1>3. CASE Crash
  <2>1. s'.cells = NoCells
    BY <1>3 DEF Crash, InitialSnapshot
  <2> QED BY <2>1, NoCellsLive DEF LiveInv
<1>4. CASE WriterSaves
  BY <1>4 DEF WriterSaves, LiveInv, heard
<1>5. ASSUME NEW d \in Devices, NEW named \in BOOLEAN, Selected(d, named) PROVE LiveInv'
  <2> DEFINE closed == AapLink(s, FALSE)
             gone == AclConnected(closed, FALSE)
  <2>1. closed \in Snapshot /\ closed.cells = invalidate_aap(s.cells)
    BY <1>0, AapLinkOwn
  <2> HIDE DEF closed
  <2>2. gone \in Snapshot /\ gone.cells = invalidate_aap(closed.cells)
    BY <2>1, AclConnectedOwn
  <2> HIDE DEF gone
  <2>3. d \in Origins
    BY DEF Origins
  <2>4. s' = Identity(gone, d, named)
    BY <1>5 DEF Selected, gone, closed
  <2>5. s'.cells = gone.cells \/ s'.cells = NoCells
    BY <2>2, <2>3, <2>4, IdentityOwn
  <2> QED BY <1>5, <2>1, <2>2, <2>5, LiveRest DEF Selected, Environment
<1>6. ASSUME NEW named \in BOOLEAN, Refreshed(named) PROVE LiveInv'
  <2>1. s.address \in Origins
    BY <1>0 DEF Snapshot
  <2>2. s'.cells = s.cells
    BY <1>0, <1>6, <2>1, IdentityOwn DEF Refreshed
  <2> QED BY <1>6, <2>2, LiveRest DEF Refreshed, Environment
<1>7. CASE Connected
  <2>1. s'.cells = s.cells
    BY <1>0, <1>7, AclConnectedOwn DEF Connected
  <2> QED BY <1>7, <2>1, LiveRest DEF Connected, Environment
<1>8. CASE Disconnected
  <2> DEFINE closed == AapLink(s, FALSE)
  <2>1. closed \in Snapshot /\ closed.cells = invalidate_aap(s.cells)
    BY <1>0, AapLinkOwn
  <2> HIDE DEF closed
  <2>2. s' = AclConnected(closed, FALSE)
    BY <1>8 DEF Disconnected, closed
  <2>3. s'.cells = invalidate_aap(invalidate_aap(s.cells))
    BY <2>1, <2>2, AclConnectedOwn
  <2> QED BY <1>8, <2>3, LiveRest DEF Disconnected, Environment
<1>9. CASE OpeningStarts
  <2>1. s'.cells = s.cells /\ peer = NoDevice
    BY <1>9 DEF OpeningStarts
  <2> QED BY <1>9, <2>1, LiveRest DEF OpeningStarts, Environment
<1>10. CASE Promoted
  <2>1. s'.cells = s.cells
    BY <1>0, <1>10, AapLinkOwn DEF Promoted
  <2> QED BY <1>10, <2>1, LiveRest DEF Promoted, Environment
<1>11. CASE LinkLost
  <2>1. s'.cells = invalidate_aap(s.cells)
    BY <1>0, <1>11, AapLinkOwn DEF LinkLost
  <2> QED BY <1>11, <2>1, LiveRest DEF LinkLost, Environment
<1>12. CASE BatteryPacket
  BY <1>12, BatteryLive
<1>13. CASE EarPacket
  <2>1. PICK report : s' = assign_ear([s EXCEPT !.last_ear = report], report)
    BY <1>13 DEF EarPacket, Ear
  <2>2. s'.cells = s.cells
    BY <1>0, <2>1 DEF assign_ear, Snapshot
  <2> QED BY <1>13, <2>2, LiveRest DEF EarPacket, Environment
<1>14. CASE MetadataPacket
  <2>1. s'.cells = s.cells
    BY <1>0, <1>14 DEF MetadataPacket, Metadata, Snapshot
  <2> QED BY <1>14, <2>1, LiveRest DEF MetadataPacket, Environment
<1>15. ASSUME NEW b \in Buds, NEW where \in Worn \ {"unknown"}, BudMoves(b, where) PROVE LiveInv'
  BY <1>15, LiveRest DEF BudMoves, Environment
<1>16. ASSUME NEW seen \in SUBSET Cells, Advert(seen) PROVE LiveInv'
  <2>1. pin \in Origins /\ heard' = heard /\ "ble" \in heard
    BY <1>16 DEF OwnInv, TelemetryTypeOK, Advert, Environment, heard
  <2>2. CellLive(Measured(pin, "ble"), heard)
    BY <2>1, StoreAssumption DEF CellLive, Measured
  <2>3. \A c \in Cells : s'.cells[c] \in {s.cells[c], Measured(pin, "ble")}
    BY <1>0, <1>16, <2>1, BleOwn DEF Advert
  <2> QED BY <2>1, <2>2, <2>3 DEF LiveInv, AllLive
<1>17. CASE Second
  BY <1>17, SecondLive
<1>18. CASE UNCHANGED tvars
  BY <1>18 DEF tvars, LiveInv, heard
<1> QED BY <1>1, <1>2, <1>3, <1>4, <1>5, <1>6, <1>7, <1>8, <1>9, <1>10, <1>11, <1>12, <1>13,
           <1>14, <1>15, <1>16, <1>17, <1>18 DEF TelemetryNext

(* Every variable keeps its type, and every age its window. *)
THEOREM TelemetryTypeCorrect == TelemetrySpec => []TelemetryTypeOK
<1>1. TelemetryInit => OwnInv
  BY OwnStart
<1>2. OwnInv /\ [TelemetryNext]_tvars => OwnInv'
  BY OwnStep
<1>3. OwnInv => TelemetryTypeOK
  BY DEF OwnInv
<1> QED BY <1>1, <1>2, <1>3, PTL DEF TelemetrySpec

(* A fresh reading always has somebody who would notice that it no longer  *)
(* holds: its socket, or the observer of a pinned device within the        *)
(* freshness window; none outlives the process (store.rs 239-252, 526-547; *)
(* bin/aurisd.rs 167-175).                                                 *)
THEOREM FreshStaysLive == TelemetrySpec => []FreshMeansLive
<1>1. TelemetryInit => OwnInv /\ LiveInv
  <2>1. TelemetryInit => s.cells = NoCells
    BY DEF TelemetryInit, InitialSnapshot
  <2> QED BY <2>1, OwnStart, NoCellsLive DEF LiveInv
<1>2. OwnInv /\ LiveInv /\ [TelemetryNext]_tvars => OwnInv' /\ LiveInv'
  BY OwnStep, LiveStep
<1>3. OwnInv /\ LiveInv => FreshMeansLive
  BY LiveIsFresh
<1> QED BY <1>1, <1>2, <1>3, PTL DEF TelemetrySpec

----------------------------------------------------------------------------
(* Which side a report is of.  Delivered reports tell the truth: the cells *)
(* of AAP say which buds are out, and the last in-ear report which bud is  *)
(* where, the primary one being out if either is.  The in-ear states that  *)
(* are published follow from the two, whichever came last; a cell measured *)
(* by BLE stays one until the next battery report.                         *)
Other(b) == CHOOSE o \in Buds : o # b
ReportOf(primary) == [of |-> peer, primary |-> worn[primary], secondary |-> worn[Other(primary)]]
Sides(t) == assign_ear(t, t.last_ear).ear
Heard == \A b \in Buds : s.cells[b].source # "ble"

SideInv ==
    peer # NoDevice =>
        /\ "battery" \notin pending =>
               \A b \in Buds : s.cells[b].source # "ble" => s.cells[b].present = Out(b)
        /\ "ear" \notin pending =>
               \E primary \in Buds :
                  (Out(primary) \/ ~Out(Other(primary))) /\ s.last_ear = ReportOf(primary)
        /\ pending = {} /\ Heard => s.ear = Sides(s)

LEMMA Others == Other("left") = "right" /\ Other("right") = "left"
BY DEF Other, Buds

LEMMA SidesAre ==
    ASSUME NEW t \in Snapshot
    PROVE  Sides(t) = IF primary_is_left(t.cells)
                      THEN [of |-> t.last_ear.of, left |-> t.last_ear.primary, right |-> t.last_ear.secondary]
                      ELSE [of |-> t.last_ear.of, left |-> t.last_ear.secondary, right |-> t.last_ear.primary]
BY DEF Sides, assign_ear, Snapshot

LEMMA SideIsEar == OwnInv /\ SideInv => EarOnItsSide
<1> SUFFICES ASSUME OwnInv, SideInv, Reported, PRIMARY_BUD = "auto", Heard, NEW b \in Buds, LoneBud(b)
             PROVE  OnItsSide(b)
  BY DEF EarOnItsSide, Heard
<1>1. s \in Snapshot
  BY DEF OwnInv, TelemetryTypeOK
<1>2. \A c \in Buds : s.cells[c].present = Out(c)
  BY DEF SideInv, Reported, Heard
<1>3. PICK primary \in Buds : (Out(primary) \/ ~Out(Other(primary))) /\ s.last_ear = ReportOf(primary)
  BY DEF SideInv, Reported
<1>4. primary = b
  BY <1>3, Others DEF LoneBud, Buds
<1>5. primary_is_left(s.cells) <=> b = "left"
  BY <1>2 DEF primary_is_left, LoneBud, Buds
<1>6. s.ear = Sides(s) /\ s.last_ear.primary = worn[b]
  BY <1>3, <1>4 DEF SideInv, Reported, ReportOf
<1>7. CASE b = "left"
  BY <1>1, <1>5, <1>6, <1>7, SidesAre DEF OnItsSide
<1>8. CASE b = "right"
  BY <1>1, <1>5, <1>6, <1>8, SidesAre DEF OnItsSide
<1> QED BY <1>7, <1>8 DEF Buds

(* A step that moves no bud and tells nothing of AAP about them. *)
LEMMA SideRest ==
    ASSUME OwnInv, OwnInv', SideInv, UNCHANGED <<peer, worn, pending>>,
           s'.ear = s.ear, s'.last_ear = s.last_ear,
           \A b \in Buds : \/ s'.cells[b].source = "ble"
                           \/ /\ s'.cells[b].source = s.cells[b].source
                              /\ s'.cells[b].present = s.cells[b].present
    PROVE  SideInv'
<1>1. s \in Snapshot /\ s' \in Snapshot
  BY DEF OwnInv, TelemetryTypeOK
<1>2. Heard' => Heard /\ primary_is_left(s'.cells) = primary_is_left(s.cells)
  BY DEF Heard, primary_is_left, Buds
<1>3. Heard' => Sides(s') = Sides(s)
  BY <1>1, <1>2, SidesAre
<1>4. \A primary : ReportOf(primary)' = ReportOf(primary)
  BY DEF ReportOf
<1>5. \A b : Out(b)' = Out(b)
  BY DEF Out
<1> QED BY <1>2, <1>3, <1>4, <1>5 DEF SideInv

LEMMA BatterySides ==
    ASSUME OwnInv, OwnInv', SideInv, BatteryPacket
    PROVE  SideInv'
<1> DEFINE present == {b \in Buds : Out(b)}
           cells == [c \in Cells |-> apply_cell(s.cells[c], peer, c \in present)]
           told == [s EXCEPT !.cells = cells]
<1>1. s \in Snapshot /\ s' \in Snapshot /\ peer # NoDevice /\ "battery" \in pending
      /\ s.cells \in [Cells -> Cell]
  BY DEF OwnInv, TelemetryTypeOK, SocketInv, BatteryPacket, Snapshot
<1>2. \A b \in Buds : cells[b].source # "ble" => cells[b].present = Out(b)
  <2> SUFFICES ASSUME NEW b \in Buds, cells[b].source # "ble" PROVE cells[b].present = Out(b)
    OBVIOUS
  <2>1. b \in Cells /\ s.cells[b] \in Cell
    BY <1>1, StoreAssumption DEF Buds
  <2>2. cells[b] = apply_cell(s.cells[b], peer, b \in present)
    BY <2>1
  <2>3. Measured(peer, "aap").present = TRUE /\ Historical(s.cells[b]).present = FALSE
    BY <2>1 DEF Measured, Historical, Cell
  <2>4. CASE b \in present
    BY <2>2, <2>3, <2>4 DEF apply_cell
  <2>5. CASE b \notin present
    BY <2>2, <2>3, <2>5 DEF apply_cell, Out
  <2> QED BY <2>4, <2>5
<1> HIDE DEF cells
<1>3. told.cells = cells /\ told.ear = s.ear /\ told.last_ear = s.last_ear
  BY <1>1 DEF Snapshot
<1>4. s' = IF s.last_ear = NoReport THEN told ELSE assign_ear(told, s.last_ear)
  BY DEF BatteryPacket, Battery, cells
<1>5. DOMAIN told = DOMAIN s /\ "ear" \in DOMAIN s
  BY <1>1 DEF Snapshot
<1> HIDE DEF told
<1>6. s'.cells = cells /\ s'.last_ear = s.last_ear
  BY <1>3, <1>4, <1>5 DEF assign_ear
<1>7. UNCHANGED <<peer, worn>> /\ pending' = pending \ {"battery"}
  BY DEF BatteryPacket
<1>8. \A b : Out(b)' = Out(b) /\ ReportOf(b)' = ReportOf(b)
  BY <1>7 DEF Out, ReportOf
<1>9. ASSUME "ear" \notin pending PROVE s'.ear = Sides(s')
  <2>1. PICK primary \in Buds : s.last_ear = ReportOf(primary)
    BY <1>1, <1>9 DEF SideInv
  <2> DEFINE sent == ReportOf(primary)
  <2>0. sent.of = peer
    BY DEF ReportOf
  <2> HIDE DEF sent
  <2>2. s.last_ear # NoReport
    <3>1. s.last_ear.of = peer
      BY <2>0, <2>1 DEF sent
    <3> QED BY <1>1, <3>1 DEF NoReport
  <2>3. s' = assign_ear(told, s.last_ear)
    BY <1>4, <2>2
  <2>4. s'.ear = IF primary_is_left(cells)
                 THEN [of |-> s.last_ear.of, left |-> s.last_ear.primary, right |-> s.last_ear.secondary]
                 ELSE [of |-> s.last_ear.of, left |-> s.last_ear.secondary, right |-> s.last_ear.primary]
    BY <1>3, <1>5, <2>3 DEF assign_ear
  <2> QED BY <1>1, <1>6, <2>4, SidesAre
<1>10. pending' = {} => "ear" \notin pending
  BY <1>7
<1> QED BY <1>1, <1>2, <1>6, <1>7, <1>8, <1>9, <1>10 DEF SideInv

LEMMA EarSides ==
    ASSUME OwnInv, OwnInv', SideInv, EarPacket
    PROVE  SideInv'
<1>1. s \in Snapshot /\ s' \in Snapshot /\ peer # NoDevice
  BY DEF OwnInv, TelemetryTypeOK, SocketInv, EarPacket
<1>2. PICK primary \in Buds : /\ Out(primary) \/ ~Out(Other(primary))
                             /\ s' = Ear(s, ReportOf(primary))
  BY DEF EarPacket, ReportOf, Other
<1> DEFINE told == [s EXCEPT !.last_ear = ReportOf(primary)]
<1>3. told.cells = s.cells /\ told.last_ear = ReportOf(primary) /\ DOMAIN told = DOMAIN s /\ "ear" \in DOMAIN s
  BY <1>1 DEF Snapshot
<1>4. s' = assign_ear(told, ReportOf(primary))
  BY <1>2 DEF Ear
<1> HIDE DEF told
<1>5. /\ s'.cells = s.cells /\ s'.last_ear = ReportOf(primary)
      /\ s'.ear = IF primary_is_left(s.cells)
                 THEN [of |-> ReportOf(primary).of, left |-> ReportOf(primary).primary,
                       right |-> ReportOf(primary).secondary]
                 ELSE [of |-> ReportOf(primary).of, left |-> ReportOf(primary).secondary,
                       right |-> ReportOf(primary).primary]
  BY <1>3, <1>4 DEF assign_ear
<1>6. s'.ear = Sides(s')
  BY <1>1, <1>5, SidesAre
<1>7. UNCHANGED <<peer, worn>> /\ pending' = pending \ {"ear"}
  BY DEF EarPacket
<1>8. \A b : Out(b)' = Out(b) /\ ReportOf(b)' = ReportOf(b)
  BY <1>7 DEF Out, ReportOf
<1> QED BY <1>1, <1>2, <1>5, <1>6, <1>7, <1>8 DEF SideInv

LEMMA SideStep ==
    ASSUME OwnInv, SideInv, [TelemetryNext]_tvars
    PROVE  SideInv'
<1>0. s \in Snapshot /\ s.cells \in [Cells -> Cell] /\ Buds \subseteq Cells /\ OwnInv'
  BY StoreAssumption, OwnStep DEF OwnInv, TelemetryTypeOK, Snapshot, Buds
<1>1. CASE peer' = NoDevice
  BY <1>1 DEF SideInv
<1>2. CASE Stop \/ Crash \/ Disconnected \/ LinkLost \/ \E d \in Devices, named \in BOOLEAN : Selected(d, named)
  BY <1>1, <1>2 DEF Stop, Crash, Disconnected, LinkLost, Selected, SocketEnds
<1>3. ASSUME NEW p \in Origins, Start(p) PROVE SideInv'
  BY <1>1, <1>3 DEF Start, OwnInv, SocketInv
<1>4. CASE OpeningStarts \/ \E b \in Buds, where \in Worn \ {"unknown"} : BudMoves(b, where)
  BY <1>4 DEF OpeningStarts, BudMoves, SideInv
<1>5. CASE WriterSaves
  BY <1>0, <1>5, SideRest DEF WriterSaves
<1>6. ASSUME NEW named \in BOOLEAN, Refreshed(named) PROVE SideInv'
  <2>1. s'.cells = s.cells /\ s'.ear = s.ear /\ s'.last_ear = s.last_ear
    BY <1>0, <1>6 DEF Refreshed, Identity, Snapshot
  <2> QED BY <1>0, <1>6, <2>1, SideRest DEF Refreshed
<1>7. CASE Connected
  <2>1. s'.cells = s.cells /\ s'.ear = s.ear /\ s'.last_ear = s.last_ear
    BY <1>0, <1>7 DEF Connected, AclConnected, Snapshot
  <2> QED BY <1>0, <1>7, <2>1, SideRest DEF Connected
<1>8. CASE Promoted
  <2>1. s'.cells = s.cells /\ s'.ear = s.ear /\ s'.last_ear = s.last_ear
    BY <1>0, <1>8 DEF Promoted, AapLink, Snapshot
  <2> QED BY <1>0, <1>8, <2>1, SideRest DEF Promoted
<1>9. CASE MetadataPacket
  <2>1. s'.cells = s.cells /\ s'.ear = s.ear /\ s'.last_ear = s.last_ear
    BY <1>0, <1>9 DEF MetadataPacket, Metadata, Snapshot
  <2> QED BY <1>0, <1>9, <2>1, SideRest DEF MetadataPacket
<1>10. CASE BatteryPacket
  BY <1>0, <1>10, BatterySides
<1>11. CASE EarPacket
  BY <1>0, <1>11, EarSides
<1>12. ASSUME NEW seen \in SUBSET Cells, Advert(seen) PROVE SideInv'
  <2>1. s'.ear = s.ear /\ s'.last_ear = s.last_ear
    BY <1>0, <1>12 DEF Advert, BleBattery, Snapshot
  <2>2. pin \in Origins
    BY DEF OwnInv, TelemetryTypeOK
  <2>3. \A c \in Cells : s'.cells[c] \in {s.cells[c], Measured(pin, "ble")}
    BY <1>0, <1>12, <2>2, BleOwn DEF Advert
  <2>4. Measured(pin, "ble").source = "ble"
    BY DEF Measured
  <2> QED BY <1>0, <1>12, <2>1, <2>3, <2>4, SideRest DEF Advert
<1>13. CASE Second
  <2> DEFINE cells == [c \in Cells |-> Older(s.cells[c])]
             aged == [s EXCEPT !.cells = cells]
  <2>1. \A c \in Cells : Older(s.cells[c]).source = s.cells[c].source /\ Older(s.cells[c]).present = s.cells[c].present
                          /\ Older(s.cells[c]) \in Cell
    BY <1>0, StoreAssumption DEF Cell, Older
  <2>2. cells \in [Cells -> Cell]
    BY <2>1
  <2>3. aged \in Snapshot /\ aged.cells = cells /\ aged.ear = s.ear /\ aged.last_ear = s.last_ear
    BY <1>0, <2>2 DEF Snapshot
  <2>4. \A c \in Cells : cells[c] = Older(s.cells[c])
    OBVIOUS
  <2> HIDE DEF cells
  <2>5. s' = IF pin = NoDevice THEN aged ELSE ExpireBle(aged, FRESHNESS + 1)
    BY <1>13 DEF Second, cells
  <2> HIDE DEF aged
  <2>6. CASE pin = NoDevice
    BY <1>0, <1>13, <2>1, <2>3, <2>4, <2>5, <2>6, SideRest DEF Second
  <2>7. CASE pin # NoDevice
    <3>1. s'.ear = s.ear /\ s'.last_ear = s.last_ear
      BY <2>3, <2>5, <2>7 DEF ExpireBle, Snapshot
    <3>2. ASSUME NEW c \in Cells
          PROVE  s'.cells[c] = cells[c] \/ s'.cells[c].source = "ble"
      <4>1. cells[c] \in Cell /\ Historical(cells[c]).source = cells[c].source
        BY <2>2 DEF Historical, Cell
      <4>2. s'.cells[c] = IF cells[c].source = "ble" /\ cells[c].fresh /\ cells[c].age >= FRESHNESS + 1
                          THEN Historical(cells[c]) ELSE cells[c]
        BY <2>3, <2>5, <2>7 DEF ExpireBle, Snapshot
      <4> QED BY <4>1, <4>2
    <3> QED BY <1>0, <1>13, <2>1, <2>4, <3>1, <3>2, SideRest DEF Second
  <2> QED BY <2>6, <2>7
<1>14. CASE UNCHANGED tvars
  BY <1>0, <1>14, SideRest DEF tvars
<1> QED BY <1>1, <1>2, <1>3, <1>4, <1>5, <1>6, <1>7, <1>8, <1>9, <1>10, <1>11, <1>12, <1>13,
           <1>14 DEF TelemetryNext

(* The state of a lone bud is on its own side once both reports are in,    *)
(* whichever came first, whatever was selected, lost, restarted or expired *)
(* before (store.rs 265-277, 497-505).                                     *)
THEOREM EarStaysOnItsSide == TelemetrySpec => []EarOnItsSide
<1>1. TelemetryInit => OwnInv /\ SideInv
  BY OwnStart DEF TelemetryInit, SideInv
<1>2. OwnInv /\ SideInv /\ [TelemetryNext]_tvars => OwnInv' /\ SideInv'
  BY OwnStep, SideStep
<1>3. OwnInv /\ SideInv => EarOnItsSide
  BY SideIsEar
<1> QED BY <1>1, <1>2, <1>3, PTL DEF TelemetrySpec

----------------------------------------------------------------------------
(* The control server. *)
Courses == {"none", "reading", "sending", "waiting", "answering", "streaming"}
Replied == {"none", "ok", "error", "expired", "timeout"}

CourseType ==
    /\ handler \in [Clients -> Courses]
    /\ answer \in [Clients -> Replied]
    /\ ran \in [Clients -> BOOLEAN]
    /\ queue \in Seq(Clients)
    /\ busy \in [client : Clients \cup {"none"}, stage : {"idle", "checks", "acts"}]

(* Nothing of the request exists yet. *)
Unsent(c) == handler[c] = "sending" \/ (handler[c] = "reading" /\ answer[c] = "none")

CourseInv ==
    /\ busy.stage = "idle" <=> busy.client = "none"
    /\ busy.stage = "acts" => ran[busy.client] = TRUE
    /\ \A c \in Clients :
        /\ answer[c] # "none" => handler[c] \in {"none", "reading", "answering"}
        /\ handler[c] = "answering" => answer[c] # "none"
        /\ Unsent(c) => ran[c] = FALSE /\ Forgotten(c)
        /\ answer[c] = "ok" => ran[c] = TRUE
        /\ answer[c] = "expired" => ran[c] = FALSE /\ Forgotten(c)

CtlInv == CourseType /\ CourseInv

LEMMA CourseIsTrue == CtlInv => AnswerIsTrue
BY DEF CtlInv, CourseInv, AnswerIsTrue, Forgotten

LEMMA AppendQueues ==
    ASSUME CourseType, NEW d \in Clients, queue' = Append(queue, d)
    PROVE  /\ queue' \in Seq(Clients)
           /\ \A c \in Clients : c # d /\ ~Queues(c) => ~Queues(c)'
<1>1. queue \in Seq(Clients)
  BY DEF CourseType
<1>2. queue' \in Seq(Clients) /\ DOMAIN queue' = 1..Len(queue) + 1 /\ queue'[Len(queue) + 1] = d
      /\ \A i \in 1..Len(queue) : queue'[i] = queue[i]
  BY <1>1
<1> QED BY <1>1, <1>2 DEF Queues

LEMMA TailQueues ==
    ASSUME CourseType, queue # <<>>, queue' = Tail(queue)
    PROVE  /\ queue' \in Seq(Clients) /\ Head(queue) \in Clients /\ Queues(Head(queue))
           /\ \A c \in Clients : ~Queues(c) => ~Queues(c)'
<1>1. queue \in Seq(Clients)
  BY DEF CourseType
<1>2. queue' \in Seq(Clients) /\ DOMAIN queue' = 1..Len(queue) - 1
      /\ \A i \in 1..Len(queue) - 1 : queue'[i] = queue[i + 1]
  BY <1>1
<1>3. 1 \in DOMAIN queue /\ Head(queue) = queue[1] /\ queue[1] \in Clients
  BY <1>1
<1>4. ASSUME NEW c \in Clients, ~Queues(c) PROVE ~Queues(c)'
  <2>1. \A i \in DOMAIN queue' : i + 1 \in DOMAIN queue /\ queue'[i] = queue[i + 1]
    BY <1>1, <1>2
  <2> QED BY <1>4, <2>1 DEF Queues
<1> QED BY <1>2, <1>3, <1>4 DEF Queues

(* Steps that change the handlers alone, and for the client d alone. *)
LEMMA HandlerStep ==
    ASSUME CtlInv, UNCHANGED <<queue, busy, ran>>, NEW d \in Clients,
           NEW h \in Courses, handler' = [handler EXCEPT ![d] = h],
           NEW a \in Replied, answer' = [answer EXCEPT ![d] = a],
           a # "none" => h \in {"none", "reading", "answering"},
           h = "answering" => a # "none",
           h = "sending" \/ (h = "reading" /\ a = "none") => Unsent(d),
           a = "ok" => answer[d] = "ok" \/ ran[d] = TRUE,
           a = "expired" => answer[d] = "expired" \/ Unsent(d)
    PROVE  CtlInv'
<1>1. CourseType'
  BY DEF CtlInv, CourseType
<1>2. \A c \in Clients : Forgotten(c) <=> Forgotten(c)'
  BY DEF Forgotten, Queues
<1>3. CourseInv'
  <2>1. (busy.stage = "idle" <=> busy.client = "none")' /\ (busy.stage = "acts" => ran[busy.client] = TRUE)'
    BY DEF CtlInv, CourseInv
  <2>2. ASSUME NEW c \in Clients
        PROVE /\ answer'[c] # "none" => handler'[c] \in {"none", "reading", "answering"}
              /\ handler'[c] = "answering" => answer'[c] # "none"
              /\ Unsent(c)' => ran'[c] = FALSE /\ Forgotten(c)'
              /\ answer'[c] = "ok" => ran'[c] = TRUE
              /\ answer'[c] = "expired" => ran'[c] = FALSE /\ Forgotten(c)'
    <3>1. CASE c = d
      BY <1>2, <3>1 DEF CtlInv, CourseInv, CourseType, Unsent
    <3>2. CASE c # d
      BY <1>2, <3>2 DEF CtlInv, CourseInv, CourseType, Unsent
    <3> QED BY <3>1, <3>2
  <2> QED BY <2>1, <2>2 DEF CourseInv
<1> QED BY <1>1, <1>3 DEF CtlInv

(* Steps of the watch channel alone. *)
LEMMA WatchStep ==
    ASSUME CtlInv, UNCHANGED <<handler, answer, ran, queue, busy>>
    PROVE  CtlInv'
BY DEF CtlInv, CourseType, CourseInv, Unsent, Forgotten, Queues

LEMMA CtlStart == CtlInit => CtlInv
<1> SUFFICES ASSUME CtlInit PROVE CtlInv
  OBVIOUS
<1>1. CourseType
  BY DEF CtlInit, CourseType, Courses, Replied, Idle
<1>2. CourseInv
  BY CtlAssumption DEF CtlInit, CourseInv, Unsent, Idle
<1> QED BY <1>1, <1>2 DEF CtlInv

(* A command at work belongs to a client, and was sent. *)
LEMMA AtWork ==
    ASSUME CtlInv, busy # Idle
    PROVE  /\ busy.client \in Clients /\ ~Unsent(busy.client)
           /\ busy.stage \in {"checks", "acts"} /\ busy.client # "none"
<1>1. busy \in [client : Clients \cup {"none"}, stage : {"idle", "checks", "acts"}]
  BY DEF CtlInv, CourseType
<1>2. busy.client # "none"
  BY <1>1 DEF CtlInv, CourseInv, Idle
<1> QED BY <1>1, <1>2 DEF CtlInv, CourseInv, Forgotten

LEMMA ConnectKeeps ==
    ASSUME CtlInv, NEW d \in Clients, Connect(d) PROVE CtlInv'
<1>1. CourseType'
  BY DEF CtlInv, CourseType, Connect, Courses, Replied
<1>2. \A c \in Clients : Forgotten(c) <=> Forgotten(c)'
  BY DEF Connect, Forgotten, Queues
<1>3. (busy.stage = "idle" <=> busy.client = "none")' /\ (busy.stage = "acts" => ran[busy.client] = TRUE)'
  BY DEF CtlInv, CourseInv, CourseType, Connect, Forgotten
<1>4. ASSUME NEW c \in Clients
      PROVE /\ answer'[c] # "none" => handler'[c] \in {"none", "reading", "answering"}
            /\ handler'[c] = "answering" => answer'[c] # "none"
            /\ Unsent(c)' => ran'[c] = FALSE /\ Forgotten(c)'
            /\ answer'[c] = "ok" => ran'[c] = TRUE
            /\ answer'[c] = "expired" => ran'[c] = FALSE /\ Forgotten(c)'
  <2>1. CASE c = d
    BY <1>2, <2>1 DEF Connect, CtlInv, CourseType
  <2>2. CASE c # d
    BY <1>2, <2>2 DEF Connect, CtlInv, CourseInv, CourseType, Unsent
  <2> QED BY <2>1, <2>2
<1> QED BY <1>1, <1>3, <1>4 DEF CtlInv, CourseInv

LEMMA QueuedKeeps ==
    ASSUME CtlInv, NEW d \in Clients, Queued(d) PROVE CtlInv'
<1>1. handler[d] = "sending" /\ handler' = [handler EXCEPT ![d] = "waiting"]
      /\ queue' = Append(queue, d) /\ UNCHANGED <<answer, ran, busy>>
  BY DEF Queued
<1>2. queue' \in Seq(Clients) /\ \A c \in Clients : c # d /\ ~Queues(c) => ~Queues(c)'
  BY <1>1, AppendQueues DEF CtlInv
<1>3. CourseType'
  BY <1>1, <1>2 DEF CtlInv, CourseType, Courses
<1>4. CourseInv'
  BY <1>1, <1>2 DEF CtlInv, CourseInv, CourseType, Unsent, Forgotten
<1> QED BY <1>3, <1>4 DEF CtlInv

LEMMA TakesKeeps ==
    ASSUME CtlInv, Takes PROVE CtlInv'
<1> DEFINE d == Head(queue)
<1>1. busy = Idle /\ queue # <<>> /\ queue' = Tail(queue) /\ UNCHANGED ran
  BY DEF Takes
<1>2. queue' \in Seq(Clients) /\ d \in Clients /\ Queues(d)
      /\ \A c \in Clients : ~Queues(c) => ~Queues(c)'
  BY <1>1, TailQueues DEF CtlInv
<1> HIDE DEF d
<1>3. CASE command_is_current(d) /\ busy' = [client |-> d, stage |-> "checks"]
           /\ UNCHANGED <<handler, answer>>
  <2>1. CourseType'
    BY <1>1, <1>2, <1>3 DEF CtlInv, CourseType
  <2>2. CourseInv'
    BY <1>1, <1>2, <1>3, CtlAssumption
       DEF CtlInv, CourseInv, CourseType, Unsent, Forgotten, command_is_current
  <2> QED BY <2>1, <2>2 DEF CtlInv
<1>4. CASE UNCHANGED <<handler, answer, busy>>
  BY <1>1, <1>2, <1>4 DEF CtlInv, CourseType, CourseInv, Unsent, Forgotten
<1>5. CASE handler[d] = "waiting" /\ Answered(d, "error") /\ UNCHANGED busy
  <2>1. CourseType'
    BY <1>1, <1>2, <1>5 DEF CtlInv, CourseType, Answered, Courses, Replied
  <2>2. CourseInv'
    BY <1>1, <1>2, <1>5 DEF CtlInv, CourseInv, CourseType, Unsent, Forgotten, Answered
  <2> QED BY <2>1, <2>2 DEF CtlInv
<1> QED BY <1>3, <1>4, <1>5 DEF Takes, d

LEMMA ActsKeeps ==
    ASSUME CtlInv, Acts PROVE CtlInv'
<1>1. busy.client \in Clients /\ ~Unsent(busy.client) /\ busy.client # "none"
  BY AtWork DEF Acts, Idle
<1>2. handler[busy.client] = "waiting" /\ ran' = [ran EXCEPT ![busy.client] = TRUE]
      /\ busy' = [busy EXCEPT !.stage = "acts"] /\ UNCHANGED <<handler, answer, queue>>
  BY DEF Acts, command_is_current
<1>3. busy' = [client |-> busy.client, stage |-> "acts"]
  BY <1>2 DEF CtlInv, CourseType
<1>4. CourseType'
  BY <1>1, <1>2, <1>3 DEF CtlInv, CourseType
<1>5. CourseInv'
  BY <1>1, <1>2, <1>3 DEF CtlInv, CourseInv, CourseType, Unsent, Forgotten, Queues
<1> QED BY <1>4, <1>5 DEF CtlInv

(* Replies and Fails: on_command is done, whoever it answered. *)
LEMMA DoneKeeps ==
    ASSUME CtlInv, busy # Idle, busy' = Idle, UNCHANGED <<ran, queue>>,
           NEW a \in {"ok", "error"}, a = "ok" => busy.stage = "acts",
           \/ Waits(busy.client) /\ Answered(busy.client, a)
           \/ UNCHANGED <<handler, answer>>
    PROVE  CtlInv'
<1>1. busy.client \in Clients /\ ~Unsent(busy.client)
  BY AtWork
<1>2. a = "ok" => ran[busy.client] = TRUE
  BY DEF CtlInv, CourseInv
<1>3. CourseType'
  BY <1>1 DEF CtlInv, CourseType, Answered, Courses, Replied, Idle
<1>4. CourseInv'
  BY <1>1, <1>2, CtlAssumption
     DEF CtlInv, CourseInv, CourseType, Unsent, Forgotten, Queues, Answered, Idle
<1> QED BY <1>3, <1>4 DEF CtlInv

LEMMA CtlStep == CtlInv /\ [CtlNext]_cvars => CtlInv'
<1> SUFFICES ASSUME CtlInv, [CtlNext]_cvars PROVE CtlInv'
  OBVIOUS
<1>0. handler \in [Clients -> Courses] /\ answer \in [Clients -> Replied]
  BY DEF CtlInv, CourseType
<1>1. ASSUME NEW d \in Clients, HangUp(d) PROVE CtlInv'
  <2> DEFINE h == IF handler[d] = "reading" THEN "none" ELSE handler[d]
  <2>1. handler' = [handler EXCEPT ![d] = h] /\ h \in Courses
    BY <1>0, <1>1 DEF HangUp, Courses
  <2>2. answer' = [answer EXCEPT ![d] = answer[d]] /\ answer[d] \in Replied
        /\ UNCHANGED <<queue, busy, ran>>
    BY <1>0, <1>1 DEF HangUp, NotRun
  <2>3. /\ answer[d] # "none" => h \in {"none", "reading", "answering"}
        /\ h = "answering" => answer[d] # "none"
        /\ h = "sending" \/ (h = "reading" /\ answer[d] = "none") => Unsent(d)
    BY <1>0 DEF CtlInv, CourseInv, Unsent
  <2> QED BY <2>1, <2>2, <2>3, HandlerStep
<1>2. ASSUME NEW d \in Clients, Asks(d) PROVE CtlInv'
  <2>1. handler' = [handler EXCEPT ![d] = "sending"] /\ "sending" \in Courses /\ Unsent(d)
    BY <1>2 DEF Asks, Courses, Unsent
  <2>2. answer' = [answer EXCEPT ![d] = answer[d]] /\ answer[d] \in Replied
        /\ answer[d] = "none" /\ UNCHANGED <<queue, busy, ran>>
    BY <1>0, <1>2 DEF Asks, NotRun
  <2> QED BY <2>1, <2>2, HandlerStep
<1>3. ASSUME NEW d \in Clients, Answers(d) PROVE CtlInv'
  <2> DEFINE h == IF d \in there THEN "reading" ELSE "none"
  <2>1. handler' = [handler EXCEPT ![d] = h] /\ h \in Courses /\ h \in {"reading", "none"}
    BY <1>3 DEF Answers, Courses
  <2>2. answer' = [answer EXCEPT ![d] = answer[d]] /\ answer[d] \in Replied
        /\ answer[d] # "none" /\ UNCHANGED <<queue, busy, ran>>
    BY <1>0, <1>3 DEF Answers, NotRun, CtlInv, CourseInv
  <2> HIDE DEF h
  <2> QED BY <2>1, <2>2, HandlerStep
<1>4. ASSUME NEW d \in Clients, Deadline(d) PROVE CtlInv'
  <2> DEFINE a == IF handler[d] = "sending" THEN "expired" ELSE "timeout"
  <2>1. handler' = [handler EXCEPT ![d] = "answering"] /\ "answering" \in Courses
        /\ answer' = [answer EXCEPT ![d] = a] /\ a \in Replied /\ a # "none" /\ a # "ok"
        /\ UNCHANGED <<queue, busy, ran>> /\ (a = "expired" => Unsent(d))
    BY <1>4 DEF Deadline, Answered, NotRun, Courses, Replied, Unsent
  <2> HIDE DEF a
  <2> QED BY <2>1, HandlerStep
<1>5. ASSUME NEW d \in Clients, Subscribes(d) PROVE CtlInv'
  <2>1. handler' = [handler EXCEPT ![d] = "streaming"] /\ "streaming" \in Courses
    BY <1>5 DEF Subscribes, Courses
  <2>2. answer' = [answer EXCEPT ![d] = answer[d]] /\ answer[d] \in Replied
        /\ answer[d] = "none" /\ UNCHANGED <<queue, busy, ran>>
    BY <1>0, <1>5 DEF Subscribes, Same
  <2> QED BY <2>1, <2>2, HandlerStep
<1>6. ASSUME NEW d \in Clients, SubscriberWrote(d) PROVE CtlInv'
  <2>1. CASE UNCHANGED handler
    BY <1>6, <2>1, WatchStep DEF SubscriberWrote, Same
  <2>2. CASE handler' = [handler EXCEPT ![d] = "none"]
    <3>1. answer' = [answer EXCEPT ![d] = answer[d]] /\ answer[d] \in Replied
          /\ "none" \in Courses /\ UNCHANGED <<queue, busy, ran>>
      BY <1>0, <1>6 DEF SubscriberWrote, Same, Courses
    <3> QED BY <2>2, <3>1, HandlerStep
  <2> QED BY <1>6, <2>1, <2>2 DEF SubscriberWrote
<1>7. ASSUME Replies PROVE CtlInv'
  <2> DEFINE a == IF busy.stage = "acts" THEN "ok" ELSE "error"
  <2>1. busy # Idle /\ busy' = Idle /\ UNCHANGED <<ran, queue>> /\ a \in {"ok", "error"}
        /\ (a = "ok" => busy.stage = "acts")
        /\ ((Waits(busy.client) /\ Answered(busy.client, a)) \/ UNCHANGED <<handler, answer>>)
    BY <1>7 DEF Replies
  <2> HIDE DEF a
  <2> QED BY <2>1, DoneKeeps
<1>8. ASSUME Fails PROVE CtlInv'
  <2>1. busy # Idle /\ busy' = Idle /\ UNCHANGED <<ran, queue>>
        /\ ((Waits(busy.client) /\ Answered(busy.client, "error")) \/ UNCHANGED <<handler, answer>>)
    BY <1>8 DEF Fails, Idle
  <2> QED BY <2>1, DoneKeeps
<1>9. CASE \/ UNCHANGED cvars \/ SecondPasses \/ Changes \/ WriterWakes \/ WriterWrites
           \/ \E d \in Clients : SubscriberWakes(d)
  BY <1>9, WatchStep
     DEF cvars, SecondPasses, NotRun, Changes, WriterWakes, WriterWrites, SubscriberWakes, Same
<1> QED BY <1>1, <1>2, <1>3, <1>4, <1>5, <1>6, <1>7, <1>8, <1>9,
           ConnectKeeps, QueuedKeeps, TakesKeeps, ActsKeeps DEF CtlNext

(* `ok` is only said of a command that was carried out, and a command that *)
(* expired before it was queued is never begun and never will be: for any  *)
(* number of clients, room in the queue and deadline (ctl_server.rs        *)
(* 278-303).                                                               *)
THEOREM AnswersAreTrue == CtlSpec => []AnswerIsTrue
<1>1. CtlSpec => []CtlInv
  BY CtlStart, CtlStep, PTL DEF CtlSpec
<1> QED BY <1>1, CourseIsTrue, PTL

(* A command whose client was already answered is never begun, however     *)
(* long it sat in the queue behind a dial (session.rs 853-870).            *)
THEOREM AnsweredStaysInert == CtlSpec => InertOnceAnswered
<1> DEFINE Inert == \A c \in Clients : ran'[c] /\ ~ran[c] => answer[c] = "none"
<1>1. CtlSpec => []CtlInv
  BY CtlStart, CtlStep, PTL DEF CtlSpec
<1>2. CtlInv /\ [CtlNext]_cvars => [Inert]_cvars
  <2> SUFFICES ASSUME CtlInv, [CtlNext]_cvars, NEW c \in Clients, ran'[c], ~ran[c]
               PROVE  answer[c] = "none"
    OBVIOUS
  <2>1. ran' # ran
    OBVIOUS
  <2>2. ASSUME NEW d \in Clients, Connect(d) PROVE FALSE
    BY <2>2 DEF Connect, CtlInv, CourseType
  <2>3. Acts
    BY <2>1, <2>2
       DEF CtlNext, cvars, HangUp, Asks, Answers, Queued, Deadline, Subscribes, SubscriberWrote,
           SubscriberWakes, SecondPasses, Takes, Replies, Fails, Changes, WriterWakes,
           WriterWrites, NotRun, Same
  <2>4. c = busy.client /\ handler[c] = "waiting"
    BY <2>3 DEF Acts, command_is_current, CtlInv, CourseType
  <2> QED BY <2>4 DEF CtlInv, CourseInv
<1>3. CtlSpec => [][Inert]_cvars
  BY <1>1, <1>2, PTL DEF CtlSpec
<1> QED BY <1>3 DEF InertOnceAnswered

(* What the invariant leaves out: who is there, how old a request is, and  *)
(* that the queue keeps to its bound.                                      *)
RestType ==
    /\ there \subseteq Clients
    /\ age \in [Clients -> 0..COMMAND_DEADLINE]
    /\ Len(queue) <= CMD_QUEUE

LEMMA RestStep ==
    ASSUME CtlInv, RestType, [CtlNext]_cvars PROVE RestType'
<1>1. /\ CMD_QUEUE \in Nat /\ COMMAND_DEADLINE \in Nat /\ queue \in Seq(Clients)
      /\ age \in [Clients -> 0..COMMAND_DEADLINE] /\ Len(queue) <= CMD_QUEUE
  BY CtlAssumption DEF CtlInv, CourseType, RestType
<1>2. there' \subseteq Clients
  BY DEF RestType, CtlNext, cvars, Connect, HangUp, Asks, Answers, Queued, Deadline, Subscribes,
         SubscriberWrote, SubscriberWakes, SecondPasses, Takes, Acts, Replies, Fails, Changes,
         WriterWakes, WriterWrites, Same
<1>3. age' \in [Clients -> 0..COMMAND_DEADLINE]
  <2>1. ASSUME NEW c \in Clients, Connect(c) PROVE age' = [age EXCEPT ![c] = 0]
    BY <2>1 DEF Connect
  <2>2. CASE SecondPasses
    <3>1. age' = [c \in Clients |->
                   IF Waits(c) /\ age[c] < COMMAND_DEADLINE THEN age[c] + 1 ELSE age[c]]
      BY <2>2 DEF SecondPasses
    <3>2. \A c \in Clients : age[c] \in 0..COMMAND_DEADLINE
                             /\ (age[c] < COMMAND_DEADLINE => age[c] + 1 \in 0..COMMAND_DEADLINE)
      BY <1>1
    <3> QED BY <3>1, <3>2
  <2>3. CASE age' = age
    BY <1>1, <2>3
  <2>4. ASSUME NEW c \in Clients, Connect(c) PROVE age' \in [Clients -> 0..COMMAND_DEADLINE]
    <3>1. 0 \in 0..COMMAND_DEADLINE
      BY <1>1
    <3> QED BY <1>1, <2>1, <2>4, <3>1
  <2> QED
    BY <2>2, <2>3, <2>4
       DEF CtlNext, cvars, HangUp, Asks, Answers, Queued, Deadline, Subscribes, SubscriberWrote,
           SubscriberWakes, Takes, Acts, Replies, Fails, Changes, WriterWakes, WriterWrites, Same
<1>4. Len(queue') <= CMD_QUEUE
  <2>1. ASSUME NEW c \in Clients, Queued(c) PROVE Len(queue') <= CMD_QUEUE
    BY <1>1, <2>1 DEF Queued
  <2>2. ASSUME Takes PROVE Len(queue') <= CMD_QUEUE
    <3>1. queue' = Tail(queue) /\ queue # <<>>
      BY <2>2 DEF Takes
    <3> QED BY <1>1, <3>1
  <2> QED
    BY <1>1, <2>1, <2>2
       DEF CtlNext, cvars, Connect, HangUp, Asks, Answers, Deadline, Subscribes, SubscriberWrote,
           SubscriberWakes, SecondPasses, Acts, Replies, Fails, Changes, WriterWakes,
           WriterWrites, NotRun, Same
<1> QED BY <1>2, <1>3, <1>4 DEF RestType

(* The types of the server's state, for any number of clients; and the     *)
(* queue never holds more than CMD_QUEUE commands, nor does a request wait *)
(* longer than its deadline (ctl_server.rs 36-39, 278-303).                *)
THEOREM CtlTypeCorrect == CtlSpec => []CtlTypeOK
<1>1. CtlInit => CtlInv /\ RestType
  BY CtlStart, CtlAssumption DEF CtlInit, RestType
<1>2. CtlInv /\ RestType /\ [CtlNext]_cvars => CtlInv' /\ RestType'
  BY CtlStep, RestStep
<1>3. CtlInv /\ RestType => CtlTypeOK
  BY DEF CtlInv, CourseType, RestType, CtlTypeOK, Courses, Replied
<1> QED BY <1>1, <1>2, <1>3, PTL DEF CtlSpec

----------------------------------------------------------------------------
(* The readers of the watch channel. *)
Reader == [at : {"off", "waits", "sleeps", "writes"}, seen : BOOLEAN, held : BOOLEAN,
           shown : BOOLEAN, lost : BOOLEAN]

(* What a subscriber is about to write is the version it marked as seen,   *)
(* unless that was overtaken, and then it has one it has not seen.         *)
WatchInv ==
    /\ watch \in [Readers -> Reader]
    /\ \A r \in Readers : watch[r].at = "writes" /\ watch[r].seen => watch[r].held
    /\ WatchersCatchUp

LEMMA WatchStart == CtlInit => WatchInv
BY DEF CtlInit, WatchInv, WatchersCatchUp, Reader, UpToDate, Off

(* One reader moves, to a state that is up to date if it claims to be. *)
LEMMA ReaderMoves ==
    ASSUME WatchInv, NEW r \in Readers, NEW w \in Reader, Becomes(r, w),
           w.at = "writes" /\ w.seen => w.held,
           w.at = "waits" /\ w.seen /\ ~w.lost => w.shown
    PROVE  WatchInv'
<1>1. watch' \in [Readers -> Reader] /\ watch'[r] = w
      /\ \A q \in Readers : q # r => watch'[q] = watch[q]
  BY DEF WatchInv, Becomes
<1> QED BY <1>1 DEF WatchInv, WatchersCatchUp

LEMMA WatchKept == WatchInv /\ [CtlNext]_cvars => WatchInv'
<1> SUFFICES ASSUME WatchInv, [CtlNext]_cvars PROVE WatchInv'
  OBVIOUS
<1>0. watch \in [Readers -> Reader]
  BY DEF WatchInv
<1>1. CASE UNCHANGED watch
  BY <1>1 DEF WatchInv, WatchersCatchUp
<1>2. CASE Changes
  <2>1. ASSUME NEW r \in Readers
        PROVE \/ watch'[r] = Off
              \/ watch'[r] = [watch[r] EXCEPT !.seen = FALSE, !.held = FALSE, !.shown = FALSE]
    BY <1>2, <2>1 DEF Changes
  <2>2. watch' = [r \in Readers |-> watch'[r]]
    BY <1>2 DEF Changes
  <2>3. ASSUME NEW r \in Readers
        PROVE watch'[r] \in Reader /\ watch'[r].seen = FALSE
    <3> DEFINE w == [watch[r] EXCEPT !.seen = FALSE, !.held = FALSE, !.shown = FALSE]
    <3>1. w \in Reader /\ w.seen = FALSE
      BY <1>0, <2>3 DEF Reader
    <3>2. Off \in Reader /\ Off.seen = FALSE
      BY DEF Reader, Off
    <3> HIDE DEF w
    <3>3. watch'[r] = Off \/ watch'[r] = w
      BY <2>1, <2>3 DEF w
    <3> QED BY <3>1, <3>2, <3>3
  <2> QED BY <2>2, <2>3 DEF WatchInv, WatchersCatchUp
<1>3. CASE WriterWakes
  <2> DEFINE w == [watch["writer"] EXCEPT !.at = "sleeps", !.seen = TRUE, !.held = TRUE]
  <2>1. "writer" \in Readers /\ w \in Reader /\ w.at = "sleeps" /\ Becomes("writer", w)
    BY <1>0, <1>3 DEF WriterWakes, Readers, Reader
  <2> HIDE DEF w
  <2> QED BY <2>1, ReaderMoves
<1>4. CASE WriterWrites
  <2> DEFINE w(ok) == [watch["writer"] EXCEPT !.at = "waits", !.seen = TRUE, !.held = FALSE,
                                              !.lost = ~ok, !.shown = ok \/ @]
  <2>1. PICK ok \in BOOLEAN : Becomes("writer", w(ok))
    BY <1>4 DEF WriterWrites
  <2>2. "writer" \in Readers /\ w(ok) \in Reader /\ w(ok).at = "waits"
        /\ (~w(ok).lost => w(ok).shown)
    BY <1>0 DEF Readers, Reader
  <2> HIDE DEF w
  <2> QED BY <2>1, <2>2, ReaderMoves
<1>5. ASSUME NEW c \in Clients, Subscribes(c) PROVE WatchInv'
  <2> DEFINE w == [Off EXCEPT !.at = "writes", !.seen = TRUE, !.held = TRUE]
  <2>1. c \in Readers /\ w \in Reader /\ w.at = "writes" /\ w.held /\ Becomes(c, w)
    BY <1>5 DEF Subscribes, Readers, Reader, Off
  <2> HIDE DEF w
  <2> QED BY <2>1, ReaderMoves
<1>6. ASSUME NEW c \in Clients, SubscriberWrote(c) PROVE WatchInv'
  <2> DEFINE w == [watch[c] EXCEPT !.at = "waits", !.shown = watch[c].held, !.held = FALSE]
  <2>1. c \in Readers /\ w \in Reader /\ w.at = "waits" /\ (w.seen => w.shown)
    BY <1>0, <1>6 DEF SubscriberWrote, Readers, Reader, WatchInv
  <2>2. Off \in Reader /\ Off.at = "off"
    BY DEF Off, Reader
  <2>3. Becomes(c, w) \/ Becomes(c, Off)
    BY <1>0, <1>6 DEF SubscriberWrote, Readers, Reader
  <2> HIDE DEF w
  <2> QED BY <2>1, <2>2, <2>3, ReaderMoves
<1>7. ASSUME NEW c \in Clients, SubscriberWakes(c) PROVE WatchInv'
  <2> DEFINE w == [watch[c] EXCEPT !.at = "writes", !.seen = TRUE, !.held = TRUE]
  <2>1. c \in Readers /\ w \in Reader /\ w.at = "writes" /\ w.held /\ Becomes(c, w)
    BY <1>0, <1>7 DEF SubscriberWakes, Readers, Reader
  <2> HIDE DEF w
  <2> QED BY <2>1, ReaderMoves
<1> QED
  BY <1>1, <1>2, <1>3, <1>4, <1>5, <1>6, <1>7
     DEF CtlNext, cvars, Stays, Connect, HangUp, Asks, Answers, Queued, Deadline, SecondPasses,
         Takes, Acts, Replies, Fails

(* Neither the writer of state.json nor a subscriber is left waiting on an *)
(* old snapshot, however the changes fall between its steps; but for a     *)
(* write of the file that failed (writer.rs 69-76; ctl_server.rs 246-270). *)
THEOREM ReadersCatchUp == CtlSpec => []WatchersCatchUp
<1>1. WatchInv => WatchersCatchUp
  BY DEF WatchInv
<1> QED BY <1>1, WatchStart, WatchKept, PTL DEF CtlSpec

----------------------------------------------------------------------------
(* The client that writes a setting. *)
Words == Verdicts \cup {"absent", "verifying", "error"}
Statuses == [is : Words, of : Nat]

ClientType ==
    /\ writes \in Nat /\ status \in Statuses
    /\ at \in [Writers -> {"asking", "told", "watching", "done"}]
    /\ wrote \in [Writers -> Nat]
    /\ line \in [Writers -> Seq(Statuses)]
    /\ outcome \in [Writers -> Statuses]

(* What a client may still be told is about its write or a later one. *)
AnswerInv ==
    /\ status.of <= writes
    /\ \A c \in Writers : at[c] \in {"told", "watching"} => status.of >= wrote[c]
LineInv ==
    /\ \A c \in Writers : at[c] \in {"asking", "told"} => line[c] = <<>>
    /\ \A c \in Writers : \A i \in 1..Len(line[c]) : line[c][i].of >= wrote[c]
OutcomeInv ==
    /\ \A c \in Writers : at[c] # "done" => outcome[c].of = 0
    /\ VerdictIsNotOlder
ClientInv == ClientType /\ AnswerInv /\ LineInv /\ OutcomeInv

(* A client ends with nothing, or with what a line says. *)
LEMMA EndsKeep ==
    ASSUME ClientInv, NEW c \in Writers, at[c] # "done", NEW with \in Statuses, Ends(c, with),
           with.of = 0 \/ with.of >= wrote[c]
    PROVE  ClientInv'
<1>1. ClientType'
  BY DEF ClientInv, ClientType, Ends
<1>2. AnswerInv'
  BY DEF ClientInv, ClientType, AnswerInv, Ends
<1>3. LineInv'
  <2>1. ASSUME NEW d \in Writers PROVE line'[d] = <<>> \/ (line'[d] = line[d] /\ at'[d] = at[d])
    BY DEF ClientInv, ClientType, Ends
  <2> QED
    BY <2>1 DEF ClientInv, ClientType, LineInv, Ends
<1>4. OutcomeInv'
  BY DEF ClientInv, ClientType, OutcomeInv, VerdictIsNotOlder, Ends
<1> QED BY <1>1, <1>2, <1>3, <1>4 DEF ClientInv

(* A write is numbered after every other, and so is what the status is about. *)
LEMMA CarriesKeeps ==
    ASSUME ClientInv, NEW c \in Writers, Carries(c)
    PROVE  ClientInv'
<1> USE DEF ClientInv, ClientType
<1>0. /\ writes' = writes + 1 /\ status'.of = writes + 1 /\ status' \in Statuses
      /\ wrote' = [wrote EXCEPT ![c] = writes + 1] /\ at' = [at EXCEPT ![c] = "told"]
      /\ at[c] = "asking" /\ line' = line /\ outcome' = outcome
  BY DEF Carries, Publishes, Verifying, Statuses, Words
<1>1. ClientType'
  BY <1>0
<1>2. AnswerInv'
  BY <1>0 DEF AnswerInv, Statuses
<1>3. LineInv'
  BY <1>0 DEF LineInv
<1>4. OutcomeInv'
  BY <1>0 DEF OutcomeInv, VerdictIsNotOlder
<1> QED BY <1>1, <1>2, <1>3, <1>4

LEMMA JudgesKeeps ==
    ASSUME ClientInv, NEW v \in Verdicts, Judges(v)
    PROVE  ClientInv'
<1> USE DEF ClientInv, ClientType
<1>0. /\ status' \in Statuses /\ status'.of = status.of
      /\ UNCHANGED <<writes, at, wrote, line, outcome>>
  BY DEF Judges, Publishes, Statuses, Words
<1>1. ClientType'
  BY <1>0
<1>2. AnswerInv' /\ LineInv' /\ OutcomeInv'
  BY <1>0 DEF AnswerInv, LineInv, OutcomeInv, VerdictIsNotOlder
<1> QED BY <1>1, <1>2

LEMMA SendsKeeps ==
    ASSUME ClientInv, NEW c \in Writers, SendsLine(c)
    PROVE  ClientInv'
<1> USE DEF ClientInv, ClientType
<1>0. /\ line' = [line EXCEPT ![c] = Append(@, status)] /\ at[c] = "watching"
      /\ UNCHANGED <<writes, status, at, wrote, outcome>>
  BY DEF SendsLine
<1>1. ClientType'
  BY <1>0
<1>2. AnswerInv' /\ OutcomeInv'
  BY <1>0 DEF AnswerInv, OutcomeInv, VerdictIsNotOlder
<1>3. LineInv'
  <2>1. ASSUME NEW d \in Writers, NEW i \in 1..Len(line'[d]) PROVE line'[d][i].of >= wrote[d]
    <3>1. CASE d # c
      BY <1>0, <2>1, <3>1 DEF LineInv
    <3>2. CASE d = c
      <4>1. line[c] \in Seq(Statuses) /\ line'[c] = Append(line[c], status)
        BY <1>0
      <4>2. status.of >= wrote[c]
        BY <1>0 DEF AnswerInv
      <4>3. line'[c][i] = status \/ (i \in 1..Len(line[c]) /\ line'[c][i] = line[c][i])
        BY <4>1, <2>1, <3>2
      <4> QED BY <3>2, <4>2, <4>3 DEF LineInv
    <3> QED BY <3>1, <3>2
  <2>2. \A d \in Writers : at'[d] \in {"asking", "told"} => line'[d] = <<>>
    BY <1>0 DEF LineInv
  <2> QED BY <1>0, <2>1, <2>2 DEF LineInv
<1> QED BY <1>1, <1>2, <1>3

LEMMA OpensKeeps ==
    ASSUME ClientInv, NEW c \in Writers, OpensWatch(c)
    PROVE  ClientInv'
<1> USE DEF ClientInv, ClientType
<1>0. /\ at[c] = "told" /\ at' = [at EXCEPT ![c] = "watching"]
      /\ UNCHANGED <<writes, status, wrote, line, outcome>>
  BY DEF OpensWatch
<1> QED BY <1>0 DEF AnswerInv, LineInv, OutcomeInv, VerdictIsNotOlder

LEMMA ReadsKeeps ==
    ASSUME ClientInv, NEW c \in Writers, ReadsLine(c)
    PROVE  ClientInv'
<1>0. at[c] = "watching" /\ line[c] # <<>>
  BY DEF ReadsLine, Watches
<1>1. line[c] \in Seq(Statuses)
  BY DEF ClientInv, ClientType
<1>2. Head(line[c]) \in Statuses /\ Head(line[c]).of >= wrote[c]
  <2>1. 1 \in 1..Len(line[c]) /\ Head(line[c]) = line[c][1]
    BY <1>0, <1>1
  <2> QED BY <1>1, <2>1 DEF ClientInv, LineInv
<1>3. CASE \E o \in outcome_for(Head(line[c])) : Ends(c, o)
  <2>1. Ends(c, Head(line[c]))
    BY <1>3 DEF outcome_for
  <2> QED BY <1>0, <1>2, <2>1, EndsKeep
<1>4. CASE /\ line' = [line EXCEPT ![c] = Tail(@)]
           /\ UNCHANGED <<writes, status, at, wrote, fresh, waited, outcome>>
  <2>1. ClientType'
    BY <1>0, <1>1, <1>4 DEF ClientInv, ClientType
  <2>2. AnswerInv' /\ OutcomeInv'
    BY <1>4 DEF ClientInv, AnswerInv, OutcomeInv, VerdictIsNotOlder
  <2>3. ASSUME NEW d \in Writers, NEW i \in 1..Len(line'[d]) PROVE line'[d][i].of >= wrote[d]
    <3>1. CASE d # c
      BY <1>4, <2>3, <3>1 DEF ClientInv, ClientType, LineInv
    <3>2. CASE d = c
      <4>1. i + 1 \in 1..Len(line[c]) /\ line'[c][i] = line[c][i + 1]
        BY <1>0, <1>1, <1>4, <2>3, <3>2 DEF ClientInv, ClientType
      <4> QED BY <3>2, <4>1 DEF ClientInv, LineInv
    <3> QED BY <3>1, <3>2
  <2>4. \A d \in Writers : at'[d] \in {"asking", "told"} => line'[d] = <<>>
    BY <1>0, <1>4 DEF ClientInv, ClientType, LineInv
  <2>5. LineInv'
    BY <1>4, <2>3, <2>4 DEF LineInv
  <2> QED BY <2>1, <2>2, <2>5 DEF ClientInv
<1> QED BY <1>3, <1>4 DEF ReadsLine

LEMMA ClientStep ==
    ASSUME ClientInv, [ClientNext]_kvars
    PROVE  ClientInv'
<1>0. /\ Unverified \in Statuses /\ Unverified.of = 0
      /\ [is |-> "error", of |-> 0] \in Statuses
  BY DEF Unverified, Statuses, Words, Verdicts
<1>1. ASSUME NEW c \in Writers, Carries(c) PROVE ClientInv'
  BY <1>1, CarriesKeeps
<1>2. ASSUME NEW c \in Writers, Refuses(c) PROVE ClientInv'
  BY <1>0, <1>2, EndsKeep DEF Refuses
<1>3. ASSUME NEW c \in Writers, SendsLine(c) PROVE ClientInv'
  BY <1>3, SendsKeeps
<1>4. ASSUME NEW v \in Verdicts, Judges(v) PROVE ClientInv'
  BY <1>4, JudgesKeeps
<1>5. ASSUME NEW c \in Writers, OpensWatch(c) PROVE ClientInv'
  BY <1>5, OpensKeeps
<1>6. ASSUME NEW c \in Writers, CannotSubscribe(c) PROVE ClientInv'
  BY <1>0, <1>6, EndsKeep DEF CannotSubscribe
<1>7. ASSUME NEW c \in Writers, ReadsLine(c) PROVE ClientInv'
  BY <1>7, ReadsKeeps
<1>8. ASSUME NEW c \in Writers, ReadTimesOut(c) PROVE ClientInv'
  BY <1>8 DEF ReadTimesOut, ClientInv, ClientType, AnswerInv, LineInv, OutcomeInv,
              VerdictIsNotOlder
<1>9. ASSUME NEW c \in Writers, DaemonCloses(c) PROVE ClientInv'
  BY <1>0, <1>9, EndsKeep DEF DaemonCloses, Watches
<1>10. ASSUME NEW c \in Writers, GivesUp(c) PROVE ClientInv'
  BY <1>0, <1>10, EndsKeep DEF GivesUp
<1>11. CASE UNCHANGED kvars
  BY <1>11 DEF kvars, ClientInv, ClientType, AnswerInv, LineInv, OutcomeInv, VerdictIsNotOlder
<1> QED BY <1>1, <1>2, <1>3, <1>4, <1>5, <1>6, <1>7, <1>8, <1>9, <1>10, <1>11
           DEF ClientNext, AllDone

LEMMA ClientStart == ClientInit => ClientInv
BY DEF ClientInit, ClientInv, ClientType, AnswerInv, LineInv, OutcomeInv, VerdictIsNotOlder,
       NoStatus, Statuses, Words

(* No client reports the verdict on a write before its own, however many   *)
(* clients write the key, however long the lines wait in the socket and    *)
(* whichever snapshots the watch skips (bin/auris.rs 376-426; session.rs   *)
(* send_setting_write).                                                    *)
THEOREM ReportsNotOlder == ClientSpec => []VerdictIsNotOlder
<1>1. ClientInit => ClientInv
  BY ClientStart
<1>2. ClientInv /\ [ClientNext]_kvars => ClientInv'
  BY ClientStep
<1>3. ClientInv => VerdictIsNotOlder
  BY DEF ClientInv, OutcomeInv
<1> QED BY <1>1, <1>2, <1>3, PTL DEF ClientSpec
=============================================================================
