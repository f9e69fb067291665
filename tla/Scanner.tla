------------------------------ MODULE Scanner ------------------------------
(***************************************************************************)
(* The proximity scan (autoconnect.rs run, scan, diagnose, park): LE       *)
(* discovery while the supervisor wants it, a property stream per address  *)
(* it meets, a sighting per advert of the watched model, and the waits     *)
(* between setups that fail.                                               *)
(*                                                                         *)
(* The radio is off, without LE (bredr), dual, or away: bluetoothd does    *)
(* not answer, or refuses for another reason.  D-Bus calls take no time    *)
(* worth counting, and adverts below min_rssi are left out.  bluer ends    *)
(* the property stream of an object that is removed (bluez.rs:92).         *)
(***************************************************************************)
EXTENDS Naturals, Sequences, FiniteSets, SequencesExt

CONSTANTS
    Addresses,          \* random LE addresses in reach
    AirPods,            \* those the selected AirPods advertise from
    Reference,          \* the AirPods are of the model of DEFAULT_MODEL_ID
    WATCHED_CAP,
    SCAN_RETRY, SCAN_RETRY_MAX, LE_RECHECK, ADAPTER_RECHECK, ADAPTER_SETTLE,
    MAX_UNREAD,         \* bound: discovery events unread
    MAX_FAILURES        \* bound: failures counted, enough to reach SCAN_RETRY_MAX

ASSUME ScannerAssumption ==
    /\ AirPods \subseteq Addresses /\ Reference \in BOOLEAN
    /\ {WATCHED_CAP, SCAN_RETRY, SCAN_RETRY_MAX, LE_RECHECK, ADAPTER_RECHECK, ADAPTER_SETTLE,
        MAX_UNREAD, MAX_FAILURES} \subseteq Nat

VARIABLES
    radio,          \* off, bredr, away or dual
    did,            \* the store knows the product id of the selected AirPods
    scan_wanted, scan_told,   \* scan_rx: the wish, and that it changed since it was read
    phase,          \* off, setup, diagnosing, parked, settling, resting or scanning
    fault,          \* why the setup failed, as far as it is known
    failures, waited,
    able,           \* how long the scan has been wanted and the radio dual
    present,        \* the addresses BlueZ has a device for
    unread,         \* discovery events not read: [added, address]
    watched,        \* scan's set of addresses
    streams,        \* the property streams in `changes`
    refused,        \* the addresses met while the cap was reached
    model,          \* scan's model bytes are those of the AirPods
    missed          \* the latest advert of the AirPods went unseen by the scan, and why

loopVars == <<radio, scan_wanted, scan_told, phase, fault, failures, waited, able>>
discoveryVars == <<present, unread, watched, streams, refused, model>>
nvars == <<loopVars, did, discoveryVars, missed>>

ScannerInit ==
    /\ radio = "off" /\ did = FALSE /\ scan_wanted = FALSE /\ scan_told = FALSE
    /\ phase = "off" /\ fault = "none" /\ failures = 0 /\ waited = 0 /\ able = 0
    /\ present = {} /\ unread = <<>> /\ watched = {} /\ streams = {} /\ refused = {}
    /\ model = FALSE /\ missed = "no"

----------------------------------------------------------------------------
(* Discovery. *)
Unread(added, a) ==
    unread' = IF phase = "scanning" THEN Append(unread, [added |-> added, address |-> a]) ELSE unread
Scanned == Len(unread) < MAX_UNREAD

DeviceAppears(a) ==
    /\ radio = "dual" /\ Scanned /\ a \notin present
    /\ present' = present \cup {a} /\ Unread(TRUE, a)
    /\ UNCHANGED <<watched, streams, refused, model, missed, did, loopVars>>
DeviceDisappears(a) ==
    /\ Scanned /\ a \in present
    /\ present' = present \ {a} /\ Unread(FALSE, a)
    /\ streams' = streams \ {a}
    /\ UNCHANGED <<watched, refused, model, missed, did, loopVars>>

DeviceAdded(a) ==
    /\ Head(unread) = [added |-> TRUE, address |-> a]
    /\ IF Cardinality(watched) < WATCHED_CAP /\ a \notin watched
       THEN /\ watched' = watched \cup {a}
            /\ streams' = streams \cup ({a} \cap present)
            /\ UNCHANGED refused
       ELSE /\ refused' = refused \cup ({a} \ watched)
            /\ UNCHANGED <<watched, streams>>
DeviceRemoved_KeepsSlot(a) ==
    /\ Head(unread) = [added |-> FALSE, address |-> a]
    /\ refused' = refused \ {a}
    /\ UNCHANGED <<watched, streams>>
DeviceRemoved(a) ==
    /\ Head(unread) = [added |-> FALSE, address |-> a]
    /\ watched' = watched \ {a} /\ refused' = refused \ {a}
    /\ UNCHANGED streams
ReadsDiscovery ==
    /\ phase = "scanning" /\ ~scan_told /\ unread # <<>>
    /\ unread' = Tail(unread)
    /\ \E a \in Addresses : DeviceAdded(a) \/ DeviceRemoved(a)
    /\ UNCHANGED <<present, model, missed, did, loopVars>>

(* The AirPods advertise: the scan qualifies the data, or does not see it. *)
Met(a) == \A i \in DOMAIN unread : unread[i].address # a
Advert(a) ==
    /\ phase = "scanning" /\ radio = "dual" /\ a \in AirPods \cap present
    /\ missed' = IF a \in streams /\ model THEN "no"
                 ELSE IF a \in refused THEN "full"
                 ELSE IF ~Met(a) THEN "unmet"
                 ELSE IF a \in streams THEN "model" ELSE "lost"
    /\ UNCHANGED <<discoveryVars, did, loopVars>>

----------------------------------------------------------------------------
(* run. *)
Idle == UNCHANGED <<did, present, missed>>
Goes(to) ==
    /\ phase' = to /\ waited' = 0
    /\ watched' = {} /\ streams' = {} /\ refused' = {} /\ model' = FALSE /\ unread' = <<>>
    /\ UNCHANGED <<radio, scan_wanted, able>> /\ Idle

Loop ==
    /\ phase = "off" /\ (scan_wanted \/ scan_told)
    /\ scan_told' = FALSE
    /\ Goes(IF scan_wanted THEN "setup" ELSE "off")
    /\ UNCHANGED <<fault, failures>>

ScanStarts ==
    /\ phase = "setup" /\ radio = "dual"
    /\ phase' = "scanning" /\ fault' = "none" /\ failures' = 0
    /\ model' = (did \/ Reference)
    /\ \E known \in SetToSeqs(present) :        \* known devices are replayed
          unread' = [i \in DOMAIN known |-> [added |-> TRUE, address |-> known[i]]]
    /\ UNCHANGED <<radio, scan_wanted, scan_told, waited, able, watched, streams, refused>> /\ Idle

(* The first answer: NotReady or NotFound, a rejection, or no answer. *)
SetupFails ==
    /\ phase = "setup" /\ radio # "dual"
    /\ fault' = CASE radio = "off" -> "adapter_off" [] radio = "bredr" -> "rejected" [] OTHER -> "other"
    /\ Goes("diagnosing")
    /\ UNCHANGED <<scan_told, failures>>
classify(kind) ==
    IF kind # "rejected" THEN kind
    ELSE IF radio = "bredr" THEN "le_disabled" ELSE "other"
Diagnose ==
    /\ phase = "diagnosing"
    /\ fault' = classify(fault)
    /\ failures' = IF failures < MAX_FAILURES THEN failures + 1 ELSE failures
    /\ Goes("parked")
    /\ UNCHANGED scan_told

retry_delay(n) ==
    LET grown == SCAN_RETRY * 2 ^ (n - 1)
    IN  IF grown \in 0..SCAN_RETRY_MAX THEN grown ELSE SCAN_RETRY_MAX
Limit ==
    CASE fault = "le_disabled" -> LE_RECHECK
      [] fault = "adapter_off" -> ADAPTER_RECHECK
      [] OTHER -> retry_delay(failures)
Over_NoLimit ==
    \/ phase = "parked" /\ scan_told
    \/ phase = "settling" /\ waited >= ADAPTER_SETTLE
    \/ phase = "resting" /\ waited >= SCAN_RETRY
Over ==
    \/ phase = "parked" /\ (scan_told \/ waited >= Limit)
    \/ phase = "settling" /\ waited >= ADAPTER_SETTLE
    \/ phase = "resting" /\ waited >= SCAN_RETRY
WaitEnds ==
    /\ Over
    /\ scan_told' = (scan_told /\ phase # "parked")
    /\ Goes("off")
    /\ UNCHANGED <<fault, failures>>

(* The wish changed, and is read before anything else. *)
ScanTold ==
    /\ phase = "scanning" /\ scan_told /\ scan_told' = FALSE
    /\ IF scan_wanted THEN UNCHANGED <<phase, waited, discoveryVars, radio, scan_wanted, able>> /\ Idle
       ELSE Goes("off")
    /\ UNCHANGED <<fault, failures>>
(* The discovery stream ended, or a property stream could not be opened.   *)
ScanBreaks ==
    /\ phase = "scanning" /\ ~scan_told /\ radio # "dual"
    /\ \/ fault' = "none" /\ Goes(IF scan_wanted THEN "resting" ELSE "off")
       \/ /\ unread # <<>> /\ Head(unread).added
          /\ fault' = IF radio = "off" THEN "adapter_off" ELSE "other"
          /\ Goes("diagnosing")
    /\ UNCHANGED <<scan_told, failures>>

----------------------------------------------------------------------------
(* The radio, the supervisor, the store and time. *)
Wish ==
    /\ scan_wanted' = ~scan_wanted /\ scan_told' = TRUE /\ able' = 0
    /\ UNCHANGED <<radio, phase, fault, failures, waited, did, discoveryVars, missed>>

(* An event of the adapter ends park, unless it came before park listened  *)
(* or bluetoothd was not there to be listened to.  The discovery stream    *)
(* ends before the radio is back.                                          *)
AdapterEvent(to) ==
    /\ phase = "scanning" => to # "dual"
    /\ radio' = to /\ able' = IF radio = to THEN able ELSE 0
    /\ present' = IF to = "away" THEN {} ELSE present
    /\ IF phase = "parked" /\ radio # "away" /\ ~Over
       THEN phase' = "settling" /\ waited' = 0 ELSE UNCHANGED <<phase, waited>>
    /\ streams' = IF to = "away" THEN {} ELSE streams
    /\ UNCHANGED <<scan_wanted, scan_told, fault, failures, did, unread, watched, refused, model, missed>>

(* BlueZ reads the DID when it connects, or has it from the pairing.       *)
DidKnown ==
    /\ ~did /\ did' = TRUE
    /\ UNCHANGED <<loopVars, discoveryVars, missed>>

Rests == phase \in {"parked", "settling", "resting"}
Longest == 3 * (LE_RECHECK + ADAPTER_RECHECK + SCAN_RETRY_MAX + ADAPTER_SETTLE + SCAN_RETRY)
ScannerPass ==
    /\ phase \in {"scanning", "parked", "settling", "resting"} \/ (phase = "off" /\ ~scan_wanted /\ ~scan_told)
    /\ ~Over /\ ~(phase = "scanning" /\ (scan_told \/ radio # "dual"))
    /\ waited' = IF Rests THEN waited + 1 ELSE waited
    /\ able' = IF scan_wanted /\ radio = "dual" /\ Rests /\ able < Longest THEN able + 1 ELSE 0
    /\ UNCHANGED <<radio, scan_wanted, scan_told, phase, fault, failures, did, discoveryVars, missed>>

ScannerNext ==
    \/ \E a \in Addresses : DeviceAppears(a) \/ DeviceDisappears(a) \/ Advert(a)
    \/ ReadsDiscovery
    \/ Loop \/ ScanStarts \/ SetupFails \/ Diagnose \/ WaitEnds \/ ScanTold \/ ScanBreaks
    \/ Wish \/ (\E to \in {"off", "bredr", "away", "dual"} : AdapterEvent(to))
    \/ DidKnown \/ ScannerPass
ScannerSpec == ScannerInit /\ [][ScannerNext]_nvars

----------------------------------------------------------------------------
(* A scan that could run is not waited for longer than the longest wait    *)
(* for its last fault, and the settling of an adapter event: whatever      *)
(* events were missed between a failure and the park, and however often    *)
(* the setup failed before (autoconnect.rs run, park, retry_delay).        *)
Worst == CHOOSE n \in {LE_RECHECK, ADAPTER_RECHECK, SCAN_RETRY_MAX, SCAN_RETRY} :
            \A m \in {LE_RECHECK, ADAPTER_RECHECK, SCAN_RETRY_MAX, SCAN_RETRY} : n >= m
ScanResumes == able <= Worst + ADAPTER_SETTLE

(* An advert of the AirPods while the scan runs is seen, once the address  *)
(* has been read from discovery, unless so many other addresses were       *)
(* followed when it was (WATCHED_CAP, whose slots removed devices give     *)
(* back) or the scan looks for another model.                              *)
AdvertIsSeen == missed # "lost"

(* And it looks for the model of the selected AirPods, "from the DID when  *)
(* known" (docs/BATTERY_AND_HANDOFF.md:146).                               *)
ModelIsTheirs == did => missed # "model"
=============================================================================
