------------------------------- MODULE MCStore -------------------------------
(***************************************************************************)
(* Telemetry and the control server share nothing but that a change of the *)
(* snapshot wakes the readers, which CtlServer lets happen at any time; a  *)
(* client reads its snapshots as any of CtlServer's, and the wire format   *)
(* has no state of the daemon's.  So each is explored with the others at   *)
(* rest, and not every combination; of the wire's two conversations too.   *)
(***************************************************************************)
EXTENDS Telemetry, CtlServer, SettingClient, Codec, TLC

Alike == Permutations(Devices) \cup Permutations(Clients)

(* Texts that end at and past the bound of opack_str, and that have a      *)
(* character across it, of three or of four bytes.                         *)
Texts ==
    {<<>>, <<1>>, [i \in 1..32 |-> i], [i \in 1..33 |-> i],
     [i \in 1..11 |-> 3 * i], [i \in 1..9 |-> 4 * i - 3]}

ASSUME SizesAreTheirs == \A text \in DOMAIN Size : text # "address" => Size[text] = Len(text)

StoreInit == TelemetryInit /\ CtlInit /\ ClientInit /\ WireInit
OneConversation == (message = None /\ message' = None) \/ (requested = None /\ requested' = None)
StoreNext ==
    \/ CtlInit /\ ClientInit /\ WireInit /\ TelemetryNext /\ UNCHANGED <<cvars, kvars, wvars>>
    \/ TelemetryInit /\ ClientInit /\ WireInit /\ CtlNext /\ UNCHANGED <<tvars, kvars, wvars>>
    \/ TelemetryInit /\ CtlInit /\ WireInit /\ ClientNext /\ UNCHANGED <<tvars, cvars, wvars>>
    \/ TelemetryInit /\ CtlInit /\ ClientInit /\ WireNext /\ OneConversation /\ UNCHANGED <<tvars, cvars, kvars>>
StoreSpec == StoreInit /\ [][StoreNext]_<<tvars, cvars, kvars, wvars>>
=============================================================================
