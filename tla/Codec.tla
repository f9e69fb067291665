------------------------------- MODULE Codec -------------------------------
(***************************************************************************)
(* The wire format of the typed settings and of the smart-routing messages *)
(* (aap/codec.rs, settings.rs), as the two conversations that use it: a    *)
(* setting is written, kept by the AirPods and reported back on the next   *)
(* link; a message is relayed by the AirPods to another host, which reads  *)
(* it.                                                                     *)
(*                                                                         *)
(* A control frame is its identifier and four data bytes; of an OPACK body *)
(* every byte is there: <<"", b>> for a tag or a number and <<s, i>> for   *)
(* the i-th byte of the text s.  A text is its name and the offsets at     *)
(* which its characters end.                                               *)
(* A value is a sequence: a cycle's modes, or the one value of the rest.   *)
(***************************************************************************)
EXTENDS Naturals, Sequences, FiniteSets, SequencesExt

CONSTANTS
    Names,              \* the values of app and bt_name: where their characters end
    OPACK_SHORT_STRING

IsName(n) == n \in Seq(Nat \ {0}) /\ \A i \in 2..Len(n) : n[i - 1] < n[i]

ASSUME CodecAssumption ==
    /\ \A n \in Names : IsName(n)
    /\ OPACK_SHORT_STRING \in 31..32    \* 0x40 + length stays a string tag

VARIABLES
    requested,      \* the setting asked for, [key, value]
    device,         \* the control frame the AirPods keep for it
    settings,       \* the value they last reported of it
    message,        \* a message to another host: [kind, app, streaming, bt_name]
    relayed         \* its body as that host gets it

settingVars == <<requested, device, settings>>
routingVars == <<message, relayed>>
wvars == <<settingVars, routingVars>>

None == <<>>

----------------------------------------------------------------------------
(* The typed settings. *)
Bit == [off |-> 1, anc |-> 2, transparency |-> 4, adaptive |-> 8]
Codes ==
    [microphone |-> [auto |-> 0, right |-> 1, left |-> 2],
     press_speed |-> [default |-> 0, slower |-> 1, slowest |-> 2],
     hold_duration |-> [default |-> 0, shorter |-> 1, shortest |-> 2],
     call_controls |-> [mute_once |-> 3, hangup_once |-> 2],
     personalized_volume |-> [on |-> 1, off |-> 2]]
Id == [microphone |-> 1, press_speed |-> 23, hold_duration |-> 24, listening_mode_cycle |-> 26,
       call_controls |-> 36, personalized_volume |-> 38]

validate(key, value) ==
    IF key = "listening_mode_cycle"
    THEN Len(value) \in 2..4 /\ IsInjective(value)
    ELSE Len(value) = 1 /\ value[1] \in DOMAIN Codes[key]
Cycles == UNION {[1..n -> DOMAIN Bit] : n \in 1..4}
Values(key) == IF key = "listening_mode_cycle" THEN Cycles ELSE {<<v>> : v \in DOMAIN Codes[key]}

Mask(modes) ==
    LET bit(mode) == IF mode \in Range(modes) THEN Bit[mode] ELSE 0
    IN  bit("off") + bit("anc") + bit("transparency") + bit("adaptive")
Frame(id, data) == <<id>> \o data \o [i \in 1..(4 - Len(data)) |-> 0]
encode_set_setting_FirstByte(key, value) ==
    Frame(Id[key], IF key = "listening_mode_cycle" THEN <<Mask(value)>> ELSE <<Codes[key][value[1]]>>)
encode_set_setting(key, value) ==
    Frame(Id[key],
          CASE key = "listening_mode_cycle" -> <<Mask(value)>>
            [] key = "call_controls" -> <<0, Codes[key][value[1]]>>
            [] OTHER -> <<Codes[key][value[1]]>>)

listening_modes_from_mask(mask) ==
    LET mode(m) == IF (mask \div Bit[m]) % 2 = 1 THEN <<m>> ELSE <<>>
    IN  mode("off") \o mode("anc") \o mode("transparency") \o mode("adaptive")
(* Whether a frame is a typed setting, and the value it reports. *)
Decodes(key, frame, value) ==
    /\ frame[1] = Id[key]
    /\ CASE key = "listening_mode_cycle" ->
              /\ SubSeq(frame, 3, 5) = <<0, 0, 0>> /\ frame[2] \in 1..15
              /\ value = listening_modes_from_mask(frame[2])
         [] key = "call_controls" ->
              /\ value \in Values(key)
              /\ SubSeq(frame, 2, 5) = <<0, Codes[key][value[1]], 0, 0>>
         [] OTHER ->
              /\ value \in Values(key)
              /\ SubSeq(frame, 2, 5) = <<Codes[key][value[1]], 0, 0, 0>>

----------------------------------------------------------------------------
(* OPACK. *)
(* The texts that are part of the messages, by their length, all of them   *)
(* ASCII.  A name of the user's is none of them: it has its own bytes.     *)
Size ==
    [localscore |-> 10, reason |-> 6, Hijackv2 |-> 8, audioRoutingScore |-> 17,
     audioRoutingSetOwnershipToFalse |-> 31, remotescore |-> 11, PlayingApp |-> 10,
     HostStreamingState |-> 18, btAddress |-> 9, btName |-> 6, otherDeviceAudioCategory |-> 24,
     playingApp |-> 10, hostStreamingState |-> 18, NA |-> 2, YES |-> 3, NO |-> 2,
     idleTime |-> 8, newTipi |-> 7, nearbyAudioScore |-> 16, address |-> 17]
Key(s) == <<s, [i \in 1..Size[s] |-> i]>>
Boundaries(t) == {0} \cup Range(t[2])
Bytes(t) == Max(Boundaries(t))
Byte(b) == <<"", b>>
Text(s, n) == [i \in 1..n |-> <<s, i>>]

opack_str_AnyByte(t) ==
    LET end == Min({Bytes(t), OPACK_SHORT_STRING})
    IN  <<Byte(64 + end)>> \o Text(t[1], end)
opack_str(t) ==
    LET end == Max({n \in Boundaries(t) : n <= OPACK_SHORT_STRING})
    IN  <<Byte(64 + end)>> \o Text(t[1], end)

opack_uint(v) ==
    IF v < 40 THEN <<Byte(8 + v)>>
    ELSE IF v < 128 THEN <<Byte(48), Byte(v)>>
    ELSE <<Byte(49), Byte(v % 256), Byte(v \div 256)>>
opack_body(entries) == <<Byte(1), Byte(224 + entries)>>
OPACK_TRUE == <<Byte(1)>>
SixthObject == 165      \* a back-reference to the score

Address == Key("address")
YesNo(b) == Key(IF b THEN "YES" ELSE "NO")
Own == "audioRoutingSetOwnershipToFalse"

encode_hijack_v2 ==
    opack_body(5)
    \o opack_str(Key("localscore")) \o opack_uint(100)
    \o opack_str(Key("reason")) \o opack_str(Key("Hijackv2"))
    \o opack_str(Key("audioRoutingScore")) \o opack_uint(301)
    \o opack_str(Key(Own)) \o OPACK_TRUE
    \o opack_str(Key("remotescore")) \o <<Byte(SixthObject)>>
encode_media_info(app, streaming, bt_name) ==
    opack_body(5)
    \o opack_str(Key("PlayingApp")) \o opack_str(<<"app", app>>)
    \o opack_str(Key("HostStreamingState")) \o opack_str(YesNo(streaming))
    \o opack_str(Key("btAddress")) \o opack_str(Address)
    \o opack_str(Key("btName")) \o opack_str(<<"name", bt_name>>)
    \o opack_str(Key("otherDeviceAudioCategory")) \o opack_uint(301)
encode_media_info_new_device(bt_name) ==
    opack_body(5)
    \o opack_str(Key("playingApp")) \o opack_str(Key("NA"))
    \o opack_str(Key("hostStreamingState")) \o opack_str(Key("NO"))
    \o opack_str(Key("btAddress")) \o opack_str(Address)
    \o opack_str(Key("btName")) \o opack_str(<<"name", bt_name>>)
    \o opack_str(Key("otherDeviceAudioCategory")) \o opack_uint(100)
encode_new_tipi(bt_name) ==
    opack_body(5)
    \o opack_str(Key("idleTime")) \o opack_uint(0)
    \o opack_str(Key("newTipi")) \o OPACK_TRUE
    \o opack_str(Key("btAddress")) \o opack_str(Address)
    \o opack_str(Key("btName")) \o opack_str(<<"name", bt_name>>)
    \o opack_str(Key("nearbyAudioScore")) \o opack_uint(6)
Body(m) ==
    CASE m.kind = "hijack" -> encode_hijack_v2
      [] m.kind = "media" -> encode_media_info(m.app, m.streaming, m.bt_name)
      [] m.kind = "new_device" -> encode_media_info_new_device(m.bt_name)
      [] m.kind = "new_tipi" -> encode_new_tipi(m.bt_name)

smart_routing_requests_yield(body) ==
    \E i \in 0..(Len(body) - Size[Own]) : SubSeq(body, i + 1, i + Size[Own]) = Text(Own, Size[Own])

----------------------------------------------------------------------------
WireInit ==
    /\ requested = None /\ device = None /\ settings = None
    /\ message = None /\ relayed = None

(* set_setting: validated and encoded, and the AirPods keep it. *)
Write(key, value) ==
    /\ requested = None /\ validate(key, value)
    /\ requested' = [key |-> key, value |-> value]
    /\ device' = encode_set_setting(key, value)
    /\ settings' = None
    /\ UNCHANGED routingVars

(* The dump of a fresh link: decoded and folded into the settings. *)
Report ==
    /\ requested # None
    /\ settings' \in Values(requested.key)
    /\ Decodes(requested.key, device, settings')
    /\ UNCHANGED <<requested, device, routingVars>>

Judged ==
    /\ settings # None
    /\ requested' = None /\ device' = None /\ settings' = None
    /\ UNCHANGED routingVars

Messages ==
    [kind : {"hijack"}] \cup [kind : {"new_device", "new_tipi"}, bt_name : Names]
    \cup [kind : {"media"}, app : Names, streaming : BOOLEAN, bt_name : Names]
Relay(m) ==
    /\ message = None /\ message' = m
    /\ relayed' = Body(m)
    /\ UNCHANGED settingVars

Delivered ==
    /\ message # None
    /\ message' = None /\ relayed' = None
    /\ UNCHANGED settingVars

WireNext ==
    \/ \E key \in DOMAIN Id : \E value \in Values(key) : Write(key, value)
    \/ Report \/ Judged
    \/ \E m \in Messages : Relay(m)
    \/ Delivered
WireSpec == WireInit /\ [][WireNext]_wvars

----------------------------------------------------------------------------
(* What was asked for and kept can be confirmed: the frame the write sent, *)
(* reported back, decodes to the value asked for, a listening-mode cycle   *)
(* up to its order, which the mask does not carry (encode_set_setting,     *)
(* decode_control).                                                        *)
Matches(key, asked, reported) ==
    IF key = "listening_mode_cycle" THEN Range(asked) = Range(reported) ELSE asked = reported
KeptReadsBack ==
    requested # None =>
        \E value \in Values(requested.key) :
            /\ Decodes(requested.key, device, value)
            /\ Matches(requested.key, requested.value, value)

(* daemon/README.md:94: `mismatch` says "a fresh dump reported something   *)
(* else".  The readback compares the lists as they stand (store.rs         *)
(* finish_verification), and validate takes them in any order.             *)
KeptIsConfirmed == requested # None /\ Decodes(requested.key, device, settings)
                       => settings = requested.value

(* A reader of OPACK: the objects of a body, which it must use up.  A      *)
(* back-reference stands for the object of that number.                    *)
Code(b, i) == b[i][2]
IsReference(tag) == tag \in 160..192
Referred(tag) == tag - 159
Object(b, at, objects) ==
    LET tag == Code(b, at) IN
    IF b[at][1] # "" THEN [next |-> Len(b) + 2, is |-> None]
    ELSE IF tag = 1 THEN [next |-> at + 1, is |-> <<"", 1>>]
    ELSE IF tag \in 8..47 THEN [next |-> at + 1, is |-> <<"", tag - 8>>]
    ELSE IF tag = 48 THEN [next |-> at + 2, is |-> <<"", Code(b, at + 1)>>]
    ELSE IF tag = 49 THEN [next |-> at + 3, is |-> <<"", Code(b, at + 1) + 256 * Code(b, at + 2)>>]
    ELSE IF tag \in 64..96
         THEN [next |-> at + 1 + (tag - 64), is |-> SubSeq(b, at + 1, at + (tag - 64))]
    ELSE IF IsReference(tag) THEN [next |-> at + 1, is |-> objects[Referred(tag)]]
    ELSE [next |-> Len(b) + 2, is |-> None]
NextObject(b, got) ==
    IF got.next > Len(b) THEN [next |-> Len(b) + 2, objects |-> got.objects]
    ELSE [next |-> Object(b, got.next, got.objects).next,
          objects |-> Append(got.objects, Object(b, got.next, got.objects).is)]
NextEntry(b, got) == NextObject(b, NextObject(b, got))
(* The five entries that each message has. *)
Objects(b) ==
    NextEntry(b, NextEntry(b, NextEntry(b, NextEntry(b, NextEntry(b,
        [next |-> 3, objects |-> <<>>])))))

(* The text that must arrive: all of it, or as many whole characters as    *)
(* fit.                                                                    *)
Carried(s, name, got) ==
    \E n \in 0..Len(name) :
        LET size == IF n = 0 THEN 0 ELSE name[n] IN
        /\ got = Text(s, size) /\ size <= OPACK_SHORT_STRING
        /\ n < Len(name) => name[n + 1] > OPACK_SHORT_STRING
Field(objects, key) ==
    {objects[2 * i] : i \in {j \in 1..5 : objects[2 * j - 1] = Text(key, Size[key])}}

(* Every message arrives as the five fields it was built from, whatever    *)
(* the names are: no text spills over its tag or ends inside a character,  *)
(* and the hijack's back-reference finds the score.  Only the hijack makes *)
(* the other host give up the audio (smart_routing_requests_yield).        *)
Arrives(m, body) ==
    LET got == Objects(body) IN
    /\ SubSeq(body, 1, 2) = opack_body(5)
    /\ got.next = Len(body) + 1 /\ Len(got.objects) = 10
    /\ smart_routing_requests_yield(body) <=> m.kind = "hijack"
    /\ m.kind = "hijack" =>
          /\ Field(got.objects, Own) = {<<"", 1>>}
          /\ Field(got.objects, "remotescore") = {<<"", 301>>}
    /\ m.kind # "hijack" =>
          \E name \in Field(got.objects, "btName") : Carried("name", m.bt_name, name)
    /\ m.kind = "media" =>
          \E app \in Field(got.objects, "PlayingApp") : Carried("app", m.app, app)
MessagesArrive == message # None => Arrives(message, relayed)

(* Both conversations keep what was meant. *)
WireKeepsMeaning == KeptReadsBack /\ MessagesArrive
=============================================================================
