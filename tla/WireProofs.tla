----------------------------- MODULE WireProofs -----------------------------
(***************************************************************************)
(* What the daemon writes to the AirPods means what was meant, for any     *)
(* names and either length of a short text: WireSpec => []WireKeepsMeaning.*)
(* The invariant (WireInv) says no more than that what is kept or relayed  *)
(* is what encode_set_setting and Body make of what was asked for; the     *)
(* work is in what a reader finds there.                                   *)
(*                                                                         *)
(* A message.  opack_str cuts a text at the greatest of its boundaries     *)
(* that fits, which exists (Greatest), so that a text, and likewise a      *)
(* number in each of its three forms, is read back as what was meant       *)
(* wherever it stands in a body, and the reader goes on right behind it    *)
(* (TextsArrive, NumbersArrive).  Reads follows the reader through the ten *)
(* objects of a body on that ground (TenObjects, FiveEntries), and a field *)
(* is found by its key because no two keys are equal and no name is a key. *)
(* The bytes that make the other host give up the audio are 31 bytes of    *)
(* one text, and no other message has a byte of that text (PlainTyped).    *)
(*                                                                         *)
(* A setting.  A code is one of its key's; a cycle of modes is a mask, and *)
(* the mask a sum of four different bits, which listening_modes_from_mask  *)
(* takes apart again.                                                      *)
(***************************************************************************)
EXTENDS Codec, SequenceTheorems, FiniteSetTheorems, WellFoundedInduction, TLAPS

(* The wire format.  opack_str cuts a text at its last boundary that fits: *)
(* the greatest of a set of boundaries that is never empty.                *)

(* A set of numbers that holds 0 and stays below a bound has a greatest.   *)
LEMMA Greatest ==
    ASSUME NEW M, M \subseteq Nat, 0 \in M, NEW bound \in Nat, \A n \in M : n <= bound
    PROVE  Max(M) \in M /\ \A n \in M : n <= Max(M)
(* The least number above all of M: among the intervals 0..k that hold M   *)
(* there is a smallest one.                                                *)
<1> DEFINE S == 0..bound
           R == StrictSubsetOrdering(S)
           Around == {I \in SUBSET S : M \subseteq I /\ \E k \in S : I = 0..k}
<1>1. S \in Around /\ Around \subseteq SUBSET S
  OBVIOUS
<1>2. PICK I \in Around : \A J \in Around : <<J, I>> \notin R
  <2>1. IsFiniteSet(S)
    BY FS_Interval
  <2> HIDE DEF R, Around, S
  <2>2. IsWellFoundedOn(StrictSubsetOrdering(S), SUBSET S)
    BY <2>1, FS_StrictSubsetOrderingWellFounded, FS_FiniteSubsetsOfFinite
  <2>3. IsWellFoundedOn(R, SUBSET S)
    BY <2>2 DEF R
  <2>4. Around # {}
    BY <1>1
  <2>5. QED
    BY <1>1, <2>3, <2>4, WFMin, Zenon
<1>3. PICK k \in S : I = 0..k
  OBVIOUS
<1>5. k \in Nat /\ \A n \in M : n <= k
  BY <1>3
<1>6. k \in M
  <2> SUFFICES ASSUME k \notin M
               PROVE  FALSE
    OBVIOUS
  <2>1. k > 0 /\ k - 1 \in S /\ 0..k - 1 \subseteq S /\ M \subseteq 0..k - 1
    BY <1>3, <1>5
  <2> DEFINE J == 0..k - 1
  <2>2. J \in Around
    BY <2>1
  <2>3. J \subseteq I /\ J # I /\ J \in SUBSET S /\ I \in SUBSET S
    BY <1>1, <1>3, <1>5, <2>1
  <2> HIDE DEF J, S, Around
  <2>4. <<J, I>> \in R
    BY <2>3 DEF StrictSubsetOrdering
  <2>5. QED
    BY <1>2, <2>2, <2>4
<1>7. k \in M /\ \A n \in M : k >= n
  BY <1>5, <1>6
<1>8. Max(M) \in M /\ \A n \in M : Max(M) >= n
  BY <1>7 DEF Max
<1>9. QED
  BY <1>5, <1>8

(* The body holds the bytes of w from the place `pos` on.                   *)
Holds(b, pos, w) ==
    pos + Len(w) - 1 <= Len(b) /\ \A i \in 1..Len(w) : b[pos + i - 1] = w[i]

(* Whatever the name, it is cut between two characters and fits its tag.   *)
LEMMA Cut ==
    ASSUME NEW s, NEW name, IsName(name)
    PROVE  \E size \in 0..OPACK_SHORT_STRING :
              /\ opack_str(<<s, name>>) = <<Byte(64 + size)>> \o Text(s, size)
              /\ Carried(s, name, Text(s, size))
<1> DEFINE M == {n \in {0} \cup Range(name) : n <= OPACK_SHORT_STRING}
           size == Max(M)
<1>0. OPACK_SHORT_STRING \in 31..32
  BY CodecAssumption
<1>1. /\ name \in Seq(Nat \ {0}) /\ Len(name) \in Nat /\ DOMAIN name = 1..Len(name)
      /\ \A i \in 1..Len(name) : name[i] \in Nat \ {0}
      /\ \A i \in 2..Len(name) : name[i - 1] < name[i]
  BY DEF IsName
<1>2. Range(name) = {name[i] : i \in 1..Len(name)}
  BY <1>1 DEF Range
<1>3. M \subseteq Nat /\ 0 \in M /\ \A n \in M : n <= OPACK_SHORT_STRING
  BY <1>0, <1>1, <1>2
<1>4. size \in M /\ \A n \in M : n <= size
  <2> HIDE DEF M
  <2>1. OPACK_SHORT_STRING \in Nat
    BY <1>0
  <2>2. QED
    BY <1>3, <2>1, Greatest
<1>5. size \in 0..OPACK_SHORT_STRING
  BY <1>0, <1>3, <1>4
<1>6. opack_str(<<s, name>>) = <<Byte(64 + size)>> \o Text(s, size)
  BY DEF opack_str, Boundaries
<1> HIDE DEF size
<1>7. Carried(s, name, Text(s, size))
  <2>1. \A i \in 1..Len(name) : name[i] > size => name[i] > OPACK_SHORT_STRING
    BY <1>0, <1>1, <1>2, <1>4, <1>5
  <2>2. CASE size = 0
    <3>1. 0 < Len(name) => name[1] > OPACK_SHORT_STRING
      BY <1>1, <2>1, <2>2
    <3>2. 0 \in 0..Len(name) /\ size <= OPACK_SHORT_STRING
      BY <1>0, <1>1, <2>2
    <3>3. QED
      BY <2>2, <3>1, <3>2 DEF Carried
  <2>3. CASE size # 0
    <3>1. PICK i \in 1..Len(name) : size = name[i]
      BY <1>2, <1>4, <2>3
    <3>2. i < Len(name) => name[i + 1] > OPACK_SHORT_STRING
      <4> SUFFICES ASSUME i < Len(name)
                   PROVE  name[i + 1] > OPACK_SHORT_STRING
        OBVIOUS
      <4>1. i + 1 \in 2..Len(name) /\ (i + 1) - 1 = i
        BY <1>1
      <4>2. name[i] < name[i + 1]
        BY <1>1, <4>1
      <4>3. QED
        BY <1>1, <2>1, <3>1, <4>1, <4>2
    <3>3. i \in 0..Len(name) /\ i # 0 /\ size <= OPACK_SHORT_STRING
      BY <1>0, <1>1, <1>5
    <3>4. QED
      BY <3>1, <3>2, <3>3 DEF Carried
  <2>4. QED
    BY <2>2, <2>3
<1>8. QED
  BY <1>5, <1>6, <1>7

(* What the reader makes of a byte.                                        *)
LEMMA Fields == \A b, pos, n : b[pos] = Byte(n) => b[pos][1] = "" /\ Code(b, pos) = n
<1>1. \A n : Byte(n)[1] = "" /\ Byte(n)[2] = n
  BY DEF Byte
<1>2. QED
  BY <1>1, Zenon DEF Code

(* A text in a body, behind its tag.                                       *)
LEMMA TextAt ==
    ASSUME NEW B, NEW b \in Seq(B), NEW pos \in Nat \ {0}, NEW s, NEW size \in Nat,
           Holds(b, pos, <<Byte(64 + size)>> \o Text(s, size))
    PROVE  /\ b[pos] = Byte(64 + size) /\ pos + size <= Len(b)
           /\ SubSeq(b, pos + 1, pos + size) = Text(s, size)
<1> DEFINE w == <<Byte(64 + size)>> \o Text(s, size)
<1>2. /\ Len(w) = size + 1 /\ w[1] = Byte(64 + size)
      /\ \A i \in 1..size : w[i + 1] = <<s, i>>
  <2>2. Text(s, size) \in Seq({<<s, i>> : i \in 1..size}) /\ Len(Text(s, size)) = size
        /\ \A i \in 1..size : Text(s, size)[i] = <<s, i>>
    BY DEF Text
  <2>3. \A x : Len(<<x>>) = 1 /\ <<x>>[1] = x
    OBVIOUS
  <2> HIDE DEF w
  <2>4. QED
    BY <2>2, <2>3 DEF w
<1> HIDE DEF w
<1>3. /\ pos + size <= Len(b) /\ b[pos] = Byte(64 + size)
      /\ \A i \in 1..size : b[pos + i] = <<s, i>>
  <2>1. pos + Len(w) - 1 <= Len(b) /\ \A i \in 1..Len(w) : b[pos + i - 1] = w[i]
    BY DEF Holds, w
  <2>2. 1 \in 1..Len(w) /\ pos + 1 - 1 = pos
    BY <1>2
  <2>3. \A i \in 1..size : i + 1 \in 1..Len(w) /\ pos + (i + 1) - 1 = pos + i
    BY <1>2, <2>2
  <2>4. pos + size <= Len(b)
    BY <1>2, <2>1, <2>2
  <2>5. QED
    BY <1>2, <2>1, <2>2, <2>3, <2>4
<1>4. SubSeq(b, pos + 1, pos + size) = Text(s, size)
  <2>1. PICK first, last \in Int : first = pos + 1 /\ last = pos + size
    OBVIOUS
  <2>2. /\ size \in Nat /\ last - first + 1 = size /\ (first <= last <=> size > 0)
        /\ \A i \in 1..size : first + i - 1 = pos + i
        /\ \A i \in first..last : i \in 1..Len(b)
    BY <1>3, <2>1
  <2>3. \A i \in first..last : b[i] \in B
    BY <2>2
  <2> DEFINE got == SubSeq(b, first, last)
  <2>4. /\ got \in Seq(B) /\ Len(got) = IF first <= last THEN last - first + 1 ELSE 0
        /\ \A i \in 1..last - first + 1 : got[i] = b[first + i - 1]
    BY <2>3, SubSeqProperties
  <2> HIDE DEF got
  <2>5. Len(got) = size /\ \A i \in 1..size : got[i] = <<s, i>>
    <3>1. Len(got) = size
      BY <2>2, <2>4
    <3>2. \A i \in 1..size : got[i] = b[first + i - 1]
      BY <2>2, <2>4
    <3>3. \A i \in 1..size : got[i] = b[pos + i]
      BY <2>2, <3>2
    <3>4. QED
      BY <1>3, <3>1, <3>3
  <2>6. got = Text(s, size)
    <3>1. got = [i \in 1..size |-> got[i]]
      BY <2>4, <2>5
    <3>2. [i \in 1..size |-> got[i]] = [i \in 1..size |-> <<s, i>>]
      BY <2>5, Zenon
    <3>3. QED
      BY <3>1, <3>2, Zenon DEF Text
  <2>7. QED
    BY <2>1, <2>6 DEF got
<1>5. QED
  BY <1>3, <1>4

(* A text written anywhere in a body is read back as the same text, or as  *)
(* as many of its characters as fit the one-byte tag, and the reading goes *)
(* on with what was written after it: for every name, a text never spills  *)
(* over its tag and never ends inside a character (codec.rs opack_str).    *)
THEOREM TextsArrive ==
    ASSUME NEW s, NEW name, IsName(name)
    PROVE  \E got : /\ Carried(s, name, got)
                    /\ \A B, objects : \A b \in Seq(B), pos \in Nat \ {0} :
                          Holds(b, pos, opack_str(<<s, name>>)) =>
                          Object(b, pos, objects) =
                              [next |-> pos + Len(opack_str(<<s, name>>)), is |-> got]
<1>0. OPACK_SHORT_STRING \in 31..32
  BY CodecAssumption
<1>1. PICK size \in 0..OPACK_SHORT_STRING :
         /\ opack_str(<<s, name>>) = <<Byte(64 + size)>> \o Text(s, size)
         /\ Carried(s, name, Text(s, size))
  BY Cut
<1>2. SUFFICES ASSUME NEW B, NEW objects, NEW b \in Seq(B), NEW pos \in Nat \ {0},
                      Holds(b, pos, opack_str(<<s, name>>))
               PROVE  Object(b, pos, objects) =
                          [next |-> pos + Len(opack_str(<<s, name>>)), is |-> Text(s, size)]
  BY <1>1, Zenon
<1>3. size \in Nat
  BY <1>0
<1>4. b[pos] = Byte(64 + size) /\ SubSeq(b, pos + 1, pos + size) = Text(s, size)
  <2>1. Holds(b, pos, <<Byte(64 + size)>> \o Text(s, size))
    BY <1>1, <1>2, Zenon
  <2>2. QED
    BY <1>3, <2>1, TextAt, Zenon
<1>5. Code(b, pos) = 64 + size /\ b[pos][1] = ""
  BY <1>4, Fields, Zenon
<1>6. Object(b, pos, objects) = [next |-> pos + 1 + size, is |-> Text(s, size)]
  <2>1. PICK tag : tag = 64 + size
    OBVIOUS
  <2>2. tag \in 64..96 /\ tag \notin 8..47 /\ tag # 1 /\ tag # 48 /\ tag # 49 /\ tag - 64 = size
    BY <1>0, <2>1
  <2>3. Code(b, pos) = tag
    BY <1>5, <2>1
  <2>4. Object(b, pos, objects) = [next |-> pos + 1 + (tag - 64),
                                  is |-> SubSeq(b, pos + 1, pos + (tag - 64))]
    BY <1>5, <2>2, <2>3, Zenon DEF Object
  <2>5. QED
    BY <1>4, <2>2, <2>4, Zenon
<1>7. pos + Len(opack_str(<<s, name>>)) = pos + 1 + size
  <2>1. Text(s, size) \in Seq({<<s, i>> : i \in 1..size}) /\ Len(Text(s, size)) = size
    BY <1>3 DEF Text
  <2>2. \A c : Len(<<c>> \o Text(s, size)) = 1 + size
    BY <1>3, <2>1
  <2>3. Len(opack_str(<<s, name>>)) = 1 + size
    BY <1>1, <2>2, Zenon
  <2>4. QED
    BY <1>3, <2>3
<1>8. QED
  BY <1>6, <1>7, Zenon

(* The bytes of a short object, one by one.                                *)
LEMMA HoldsOne ==
    ASSUME NEW b, NEW pos \in Nat, NEW x, Holds(b, pos, <<x>>)
    PROVE  b[pos] = x /\ Len(<<x>>) = 1
<1>1. Len(<<x>>) = 1 /\ <<x>>[1] = x /\ 1 \in 1..1 /\ pos + 1 - 1 = pos
  OBVIOUS
<1>2. QED
  BY <1>1, Zenon DEF Holds

(* What is written at a place, byte by byte.                               *)
LEMMA HoldsTwo ==
    ASSUME NEW b, NEW pos \in Nat, NEW x, NEW y, Holds(b, pos, <<x, y>>)
    PROVE  b[pos] = x /\ b[pos + 1] = y /\ Len(<<x, y>>) = 2
<1>1. /\ Len(<<x, y>>) = 2 /\ <<x, y>>[1] = x /\ <<x, y>>[2] = y
      /\ 1 \in 1..2 /\ 2 \in 1..2 /\ pos + 1 - 1 = pos /\ pos + 2 - 1 = pos + 1
  OBVIOUS
<1>2. QED
  BY <1>1, Zenon DEF Holds

LEMMA HoldsThree ==
    ASSUME NEW b, NEW pos \in Nat, NEW x, NEW y, NEW z, Holds(b, pos, <<x, y, z>>)
    PROVE  b[pos] = x /\ b[pos + 1] = y /\ b[pos + 2] = z /\ Len(<<x, y, z>>) = 3
<1>1. /\ Len(<<x, y, z>>) = 3 /\ <<x, y, z>>[1] = x /\ <<x, y, z>>[2] = y /\ <<x, y, z>>[3] = z
      /\ 1 \in 1..3 /\ 2 \in 1..3 /\ 3 \in 1..3
      /\ pos + 1 - 1 = pos /\ pos + 2 - 1 = pos + 1 /\ pos + 3 - 1 = pos + 2
  OBVIOUS
<1>2. QED
  BY <1>1, Zenon DEF Holds

(* A number written anywhere in a body is read back as that number, and    *)
(* the reading goes on after it, whichever of its three forms it takes     *)
(* (codec.rs opack_uint).                                                  *)
THEOREM NumbersArrive ==
    ASSUME NEW b, NEW pos \in Nat, NEW objects,
           NEW v \in Nat, Holds(b, pos, opack_uint(v))
    PROVE  Object(b, pos, objects) = [next |-> pos + Len(opack_uint(v)), is |-> <<"", v>>]
<1>1. CASE v < 40
  <2>1. PICK tag : tag = 8 + v
    OBVIOUS
  <2>2. tag \in 8..47 /\ tag # 1 /\ tag - 8 = v
    BY <1>1, <2>1
  <2>3. opack_uint(v) = <<Byte(tag)>>
    BY <1>1, <2>1, Zenon DEF opack_uint
  <2>4. b[pos] = Byte(tag) /\ Len(opack_uint(v)) = 1
    BY <2>3, HoldsOne
  <2>5. Code(b, pos) = tag /\ b[pos][1] = ""
    BY <2>4, Fields, Zenon
  <2>6. Object(b, pos, objects) = [next |-> pos + 1, is |-> <<"", tag - 8>>]
    BY <2>2, <2>5, Zenon DEF Object
  <2>7. QED
    BY <2>2, <2>4, <2>6, Zenon
<1>2. CASE ~(v < 40) /\ v < 128
  <2>1. PICK tag : tag = 48
    OBVIOUS
  <2>2. tag \notin 8..47 /\ tag # 1
    BY <2>1
  <2>3. opack_uint(v) = <<Byte(tag), Byte(v)>>
    BY <1>2, <2>1, Zenon DEF opack_uint
  <2>4. b[pos] = Byte(tag) /\ b[pos + 1] = Byte(v) /\ Len(opack_uint(v)) = 2
    BY <2>3, HoldsTwo
  <2>5. Code(b, pos) = tag /\ b[pos][1] = "" /\ Code(b, pos + 1) = v
    <3>1. PICK second : second = pos + 1
      OBVIOUS
    <3>2. b[pos] = Byte(tag) /\ b[second] = Byte(v)
      BY <2>4, <3>1
    <3>3. Code(b, pos) = tag /\ b[pos][1] = "" /\ Code(b, second) = v
      BY <3>2, Fields, Zenon
    <3>4. QED
      BY <3>1, <3>3
  <2>6. Object(b, pos, objects) = [next |-> pos + 2, is |-> <<"", Code(b, pos + 1)>>]
    BY <2>1, <2>2, <2>5, Zenon DEF Object
  <2>7. QED
    BY <2>4, <2>5, <2>6, Zenon
<1>3. CASE ~(v < 40) /\ ~(v < 128)
  <2>1. PICK tag, low, high : tag = 49 /\ low = v % 256 /\ high = v \div 256
    OBVIOUS
  <2>2. tag \notin 8..47 /\ tag # 1 /\ tag # 48 /\ low + 256 * high = v
    BY <2>1
  <2>3. opack_uint(v) = <<Byte(tag), Byte(low), Byte(high)>>
    BY <1>3, <2>1, Zenon DEF opack_uint
  <2>4. /\ b[pos] = Byte(tag) /\ b[pos + 1] = Byte(low) /\ b[pos + 2] = Byte(high)
        /\ Len(opack_uint(v)) = 3
    BY <2>3, HoldsThree
  <2>5. Code(b, pos) = tag /\ b[pos][1] = "" /\ Code(b, pos + 1) = low /\ Code(b, pos + 2) = high
    <3>1. PICK second, third : second = pos + 1 /\ third = pos + 2
      OBVIOUS
    <3>2. b[pos] = Byte(tag) /\ b[second] = Byte(low) /\ b[third] = Byte(high)
      BY <2>4, <3>1
    <3>3. /\ Code(b, pos) = tag /\ b[pos][1] = ""
          /\ Code(b, second) = low /\ Code(b, third) = high
      BY <3>2, Fields, Zenon
    <3>4. QED
      BY <3>1, <3>3
  <2>6. Object(b, pos, objects) =
            [next |-> pos + 3, is |-> <<"", Code(b, pos + 1) + 256 * Code(b, pos + 2)>>]
    BY <2>1, <2>2, <2>5, Zenon DEF Object
  <2>7. QED
    BY <2>2, <2>4, <2>5, <2>6, Zenon
<1>4. QED
  BY <1>1, <1>2, <1>3
(* The bytes of the texts in S, and the tags and numbers if "" is in S.    *)
Cells(S) == S \X Nat
Texts == DOMAIN Size \cup {"", "app", "name"}

(* One writing after the other: each is at its place.                      *)
LEMMA ConcatHolds ==
    ASSUME NEW B, NEW u \in Seq(B), NEW v \in Seq(B), NEW b, NEW pos \in Nat, Len(b) \in Nat,
           Holds(b, pos, u \o v)
    PROVE  Holds(b, pos, u) /\ Holds(b, pos + Len(u), v)
<1> DEFINE w == u \o v
<1>1. /\ Len(u) \in Nat /\ Len(v) \in Nat /\ Len(w) = Len(u) + Len(v)
      /\ \A i \in 1..Len(u) : w[i] = u[i]
      /\ \A i \in 1..Len(v) : w[Len(u) + i] = v[i]
  OBVIOUS
<1>2. pos + Len(w) - 1 <= Len(b) /\ \A i \in 1..Len(w) : b[pos + i - 1] = w[i]
  BY DEF Holds
<1> HIDE DEF w
<1>3. Holds(b, pos, u)
  BY <1>1, <1>2 DEF Holds
<1>4. \A i \in 1..Len(v) : b[pos + Len(u) + i - 1] = v[i]
  <2> SUFFICES ASSUME NEW i \in 1..Len(v)
               PROVE  b[pos + Len(u) + i - 1] = v[i]
    OBVIOUS
  <2>1. Len(u) + i \in 1..Len(w) /\ pos + (Len(u) + i) - 1 = pos + Len(u) + i - 1
    BY <1>1
  <2>2. QED
    BY <1>1, <1>2, <2>1
<1>5. pos + Len(u) + Len(v) - 1 <= Len(b)
  BY <1>1, <1>2
<1>6. QED
  BY <1>3, <1>4, <1>5 DEF Holds

(* What w is as the object behind those read before.                       *)
Reads(w, objects, got) ==
    /\ w \in Seq(Cells(Texts)) /\ Len(w) > 0
    /\ \A b \in Seq(Cells(Texts)), pos \in Nat \ {0} :
          Holds(b, pos, w) => Object(b, pos, objects) = [next |-> pos + Len(w), is |-> got]

(* The bytes of a text are tags and the text's own; of a number, tags.     *)
LEMMA TextTyped ==
    ASSUME NEW C, NEW s, NEW name, IsName(name),
           \A n \in Nat : Byte(n) \in C /\ <<s, n>> \in C
    PROVE  opack_str(<<s, name>>) \in Seq(C) /\ Len(opack_str(<<s, name>>)) > 0
<1>0. OPACK_SHORT_STRING \in 31..32
  BY CodecAssumption
<1>1. PICK size \in 0..OPACK_SHORT_STRING :
         opack_str(<<s, name>>) = <<Byte(64 + size)>> \o Text(s, size)
  BY Cut
<1>2. size \in Nat
  BY <1>0
<1>3. Text(s, size) \in Seq(C)
  BY <1>2 DEF Text
<1>4. Byte(64 + size) \in C
  <2>1. 64 + size \in Nat
    BY <1>2
  <2>2. QED
    BY <2>1, Zenon
<1>5. \A c \in C, t \in Seq(C) : <<c>> \o t \in Seq(C) /\ Len(<<c>> \o t) > 0
  OBVIOUS
<1>6. QED
  BY <1>1, <1>3, <1>4, <1>5, Zenon

LEMMA NumberTyped ==
    ASSUME NEW C, NEW v \in Nat, \A n \in Nat : Byte(n) \in C
    PROVE  opack_uint(v) \in Seq(C) /\ Len(opack_uint(v)) > 0
<1>1. PICK first, second, third, low, high :
         first = 8 + v /\ second = 48 /\ third = 49 /\ low = v % 256 /\ high = v \div 256
  OBVIOUS
<1>2. {first, second, third, low, high} \subseteq Nat
  BY <1>1
<1>3. {Byte(first), Byte(second), Byte(third), Byte(low), Byte(high), Byte(v)} \subseteq C
  BY <1>2, Zenon
<1>4. \A c, d, e \in C : /\ <<c>> \in Seq(C) /\ <<c, d>> \in Seq(C) /\ <<c, d, e>> \in Seq(C)
                         /\ Len(<<c>>) > 0 /\ Len(<<c, d>>) > 0 /\ Len(<<c, d, e>>) > 0
  OBVIOUS
<1>5. opack_uint(v) \in {<<Byte(first)>>, <<Byte(second), Byte(v)>>,
                         <<Byte(third), Byte(low), Byte(high)>>}
  BY <1>1, Zenon DEF opack_uint
<1>6. QED
  BY <1>3, <1>4, <1>5, Zenon

LEMMA CellsTyped ==
    /\ \A n \in Nat : Byte(n) \in Cells(Texts)
    /\ \A s \in Texts, n \in Nat : <<s, n>> \in Cells(Texts)
<1>1. "" \in Texts
  BY DEF Texts
<1>2. QED
  BY <1>1, Zenon DEF Cells, Byte

(* TextsArrive, NumbersArrive and the two single bytes as readings         *)
(* (Reads).                                                                *)
LEMMA TextReads ==
    ASSUME NEW s \in Texts, NEW name, IsName(name)
    PROVE  \E got : /\ Carried(s, name, got)
                    /\ \A objects : Reads(opack_str(<<s, name>>), objects, got)
<1>1. PICK got :
         /\ Carried(s, name, got)
         /\ \A B, objects : \A b \in Seq(B), pos \in Nat \ {0} :
               Holds(b, pos, opack_str(<<s, name>>)) =>
               Object(b, pos, objects) = [next |-> pos + Len(opack_str(<<s, name>>)), is |-> got]
  BY TextsArrive, Zenon
<1>2. opack_str(<<s, name>>) \in Seq(Cells(Texts)) /\ Len(opack_str(<<s, name>>)) > 0
  BY CellsTyped, TextTyped, Zenon
<1>3. QED
  BY <1>1, <1>2, Zenon DEF Reads

(* A text of the message is short enough to be carried whole.              *)
LEMMA Sizes == \A key \in DOMAIN Size : Size[key] \in 1..31
  BY DEF Size

(* A text of the messages is ASCII: each of its bytes ends a character, so *)
(* it is never cut.                                                        *)
LEMMA KeyNames ==
    ASSUME NEW n \in Nat
    PROVE  IsName([i \in 1..n |-> i]) /\ Len([i \in 1..n |-> i]) = n
<1> DEFINE name == [i \in 1..n |-> i]
<1>1. name \in Seq(Nat \ {0}) /\ Len(name) = n
  OBVIOUS
<1>2. \A i \in 1..n : name[i] = i
  OBVIOUS
<1> HIDE DEF name
<1>3. \A i \in 2..Len(name) : name[i - 1] < name[i]
  BY <1>1, <1>2
<1>4. QED
  BY <1>1, <1>3 DEF IsName, name

LEMMA KeyReads ==
    ASSUME NEW key \in DOMAIN Size
    PROVE  \A objects : Reads(opack_str(Key(key)), objects, Text(key, Size[key]))
<1>0. OPACK_SHORT_STRING \in 31..32
  BY CodecAssumption
<1>1. PICK size : size = Size[key]
  OBVIOUS
<1>2. size \in 1..31
  BY <1>1, Sizes
<1> DEFINE name == [i \in 1..size |-> i]
<1>3. IsName(name) /\ Len(name) = size
  BY <1>2, KeyNames
<1>4. Key(key) = <<key, name>>
  BY <1>1 DEF Key
<1>5. \A i \in 1..size : name[i] = i
  OBVIOUS
<1> HIDE DEF name
<1>6. PICK got : /\ Carried(key, name, got)
                 /\ \A objects : Reads(opack_str(<<key, name>>), objects, got)
  <2>1. key \in Texts
    BY Zenon DEF Texts
  <2>2. QED
    BY <1>3, <2>1, TextReads, Zenon
<1>7. PICK n \in 0..size :
         /\ got = Text(key, IF n = 0 THEN 0 ELSE name[n])
         /\ n < size => name[n + 1] > OPACK_SHORT_STRING
  BY <1>3, <1>6 DEF Carried
<1>8. n = size
  BY <1>0, <1>2, <1>5, <1>7
<1>9. (IF n = 0 THEN 0 ELSE name[n]) = size
  BY <1>2, <1>5, <1>8
<1>10. QED
  BY <1>1, <1>4, <1>6, <1>7, <1>9, Zenon

LEMMA NumberReads ==
    ASSUME NEW v \in Nat
    PROVE  \A objects : Reads(opack_uint(v), objects, <<"", v>>)
<1>1. opack_uint(v) \in Seq(Cells(Texts)) /\ Len(opack_uint(v)) > 0
  BY CellsTyped, NumberTyped, Zenon
<1>2. \A b \in Seq(Cells(Texts)), pos \in Nat \ {0} : \A objects :
         Holds(b, pos, opack_uint(v)) =>
         Object(b, pos, objects) = [next |-> pos + Len(opack_uint(v)), is |-> <<"", v>>]
  <2>1. SUFFICES ASSUME NEW b, NEW pos \in Nat, NEW objects, Holds(b, pos, opack_uint(v))
                 PROVE  Object(b, pos, objects) =
                            [next |-> pos + Len(opack_uint(v)), is |-> <<"", v>>]
    OBVIOUS
  <2>2. QED
    BY <2>1, NumbersArrive, Zenon
<1>3. QED
  BY <1>1, <1>2, Zenon DEF Reads

LEMMA TrueReads == \A objects : Reads(OPACK_TRUE, objects, <<"", 1>>)
<1>1. PICK tag : tag = 1
  OBVIOUS
<1>2. OPACK_TRUE = <<Byte(tag)>> /\ Byte(tag) \in Cells(Texts)
  BY <1>1, CellsTyped DEF OPACK_TRUE
<1>3. OPACK_TRUE \in Seq(Cells(Texts)) /\ Len(OPACK_TRUE) = 1
  <2>1. \A c \in Cells(Texts) : <<c>> \in Seq(Cells(Texts)) /\ Len(<<c>>) = 1
    OBVIOUS
  <2>2. QED
    BY <1>2, <2>1, Zenon
<1>4. \A b \in Seq(Cells(Texts)), pos \in Nat \ {0} : \A objects :
         Holds(b, pos, OPACK_TRUE) => Object(b, pos, objects) = [next |-> pos + 1, is |-> <<"", 1>>]
  <2> SUFFICES ASSUME NEW b, NEW pos \in Nat, NEW objects, Holds(b, pos, OPACK_TRUE)
               PROVE  Object(b, pos, objects) = [next |-> pos + 1, is |-> <<"", 1>>]
    OBVIOUS
  <2>1. b[pos] = Byte(tag)
    BY <1>2, HoldsOne
  <2>2. Code(b, pos) = tag /\ b[pos][1] = ""
    BY <2>1, Fields, Zenon
  <2>3. QED
    BY <1>1, <2>2, Zenon DEF Object
<1>5. OPACK_TRUE \in Seq(Cells(Texts)) /\ Len(OPACK_TRUE) > 0
  BY <1>3
<1>6. QED
  BY <1>3, <1>4, <1>5, Zenon DEF Reads

(* The back-reference of the hijack is a tag of its own kind and stands    *)
(* for the sixth object.                                                   *)
LEMMA BackTag ==
    /\ SixthObject \in Nat /\ IsReference(SixthObject) /\ Referred(SixthObject) = 6
    /\ SixthObject \notin 8..47 /\ SixthObject \notin 64..96
    /\ SixthObject # 1 /\ SixthObject # 48 /\ SixthObject # 49
  BY SMT DEF SixthObject, IsReference, Referred

LEMMA BackReads == \A objects : Reads(<<Byte(SixthObject)>>, objects, objects[6])
<1>1. Byte(SixthObject) \in Cells(Texts)
  BY BackTag, CellsTyped
<1>2. <<Byte(SixthObject)>> \in Seq(Cells(Texts)) /\ Len(<<Byte(SixthObject)>>) = 1
  <2>1. \A c \in Cells(Texts) : <<c>> \in Seq(Cells(Texts)) /\ Len(<<c>>) = 1
    OBVIOUS
  <2>2. QED
    BY <1>1, <2>1, Zenon
<1>3. \A b \in Seq(Cells(Texts)), pos \in Nat \ {0} : \A objects :
         Holds(b, pos, <<Byte(SixthObject)>>) =>
         Object(b, pos, objects) = [next |-> pos + 1, is |-> objects[6]]
  <2> SUFFICES ASSUME NEW b, NEW pos \in Nat, NEW objects, Holds(b, pos, <<Byte(SixthObject)>>)
               PROVE  Object(b, pos, objects) = [next |-> pos + 1, is |-> objects[6]]
    OBVIOUS
  <2>1. b[pos] = Byte(SixthObject)
    BY HoldsOne
  <2>2. Code(b, pos) = SixthObject /\ b[pos][1] = ""
    BY <2>1, Fields, Zenon
  <2>3. Object(b, pos, objects) = [next |-> pos + 1, is |-> objects[Referred(SixthObject)]]
    BY <2>2, BackTag, Zenon DEF Object
  <2>4. QED
    BY <2>3, BackTag, Zenon
<1>4. QED
  BY <1>2, <1>3 DEF Reads

(* One step of the reader, in a body that is not used up.                  *)
LEMMA OneMore ==
    ASSUME NEW b, NEW got, ~(got.next > Len(b))
    PROVE  NextObject(b, got) = [next |-> Object(b, got.next, got.objects).next,
                                 objects |-> Append(got.objects, Object(b, got.next, got.objects).is)]
  BY DEF NextObject

(* The reader's position and what it has read; one object and its end.      *)
Got(pos, objects) == [next |-> pos, objects |-> objects]
Finds(b, pos, objects, end, is) == Object(b, pos, objects) = [next |-> end, is |-> is]
Goes(b, pos, objects, end, more) == NextObject(b, Got(pos, objects)) = Got(end, more)
Enters(b, pos, objects, end, more) == NextEntry(b, Got(pos, objects)) = Got(end, more)

LEMMA ReadOne ==
    ASSUME NEW b, NEW pos, NEW objects, NEW end, NEW m, ~(pos > Len(b)),
           Finds(b, pos, objects, end, m)
    PROVE  Goes(b, pos, objects, end, Append(objects, m))
<1>1. PICK got : got = Got(pos, objects)
  OBVIOUS
<1>2. got.next = pos /\ got.objects = objects
  BY <1>1 DEF Got
<1>3. PICK o : o = Object(b, pos, objects)
  OBVIOUS
<1>4. o.next = end /\ o.is = m
  BY <1>3 DEF Finds
<1>5. ~(got.next > Len(b)) /\ o = Object(b, got.next, got.objects)
  BY <1>2, <1>3, Zenon
<1>6. NextObject(b, got) = [next |-> o.next, objects |-> Append(got.objects, o.is)]
  <2>1. NextObject(b, got) = [next |-> Object(b, got.next, got.objects).next,
                              objects |-> Append(got.objects, Object(b, got.next, got.objects).is)]
    BY <1>5, OneMore
  <2>2. QED
    BY <1>5, <2>1, Zenon
<1>7. NextObject(b, got) = [next |-> end, objects |-> Append(objects, m)]
  BY <1>2, <1>4, <1>6, Zenon
<1>8. QED
  BY <1>1, <1>7, Zenon DEF Goes, Got

(* A body stands at its own first byte, and its two first bytes are its    *)
(* header.                                                                 *)
LEMMA HoldsWhole ==
    ASSUME NEW C, NEW b \in Seq(C)
    PROVE  Holds(b, 1, b)
<1>1. Len(b) \in Nat
  OBVIOUS
<1>2. 1 + Len(b) - 1 <= Len(b) /\ \A i \in 1..Len(b) : b[1 + i - 1] = b[i]
  <2>1. \A i \in 1..Len(b) : 1 + i - 1 = i
    BY <1>1
  <2>2. QED
    BY <1>1, <2>1
<1>3. QED
  BY <1>2 DEF Holds

(* The place behind u.                                                     *)
After(u) == Len(u) + 1

(* One entry, a key and its value, behind what was read before.            *)
LEMMA EntryReads ==
    ASSUME NEW b \in Seq(Cells(Texts)), NEW u \in Seq(Cells(Texts)), NEW w, NEW x,
           NEW objects, NEW m, NEW n, Holds(b, 1, u \o w \o x),
           Reads(w, objects, m), Reads(x, Append(objects, m), n)
    PROVE  /\ Holds(b, 1, u)
           /\ Enters(b, After(u), objects, After(u \o w \o x), Append(Append(objects, m), n))
<1> DEFINE C == Cells(Texts)
<1>0. w \in Seq(C) /\ x \in Seq(C) /\ Len(w) > 0 /\ Len(x) > 0
  BY DEF Reads
<1>1. /\ Len(u) \in Nat /\ Len(w) \in Nat /\ Len(x) \in Nat /\ u \o w \in Seq(C) /\ Len(b) \in Nat
      /\ Len(u \o w) = Len(u) + Len(w) /\ Len(u \o w \o x) = Len(u) + Len(w) + Len(x)
  BY <1>0
<1> HIDE DEF C
<1>2. PICK second \in Nat \ {0} : second = Len(u) + 1 + Len(w)
  BY <1>1
<1>3. /\ After(u) \in Nat \ {0} /\ After(u) = 1 + Len(u) /\ After(u) + Len(w) = second
      /\ After(u \o w \o x) = second + Len(x) /\ second = 1 + Len(u \o w)
  BY <1>1, <1>2 DEF After
<1>4. Holds(b, 1, u \o w) /\ Holds(b, second, x)
  <2>1. Holds(b, 1, u \o w) /\ Holds(b, 1 + Len(u \o w), x)
    BY <1>0, <1>1, ConcatHolds
  <2>2. QED
    BY <1>3, <2>1
<1>5. Holds(b, 1, u) /\ Holds(b, After(u), w)
  <2>1. Holds(b, 1, u) /\ Holds(b, 1 + Len(u), w)
    BY <1>0, <1>1, <1>4, ConcatHolds DEF C
  <2>2. QED
    BY <1>3, <2>1
<1>6. Finds(b, After(u), objects, second, m)
  BY <1>3, <1>5 DEF Reads, Finds
<1>7. Finds(b, second, Append(objects, m), After(u \o w \o x), n)
  <2>1. Object(b, second, Append(objects, m)) = [next |-> second + Len(x), is |-> n]
    BY <1>4, Zenon DEF Reads
  <2>2. QED
    BY <1>3, <2>1, Zenon DEF Finds
<1>8. ~(After(u) > Len(b)) /\ ~(second > Len(b))
  <2>1. After(u) + Len(w) - 1 <= Len(b) /\ second + Len(x) - 1 <= Len(b)
    BY <1>4, <1>5 DEF Holds
  <2>2. QED
    BY <1>0, <1>1, <1>3, <2>1
<1>9. Goes(b, After(u), objects, second, Append(objects, m))
  BY <1>6, <1>8, ReadOne, Zenon
<1>10. Goes(b, second, Append(objects, m), After(u \o w \o x), Append(Append(objects, m), n))
  BY <1>7, <1>8, ReadOne, Zenon
<1>11. QED
  BY <1>5, <1>9, <1>10, Zenon DEF Goes, Enters, NextEntry

LEMMA Header ==
    ASSUME NEW C, \A n \in Nat : Byte(n) \in C
    PROVE  opack_body(5) \in Seq(C) /\ Len(opack_body(5)) = 2
<1>1. PICK first, second \in Nat : first = 1 /\ second = 224 + 5
  OBVIOUS
<1>2. opack_body(5) = <<Byte(first), Byte(second)>>
  BY <1>1 DEF opack_body
<1>3. Byte(first) \in C /\ Byte(second) \in C
  BY Zenon
<1>4. \A c, d \in C : <<c, d>> \in Seq(C) /\ Len(<<c, d>>) = 2
  OBVIOUS
<1>5. QED
  BY <1>2, <1>3, <1>4, Zenon

LEMMA FirstBytes ==
    ASSUME NEW b, NEW x, NEW y, Holds(b, 1, <<x, y>>)
    PROVE  b[1] = x /\ b[2] = y
<1>1. 1 \in Nat /\ 1 + 1 = 2
  OBVIOUS
<1>2. b[1] = x /\ b[1 + 1] = y
  BY HoldsTwo
<1>3. QED
  BY <1>1, <1>2

LEMMA FirstTwo ==
    ASSUME NEW C, NEW b \in Seq(C), 2 <= Len(b)
    PROVE  SubSeq(b, 1, 2) = <<b[1], b[2]>>
<1>1. Len(b) \in Nat /\ \A i \in 1..2 : b[i] \in C
  OBVIOUS
<1>2. PICK got : got = SubSeq(b, 1, 2)
  OBVIOUS
<1>3. got \in Seq(C) /\ Len(got) = 2 /\ got[1] = b[1] /\ got[2] = b[2]
  BY <1>1, <1>2, SubSeqProperties
<1>4. got = <<got[1], got[2]>>
  BY <1>3
<1>5. QED
  BY <1>2, <1>3, <1>4

(* What was read before, and one object more.                              *)
LEMMA NextPrefix ==
    ASSUME NEW M, NEW ms \in Seq(M), NEW k \in 0..Len(ms) - 1
    PROVE  Append(SubSeq(ms, 1, k), ms[k + 1]) = SubSeq(ms, 1, k + 1)
<1>1. Len(ms) \in Nat /\ k \in Nat
  OBVIOUS
<1>2. PICK n \in 1..Len(ms) : n = k + 1
  BY <1>1
<1>3. SubSeq(ms, 1, n) = SubSeq(ms, 1, n - 1) \o <<ms[n]>>
  BY <1>1, <1>2, SubSeqRecursiveSecond
<1>4. SubSeq(ms, 1, n - 1) \in Seq(M) /\ ms[n] \in M /\ n - 1 = k
  BY <1>1, <1>2
<1>5. \A p \in Seq(M), x \in M : Append(p, x) = p \o <<x>>
  BY AppendIsConcat
<1>6. QED
  BY <1>2, <1>3, <1>4, <1>5

IsBody(b, w1, w2, w3, w4, w5, w6, w7, w8, w9, w10) ==
    b = opack_body(5) \o w1 \o w2 \o w3 \o w4 \o w5 \o w6 \o w7 \o w8 \o w9 \o w10

(* The whole body: ten objects that can be read one behind the other, each *)
(* in the knowledge of those before, are read and use the body up.         *)
LEMMA TenObjects ==
    ASSUME NEW w1, NEW w2, NEW w3, NEW w4, NEW w5, NEW w6, NEW w7, NEW w8, NEW w9, NEW w10,
           NEW M, NEW ms \in Seq(M), Len(ms) = 10,
           NEW b, IsBody(b, w1, w2, w3, w4, w5, w6, w7, w8, w9, w10),
           Reads(w1, SubSeq(ms, 1, 0), ms[1]),
           Reads(w2, SubSeq(ms, 1, 1), ms[2]),
           Reads(w3, SubSeq(ms, 1, 2), ms[3]),
           Reads(w4, SubSeq(ms, 1, 3), ms[4]),
           Reads(w5, SubSeq(ms, 1, 4), ms[5]),
           Reads(w6, SubSeq(ms, 1, 5), ms[6]),
           Reads(w7, SubSeq(ms, 1, 6), ms[7]),
           Reads(w8, SubSeq(ms, 1, 7), ms[8]),
           Reads(w9, SubSeq(ms, 1, 8), ms[9]),
           Reads(w10, SubSeq(ms, 1, 9), ms[10])
    PROVE  /\ Objects(b) = [next |-> Len(b) + 1, objects |-> ms]
           /\ b \in Seq(Cells(Texts)) /\ SubSeq(b, 1, 2) = opack_body(5)
<1> DEFINE C == Cells(Texts)
           u1 == opack_body(5)
           u2 == u1 \o w1 \o w2
           u3 == u2 \o w3 \o w4
           u4 == u3 \o w5 \o w6
           u5 == u4 \o w7 \o w8
           u6 == u5 \o w9 \o w10
<1>1. /\ w1 \in Seq(C) /\ w2 \in Seq(C) /\ w3 \in Seq(C) /\ w4 \in Seq(C) /\ w5 \in Seq(C)
      /\ w6 \in Seq(C) /\ w7 \in Seq(C) /\ w8 \in Seq(C) /\ w9 \in Seq(C) /\ w10 \in Seq(C)
  BY Zenon DEF Reads
<1>2. u1 \in Seq(C) /\ Len(u1) = 2
  BY CellsTyped, Header, Zenon
<1>3. b = u6
  BY DEF IsBody
<1>4. \A p, q, r \in Seq(C) : p \o q \o r \in Seq(C)
  <2> HIDE DEF C
  <2>1. QED
    OBVIOUS
<1> HIDE DEF C, u1
<1>5. u2 \in Seq(C)
  BY <1>1, <1>2, <1>4, Zenon
<1> HIDE DEF u2
<1>6. u3 \in Seq(C)
  BY <1>1, <1>5, <1>4, Zenon
<1> HIDE DEF u3
<1>7. u4 \in Seq(C)
  BY <1>1, <1>6, <1>4, Zenon
<1> HIDE DEF u4
<1>8. u5 \in Seq(C)
  BY <1>1, <1>7, <1>4, Zenon
<1> HIDE DEF u5
<1>9. u6 \in Seq(C)
  BY <1>1, <1>8, <1>4, Zenon
<1> HIDE DEF u6
<1>10. Holds(b, 1, u6)
  BY <1>3, <1>9, HoldsWhole
<1>20. \A k \in 0..9 : Append(SubSeq(ms, 1, k), ms[k + 1]) = SubSeq(ms, 1, k + 1)
  BY NextPrefix
<1>11. /\ Holds(b, 1, u5)
      /\ Enters(b, After(u5), SubSeq(ms, 1, 8), After(u6), SubSeq(ms, 1, 10))
  <2>1. /\ Append(SubSeq(ms, 1, 8), ms[9]) = SubSeq(ms, 1, 9)
        /\ Append(SubSeq(ms, 1, 9), ms[10]) = SubSeq(ms, 1, 10)
    BY <1>20
  <2>2. b \in Seq(Cells(Texts)) /\ u5 \in Seq(Cells(Texts))
    BY <1>3, <1>9, <1>8 DEF C
  <2>3. Holds(b, 1, u5 \o w9 \o w10)
    BY <1>10, Zenon DEF u6
  <2>4. Reads(w9, SubSeq(ms, 1, 8), ms[9])
        /\ Reads(w10, Append(SubSeq(ms, 1, 8), ms[9]), ms[10])
    BY <2>1, Zenon
  <2>5. /\ Holds(b, 1, u5)
        /\ Enters(b, After(u5), SubSeq(ms, 1, 8), After(u5 \o w9 \o w10),
                  Append(Append(SubSeq(ms, 1, 8), ms[9]), ms[10]))
    BY <2>2, <2>3, <2>4, EntryReads, Zenon
  <2>6. QED
    BY <2>1, <2>5, Zenon DEF u6
<1>12. /\ Holds(b, 1, u4)
      /\ Enters(b, After(u4), SubSeq(ms, 1, 6), After(u5), SubSeq(ms, 1, 8))
  <2>1. /\ Append(SubSeq(ms, 1, 6), ms[7]) = SubSeq(ms, 1, 7)
        /\ Append(SubSeq(ms, 1, 7), ms[8]) = SubSeq(ms, 1, 8)
    BY <1>20
  <2>2. b \in Seq(Cells(Texts)) /\ u4 \in Seq(Cells(Texts))
    BY <1>3, <1>9, <1>7 DEF C
  <2>3. Holds(b, 1, u4 \o w7 \o w8)
    BY <1>11, Zenon DEF u5
  <2>4. Reads(w7, SubSeq(ms, 1, 6), ms[7])
        /\ Reads(w8, Append(SubSeq(ms, 1, 6), ms[7]), ms[8])
    BY <2>1, Zenon
  <2>5. /\ Holds(b, 1, u4)
        /\ Enters(b, After(u4), SubSeq(ms, 1, 6), After(u4 \o w7 \o w8),
                  Append(Append(SubSeq(ms, 1, 6), ms[7]), ms[8]))
    BY <2>2, <2>3, <2>4, EntryReads, Zenon
  <2>6. QED
    BY <2>1, <2>5, Zenon DEF u5
<1>13. /\ Holds(b, 1, u3)
      /\ Enters(b, After(u3), SubSeq(ms, 1, 4), After(u4), SubSeq(ms, 1, 6))
  <2>1. /\ Append(SubSeq(ms, 1, 4), ms[5]) = SubSeq(ms, 1, 5)
        /\ Append(SubSeq(ms, 1, 5), ms[6]) = SubSeq(ms, 1, 6)
    BY <1>20
  <2>2. b \in Seq(Cells(Texts)) /\ u3 \in Seq(Cells(Texts))
    BY <1>3, <1>9, <1>6 DEF C
  <2>3. Holds(b, 1, u3 \o w5 \o w6)
    BY <1>12, Zenon DEF u4
  <2>4. Reads(w5, SubSeq(ms, 1, 4), ms[5])
        /\ Reads(w6, Append(SubSeq(ms, 1, 4), ms[5]), ms[6])
    BY <2>1, Zenon
  <2>5. /\ Holds(b, 1, u3)
        /\ Enters(b, After(u3), SubSeq(ms, 1, 4), After(u3 \o w5 \o w6),
                  Append(Append(SubSeq(ms, 1, 4), ms[5]), ms[6]))
    BY <2>2, <2>3, <2>4, EntryReads, Zenon
  <2>6. QED
    BY <2>1, <2>5, Zenon DEF u4
<1>14. /\ Holds(b, 1, u2)
      /\ Enters(b, After(u2), SubSeq(ms, 1, 2), After(u3), SubSeq(ms, 1, 4))
  <2>1. /\ Append(SubSeq(ms, 1, 2), ms[3]) = SubSeq(ms, 1, 3)
        /\ Append(SubSeq(ms, 1, 3), ms[4]) = SubSeq(ms, 1, 4)
    BY <1>20
  <2>2. b \in Seq(Cells(Texts)) /\ u2 \in Seq(Cells(Texts))
    BY <1>3, <1>9, <1>5 DEF C
  <2>3. Holds(b, 1, u2 \o w3 \o w4)
    BY <1>13, Zenon DEF u3
  <2>4. Reads(w3, SubSeq(ms, 1, 2), ms[3])
        /\ Reads(w4, Append(SubSeq(ms, 1, 2), ms[3]), ms[4])
    BY <2>1, Zenon
  <2>5. /\ Holds(b, 1, u2)
        /\ Enters(b, After(u2), SubSeq(ms, 1, 2), After(u2 \o w3 \o w4),
                  Append(Append(SubSeq(ms, 1, 2), ms[3]), ms[4]))
    BY <2>2, <2>3, <2>4, EntryReads, Zenon
  <2>6. QED
    BY <2>1, <2>5, Zenon DEF u3
<1>15. /\ Holds(b, 1, u1)
      /\ Enters(b, After(u1), SubSeq(ms, 1, 0), After(u2), SubSeq(ms, 1, 2))
  <2>1. /\ Append(SubSeq(ms, 1, 0), ms[1]) = SubSeq(ms, 1, 1)
        /\ Append(SubSeq(ms, 1, 1), ms[2]) = SubSeq(ms, 1, 2)
    BY <1>20
  <2>2. b \in Seq(Cells(Texts)) /\ u1 \in Seq(Cells(Texts))
    BY <1>3, <1>9, <1>2 DEF C
  <2>3. Holds(b, 1, u1 \o w1 \o w2)
    BY <1>14, Zenon DEF u2
  <2>4. Reads(w1, SubSeq(ms, 1, 0), ms[1])
        /\ Reads(w2, Append(SubSeq(ms, 1, 0), ms[1]), ms[2])
    BY <2>1, Zenon
  <2>5. /\ Holds(b, 1, u1)
        /\ Enters(b, After(u1), SubSeq(ms, 1, 0), After(u1 \o w1 \o w2),
                  Append(Append(SubSeq(ms, 1, 0), ms[1]), ms[2]))
    BY <2>2, <2>3, <2>4, EntryReads, Zenon
  <2>6. QED
    BY <2>1, <2>5, Zenon DEF u2
<1>16. [next |-> 3, objects |-> <<>>] = Got(After(u1), SubSeq(ms, 1, 0))
  BY <1>2 DEF Got, After
<1>17. Objects(b) = [next |-> Len(b) + 1, objects |-> ms]
  <2>1. SubSeq(ms, 1, 10) = ms
    BY SubSeqFull
  <2>2. Objects(b) = Got(After(u6), SubSeq(ms, 1, 10))
    BY <1>11, <1>12, <1>13, <1>14, <1>15, <1>16, Zenon DEF Objects, Enters
  <2>3. QED
    BY <1>3, <2>1, <2>2, Zenon DEF Got, After
<1>18. SubSeq(b, 1, 2) = u1
  <2>1. PICK first, second : u1 = <<first, second>>
    BY DEF u1, opack_body
  <2>2. b[1] = first /\ b[2] = second
    <3>1. Holds(b, 1, <<first, second>>)
      BY <1>15, <2>1, Zenon
    <3>2. QED
      BY <3>1, FirstBytes, Zenon
  <2>3. b \in Seq(C) /\ 2 <= Len(b)
    <3>1. b \in Seq(C)
      BY <1>3, <1>9, Zenon
    <3>0. Len(b) \in Nat
      BY <3>1
    <3>2. 1 + Len(u1) - 1 <= Len(b)
      BY <1>15 DEF Holds
    <3>3. QED
      BY <1>2, <3>0, <3>1, <3>2
  <2>4. QED
    BY <2>1, <2>2, <2>3, FirstTwo
<1>19. QED
  BY <1>3, <1>9, <1>17, <1>18 DEF u1, C

(* The texts of the messages, by name.                                     *)
LEMMA TextsOfMessages ==
    /\ {"localscore", "reason", "Hijackv2", "audioRoutingScore", Own, "remotescore"}
           \subseteq DOMAIN Size
    /\ {"PlayingApp", "HostStreamingState", "btAddress", "btName", "otherDeviceAudioCategory",
         "playingApp", "hostStreamingState", "NA", "YES", "NO", "idleTime", "newTipi",
         "nearbyAudioScore", "address"} \subseteq DOMAIN Size \ {Own}
  BY DEF Size, Own

(* Texts of different names are different texts.                           *)
LEMMA TextLength ==
    ASSUME NEW s, NEW n \in Nat
    PROVE  Len(Text(s, n)) = n /\ \A i \in 1..n : Text(s, n)[i] = <<s, i>>
  BY DEF Text

LEMMA OtherText ==
    ASSUME NEW s, NEW n \in Nat \ {0}, NEW t, NEW k \in Nat, s # t
    PROVE  Text(s, n) # Text(t, k)
<1> SUFFICES ASSUME Text(s, n) = Text(t, k)
             PROVE  FALSE
  OBVIOUS
<1>1. n = k
  BY TextLength
<1>2. Text(s, n)[1] = <<s, 1>> /\ Text(t, k)[1] = <<t, 1>>
  BY <1>1, TextLength
<1>3. QED
  BY <1>2

(* A key as the text that opack_str gets.                                  *)
LEMMA KeyIs ==
    ASSUME NEW key \in DOMAIN Size
    PROVE  Key(key)[1] = key /\ IsName(Key(key)[2]) /\ Key(key) = <<key, Key(key)[2]>>
<1>1. PICK size : size = Size[key]
  OBVIOUS
<1>2. size \in Nat
  BY <1>1, Sizes
<1>3. PICK name : name = [i \in 1..size |-> i]
  OBVIOUS
<1>4. IsName(name)
  BY <1>2, <1>3, KeyNames
<1>5. Key(key) = <<key, name>>
  BY <1>1, <1>3 DEF Key
<1>6. QED
  BY <1>4, <1>5

(* What a key looks like on the wire.                                      *)
LEMMA KeyWritten ==
    ASSUME NEW key \in DOMAIN Size
    PROVE  opack_str(Key(key)) = <<Byte(64 + Size[key])>> \o Text(key, Size[key])
<1>0. OPACK_SHORT_STRING \in 31..32
  BY CodecAssumption
<1>1. PICK name : name = Key(key)[2]
  OBVIOUS
<1>2. IsName(name) /\ Key(key) = <<key, name>>
  BY <1>1, KeyIs, Zenon
<1>3. PICK size \in 0..OPACK_SHORT_STRING :
         /\ opack_str(<<key, name>>) = <<Byte(64 + size)>> \o Text(key, size)
         /\ Carried(key, name, Text(key, size))
  BY <1>2, Cut
<1>4. /\ Len(name) = Size[key] /\ Size[key] \in 1..31
      /\ \A i \in 1..Size[key] : name[i] = i
  <2>1. PICK whole : whole = Size[key]
    OBVIOUS
  <2>2. whole \in 1..31
    BY <2>1, Sizes
  <2>3. name = [i \in 1..whole |-> i]
    <3>1. PICK other : other = [i \in 1..whole |-> i]
      OBVIOUS
    <3>2. Key(key) = <<key, other>>
      BY <2>1, <3>1 DEF Key
    <3>3. QED
      BY <1>1, <3>1, <3>2
  <2>4. Len(name) = whole /\ \A i \in 1..whole : name[i] = i
    BY <2>2, <2>3
  <2>5. QED
    BY <2>1, <2>2, <2>4
<1>5. PICK n \in 0..Len(name) :
         /\ Text(key, size) = Text(key, IF n = 0 THEN 0 ELSE name[n])
         /\ n < Len(name) => name[n + 1] > OPACK_SHORT_STRING
  BY <1>3, Zenon DEF Carried
<1>6. n = Len(name) /\ (IF n = 0 THEN 0 ELSE name[n]) = Size[key]
  <2>1. PICK whole : whole = Size[key]
    OBVIOUS
  <2>2. Len(name) = whole /\ whole \in 1..31 /\ \A i \in 1..whole : name[i] = i
    BY <1>4, <2>1
  <2>3. n = whole
    BY <1>0, <1>5, <2>2
  <2>4. QED
    BY <2>1, <2>2, <2>3
<1>8. size = Size[key]
  <2>1. Text(key, size) = Text(key, Size[key]) /\ size \in Nat /\ Size[key] \in Nat
    BY <1>0, <1>4, <1>5, <1>6
  <2>2. QED
    BY <2>1, TextLength
<1>9. QED
  BY <1>2, <1>3, <1>8, Zenon

(* The first byte of a piece of a body.                                    *)
LEMMA FirstOfSub ==
    ASSUME NEW C, NEW b \in Seq(C), NEW size \in 1..31, NEW i \in 0..(Len(b) - size)
    PROVE  SubSeq(b, i + 1, i + size)[1] = b[i + 1] /\ b[i + 1] \in C
<1>1. Len(b) \in Nat /\ i \in Nat /\ i + size <= Len(b)
  OBVIOUS
<1>2. PICK first, last \in Int : first = i + 1 /\ last = i + size
  BY <1>1
<1>3. /\ first <= last /\ 1 \in 1..last - first + 1 /\ first + 1 - 1 = first
      /\ \A j \in first..last : j \in 1..Len(b)
  BY <1>1, <1>2
<1>4. \A j \in first..last : b[j] \in C
  BY <1>3
<1>5. SubSeq(b, first, last)[1] = b[first + 1 - 1]
  BY <1>3, <1>4, SubSeqProperties
<1>6. first \in first..last
  BY <1>3
<1>7. QED
  BY <1>2, <1>3, <1>4, <1>5, <1>6

(* A body without the hijack's own text asks nobody to yield.              *)
LEMMA NoYield ==
    ASSUME NEW b \in Seq(Cells(Texts \ {Own}))
    PROVE  ~smart_routing_requests_yield(b)
<1>0. PICK size : size = Size[Own]
  OBVIOUS
<1>1. size \in 1..31
  BY <1>0, Sizes, TextsOfMessages
<1>2. SUFFICES ASSUME NEW i \in 0..(Len(b) - size), SubSeq(b, i + 1, i + size) = Text(Own, size)
               PROVE  FALSE
  BY <1>0 DEF smart_routing_requests_yield
<1>3. b[i + 1] = Text(Own, size)[1] /\ b[i + 1] \in Cells(Texts \ {Own})
  BY <1>1, <1>2, FirstOfSub
<1>4. Text(Own, size)[1] = <<Own, 1>>
  BY <1>1, TextLength
<1>5. <<Own, 1>> \in Cells(Texts \ {Own})
  BY <1>3, <1>4, Zenon
<1>6. Own \in Texts \ {Own}
  BY <1>5 DEF Cells
<1>7. QED
  BY <1>6

(* A body that holds the hijack's own text asks the other host to yield.   *)
LEMMA HijackYields ==
    ASSUME NEW B, NEW b \in Seq(B), NEW pos \in Nat \ {0}, Holds(b, pos, opack_str(Key(Own)))
    PROVE  smart_routing_requests_yield(b)
<1>0. PICK size : size = Size[Own]
  OBVIOUS
<1>1. size \in 1..31
  BY <1>0, Sizes, TextsOfMessages
<1>2. Holds(b, pos, <<Byte(64 + size)>> \o Text(Own, size))
  BY <1>0, KeyWritten, TextsOfMessages
<1>3. pos + size <= Len(b) /\ SubSeq(b, pos + 1, pos + size) = Text(Own, size)
  BY <1>1, <1>2, TextAt
<1>4. pos \in 0..(Len(b) - size)
  BY <1>1, <1>3
<1>5. QED
  BY <1>0, <1>3, <1>4 DEF smart_routing_requests_yield

(* A tuple of ten, and the sixth of its first nine.                        *)
LEMMA TenTuple ==
    ASSUME NEW m1, NEW m2, NEW m3, NEW m4, NEW m5, NEW m6, NEW m7, NEW m8, NEW m9, NEW m10
    PROVE  /\ <<m1, m2, m3, m4, m5, m6, m7, m8, m9, m10>>
                  \in Seq({m1, m2, m3, m4, m5, m6, m7, m8, m9, m10})
           /\ Len(<<m1, m2, m3, m4, m5, m6, m7, m8, m9, m10>>) = 10
           /\ <<m1, m2, m3, m4, m5, m6, m7, m8, m9, m10>>[1] = m1
           /\ <<m1, m2, m3, m4, m5, m6, m7, m8, m9, m10>>[2] = m2
           /\ <<m1, m2, m3, m4, m5, m6, m7, m8, m9, m10>>[3] = m3
           /\ <<m1, m2, m3, m4, m5, m6, m7, m8, m9, m10>>[4] = m4
           /\ <<m1, m2, m3, m4, m5, m6, m7, m8, m9, m10>>[5] = m5
           /\ <<m1, m2, m3, m4, m5, m6, m7, m8, m9, m10>>[6] = m6
           /\ <<m1, m2, m3, m4, m5, m6, m7, m8, m9, m10>>[7] = m7
           /\ <<m1, m2, m3, m4, m5, m6, m7, m8, m9, m10>>[8] = m8
           /\ <<m1, m2, m3, m4, m5, m6, m7, m8, m9, m10>>[9] = m9
           /\ <<m1, m2, m3, m4, m5, m6, m7, m8, m9, m10>>[10] = m10
  OBVIOUS

LEMMA SixthOfPrefix ==
    ASSUME NEW M, NEW ms \in Seq(M), 9 <= Len(ms)
    PROVE  SubSeq(ms, 1, 9)[6] = ms[6]
<1>1. \A i \in 1..9 : ms[i] \in M
  OBVIOUS
<1>2. 6 \in 1..(9 - 1 + 1) /\ 1 + 6 - 1 = 6
  OBVIOUS
<1>3. SubSeq(ms, 1, 9)[6] = ms[1 + 6 - 1]
  BY <1>1, <1>2, SubSeqProperties
<1>4. QED
  BY <1>2, <1>3

(* The same body as a sequence of its bytes.                               *)
LEMMA FiveEntriesTyped ==
    ASSUME NEW C, \A n \in Nat : Byte(n) \in C,
           NEW w1 \in Seq(C), NEW w2 \in Seq(C), NEW w3 \in Seq(C), NEW w4 \in Seq(C),
           NEW w5 \in Seq(C), NEW w6 \in Seq(C), NEW w7 \in Seq(C), NEW w8 \in Seq(C),
           NEW w9 \in Seq(C), NEW w10 \in Seq(C),
           NEW b, IsBody(b, w1, w2, w3, w4, w5, w6, w7, w8, w9, w10)
    PROVE  b \in Seq(C)
<1>1. opack_body(5) \in Seq(C)
  BY Header, Zenon
<1>2. \A p, q \in Seq(C) : p \o q \in Seq(C)
  OBVIOUS
<1>3. QED
  BY <1>1, <1>2, Zenon DEF IsBody

(* What w is, whatever was read before; what it is behind a sixth object x. *)
ReadsAs(w, m) == \A objects : Reads(w, objects, m)
ReadsBehind(w, x, m) == \A objects : objects[6] = x => Reads(w, objects, m)

(* All that is read of b.                                                  *)
AreRead(b, m1, m2, m3, m4, m5, m6, m7, m8, m9, m10) ==
    /\ Objects(b) = [next |-> Len(b) + 1, objects |-> <<m1, m2, m3, m4, m5, m6, m7, m8, m9, m10>>]
    /\ SubSeq(b, 1, 2) = opack_body(5)

(* A body of five entries is read as its ten objects; its last one may     *)
(* refer to the sixth.                                                     *)
LEMMA FiveEntries ==
    ASSUME NEW w1, NEW w2, NEW w3, NEW w4, NEW w5, NEW w6, NEW w7, NEW w8, NEW w9, NEW w10,
           NEW m1, NEW m2, NEW m3, NEW m4, NEW m5, NEW m6, NEW m7, NEW m8, NEW m9, NEW m10,
           NEW b, IsBody(b, w1, w2, w3, w4, w5, w6, w7, w8, w9, w10),
           ReadsAs(w1, m1),
           ReadsAs(w2, m2),
           ReadsAs(w3, m3),
           ReadsAs(w4, m4),
           ReadsAs(w5, m5),
           ReadsAs(w6, m6),
           ReadsAs(w7, m7),
           ReadsAs(w8, m8),
           ReadsAs(w9, m9),
           ReadsBehind(w10, m6, m10)
    PROVE  b \in Seq(Cells(Texts)) /\ AreRead(b, m1, m2, m3, m4, m5, m6, m7, m8, m9, m10)
<1>1. PICK M : M = {m1, m2, m3, m4, m5, m6, m7, m8, m9, m10}
  OBVIOUS
<1>2. PICK ms : ms = <<m1, m2, m3, m4, m5, m6, m7, m8, m9, m10>>
  OBVIOUS
<1>3. ms \in Seq(M) /\ Len(ms) = 10
  BY <1>1, <1>2, TenTuple
<1>4. /\ ms[1] = m1 /\ ms[2] = m2 /\ ms[3] = m3 /\ ms[4] = m4 /\ ms[5] = m5
      /\ ms[6] = m6 /\ ms[7] = m7 /\ ms[8] = m8 /\ ms[9] = m9 /\ ms[10] = m10
  BY <1>2, TenTuple, Zenon
<1>5. SubSeq(ms, 1, 9)[6] = m6
  <2>1. 9 <= Len(ms)
    BY <1>3
  <2>2. QED
    BY <1>3, <1>4, <2>1, SixthOfPrefix, Zenon
<1>6. Reads(w10, SubSeq(ms, 1, 9), ms[10])
  BY <1>4, <1>5, Zenon DEF ReadsBehind
<1>7. Reads(w1, SubSeq(ms, 1, 0), ms[1])
  BY <1>4, Zenon DEF ReadsAs
<1>8. Reads(w2, SubSeq(ms, 1, 1), ms[2])
  BY <1>4, Zenon DEF ReadsAs
<1>9. Reads(w3, SubSeq(ms, 1, 2), ms[3])
  BY <1>4, Zenon DEF ReadsAs
<1>10. Reads(w4, SubSeq(ms, 1, 3), ms[4])
  BY <1>4, Zenon DEF ReadsAs
<1>11. Reads(w5, SubSeq(ms, 1, 4), ms[5])
  BY <1>4, Zenon DEF ReadsAs
<1>12. Reads(w6, SubSeq(ms, 1, 5), ms[6])
  BY <1>4, Zenon DEF ReadsAs
<1>13. Reads(w7, SubSeq(ms, 1, 6), ms[7])
  BY <1>4, Zenon DEF ReadsAs
<1>14. Reads(w8, SubSeq(ms, 1, 7), ms[8])
  BY <1>4, Zenon DEF ReadsAs
<1>15. Reads(w9, SubSeq(ms, 1, 8), ms[9])
  BY <1>4, Zenon DEF ReadsAs
<1>16. /\ Objects(b) = [next |-> Len(b) + 1, objects |-> ms]
       /\ b \in Seq(Cells(Texts)) /\ SubSeq(b, 1, 2) = opack_body(5)
  BY <1>3, <1>6, <1>7, <1>8, <1>9, <1>10, <1>11, <1>12, <1>13, <1>14, <1>15, TenObjects, Zenon
<1>17. QED
  BY <1>2, <1>16, Zenon DEF AreRead

(* What AreRead says of the reader, object by object.                      *)
LEMMA WhatIsRead ==
    ASSUME NEW b, NEW m1, NEW m2, NEW m3, NEW m4, NEW m5, NEW m6, NEW m7, NEW m8, NEW m9, NEW m10,
           AreRead(b, m1, m2, m3, m4, m5, m6, m7, m8, m9, m10)
    PROVE  /\ Objects(b).next = Len(b) + 1 /\ Len(Objects(b).objects) = 10
           /\ Objects(b).objects[1] = m1 /\ Objects(b).objects[2] = m2
           /\ Objects(b).objects[3] = m3 /\ Objects(b).objects[4] = m4
           /\ Objects(b).objects[5] = m5 /\ Objects(b).objects[6] = m6
           /\ Objects(b).objects[7] = m7 /\ Objects(b).objects[8] = m8
           /\ Objects(b).objects[9] = m9 /\ Objects(b).objects[10] = m10
<1>1. PICK objects : objects = <<m1, m2, m3, m4, m5, m6, m7, m8, m9, m10>>
  OBVIOUS
<1>2. Len(objects) = 10
  BY <1>1, TenTuple, Zenon
<1>3. /\ objects[1] = m1 /\ objects[2] = m2
      /\ objects[3] = m3 /\ objects[4] = m4
      /\ objects[5] = m5 /\ objects[6] = m6
      /\ objects[7] = m7 /\ objects[8] = m8
      /\ objects[9] = m9 /\ objects[10] = m10
  BY <1>1, TenTuple, Zenon
<1>4. PICK got : got = Objects(b)
  OBVIOUS
<1>5. got.next = Len(b) + 1 /\ got.objects = objects
  BY <1>1, <1>4 DEF AreRead
<1>6. QED
  BY <1>2, <1>3, <1>4, <1>5, Zenon

(* The messages that leave the audio alone.                                *)
Plain == Cells(Texts \ {Own})

(* An object behind a key is in the field of that key.                     *)
LEMMA InField ==
    ASSUME NEW objects, NEW key, NEW i \in 1..5, objects[2 * i - 1] = Text(key, Size[key])
    PROVE  objects[2 * i] \in Field(objects, key)
  BY DEF Field

(* A message whose bytes leave the hijack's text alone arrives once its    *)
(* keys and its names are read.                                            *)
LEMMA PlainArrives ==
    ASSUME NEW m, m.kind # "hijack", NEW b \in Seq(Plain),
           NEW m1, NEW m2, NEW m3, NEW m4, NEW m5, NEW m6, NEW m7, NEW m8, NEW m9, NEW m10,
           AreRead(b, m1, m2, m3, m4, m5, m6, m7, m8, m9, m10),
           m7 = Text("btName", Size["btName"]), Carried("name", m.bt_name, m8),
           m.kind = "media" =>
               m1 = Text("PlayingApp", Size["PlayingApp"]) /\ Carried("app", m.app, m2)
    PROVE  Arrives(m, b)
<1>1. PICK objects : objects = Objects(b).objects
  OBVIOUS
<1>2. PICK got : got = Objects(b)
  OBVIOUS
<1>3. /\ got.next = Len(b) + 1 /\ got.objects = objects /\ Len(objects) = 10
      /\ objects[1] = m1 /\ objects[2] = m2 /\ objects[7] = m7 /\ objects[8] = m8
  <2>1. /\ Objects(b).next = Len(b) + 1 /\ Len(Objects(b).objects) = 10
        /\ Objects(b).objects[1] = m1 /\ Objects(b).objects[2] = m2
        /\ Objects(b).objects[7] = m7 /\ Objects(b).objects[8] = m8
    BY WhatIsRead
  <2>2. QED
    BY <1>1, <1>2, <2>1, Zenon
<1>4. SubSeq(b, 1, 2) = opack_body(5)
  BY Zenon DEF AreRead
<1>5. ~smart_routing_requests_yield(b)
  BY NoYield, Zenon DEF Plain
<1>6. m8 \in Field(objects, "btName")
  <2>1. 4 \in 1..5 /\ 2 * 4 - 1 = 7 /\ 2 * 4 = 8
    OBVIOUS
  <2>2. objects[2 * 4 - 1] = Text("btName", Size["btName"])
    BY <1>3, <2>1
  <2>3. objects[2 * 4] \in Field(objects, "btName")
    BY <2>1, <2>2, InField
  <2>4. QED
    BY <1>3, <2>1, <2>3
<1>7. m.kind = "media" => m2 \in Field(objects, "PlayingApp")
  <2> SUFFICES ASSUME m.kind = "media"
               PROVE  m2 \in Field(objects, "PlayingApp")
    OBVIOUS
  <2>1. 1 \in 1..5 /\ 2 * 1 - 1 = 1 /\ 2 * 1 = 2
    OBVIOUS
  <2>2. objects[2 * 1 - 1] = Text("PlayingApp", Size["PlayingApp"])
    BY <1>3, <2>1
  <2>3. objects[2 * 1] \in Field(objects, "PlayingApp")
    BY <2>1, <2>2, InField
  <2>4. QED
    BY <1>3, <2>1, <2>3
<1>8. QED
  BY <1>1, <1>2, <1>3, <1>4, <1>5, <1>6, <1>7, Zenon DEF Arrives

(* What is written of a key, and what is read.                             *)
Written(key) == opack_str(Key(key))
Whole(key) == Text(key, Size[key])

(* Keys and names, as they are written and read.                           *)
LEMMA KeysRead == \A key \in DOMAIN Size : ReadsAs(Written(key), Whole(key))
  BY KeyReads, Zenon DEF ReadsAs, Written, Whole

LEMMA NamesRead ==
    ASSUME NEW s \in {"app", "name"}, NEW name, IsName(name)
    PROVE  \E got : Carried(s, name, got) /\ ReadsAs(opack_str(<<s, name>>), got)
<1>1. s \in Texts
  BY Zenon DEF Texts
<1>2. QED
  BY <1>1, TextReads, Zenon DEF ReadsAs

(* No writing of these messages has a byte of the hijack's text.           *)
LEMMA PlainTyped ==
    /\ \A n \in Nat : Byte(n) \in Plain
    /\ \A v \in Nat : opack_uint(v) \in Seq(Plain)
    /\ \A key \in DOMAIN Size \ {Own} : Written(key) \in Seq(Plain)
    /\ \A name : IsName(name) => opack_str(<<"app", name>>) \in Seq(Plain)
                                /\ opack_str(<<"name", name>>) \in Seq(Plain)
    /\ OPACK_TRUE \in Seq(Plain)
<1>1. {"", "app", "name"} \subseteq Texts \ {Own} /\ DOMAIN Size \ {Own} \subseteq Texts \ {Own}
  BY DEF Texts, Own
<1>2. \A n \in Nat : Byte(n) \in Plain /\ \A s \in Texts \ {Own} : <<s, n>> \in Plain
  BY <1>1, Zenon DEF Plain, Cells, Byte
<1>3. \A v \in Nat : opack_uint(v) \in Seq(Plain)
  BY <1>2, NumberTyped, Zenon
<1>4. \A s \in Texts \ {Own} : \A name :
         IsName(name) => opack_str(<<s, name>>) \in Seq(Plain)
  BY <1>2, TextTyped, Zenon
<1>5. \A key \in DOMAIN Size \ {Own} : opack_str(Key(key)) \in Seq(Plain)
  <2> SUFFICES ASSUME NEW key \in DOMAIN Size \ {Own}
               PROVE  opack_str(Key(key)) \in Seq(Plain)
    OBVIOUS
  <2>1. IsName(Key(key)[2]) /\ Key(key) = <<key, Key(key)[2]>>
    BY KeyIs, Zenon
  <2>2. opack_str(<<key, Key(key)[2]>>) \in Seq(Plain)
    BY <1>1, <1>4, <2>1, Zenon
  <2>3. QED
    BY <2>1, <2>2, Zenon
<1>6. OPACK_TRUE \in Seq(Plain)
  <2>1. PICK n \in Nat : n = 1
    OBVIOUS
  <2>2. OPACK_TRUE = <<Byte(n)>>
    BY <2>1 DEF OPACK_TRUE
  <2>3. \A c \in Plain : <<c>> \in Seq(Plain)
    OBVIOUS
  <2>4. QED
    BY <1>2, <2>2, <2>3, Zenon
<1>7. QED
  BY <1>1, <1>2, <1>3, <1>4, <1>5, <1>6, Zenon DEF Written

(* The four kinds of message.  First the offer of a connection             *)
(* (encode_new_tipi).                                                      *)
LEMMA NewTipiArrives ==
    ASSUME NEW m, m.kind = "new_tipi", IsName(m.bt_name),
           NEW b, b = encode_new_tipi(m.bt_name)
    PROVE  Arrives(m, b)
<1>1. PICK idle, score \in Nat : idle = 0 /\ score = 6
  OBVIOUS
<1>2. PICK name : Carried("name", m.bt_name, name)
                   /\ ReadsAs(opack_str(<<"name", m.bt_name>>), name)
  BY NamesRead, Zenon
<1>3. IsBody(b, Written("idleTime"), opack_uint(idle), Written("newTipi"),
             OPACK_TRUE, Written("btAddress"),
             Written("address"), Written("btName"),
             opack_str(<<"name", m.bt_name>>), Written("nearbyAudioScore"), opack_uint(score))
  BY <1>1 DEF IsBody, Written, Address, encode_new_tipi
<1>4. \A key \in {"idleTime", "newTipi", "btAddress",
       "address", "btName", "nearbyAudioScore"} :
         key \in DOMAIN Size \ {Own}
  BY TextsOfMessages, Zenon
<1>5. \A key \in DOMAIN Size \ {Own} :
         ReadsAs(Written(key), Whole(key)) /\ Written(key) \in Seq(Plain)
  BY KeysRead, PlainTyped, Zenon
<1>6. AreRead(b, Whole("idleTime"), <<"", idle>>, Whole("newTipi"),
             <<"", 1>>, Whole("btAddress"),
             Whole("address"), Whole("btName"),
             name, Whole("nearbyAudioScore"), <<"", score>>)
  <2>1. /\ ReadsAs(Written("idleTime"), Whole("idleTime"))
        /\ ReadsAs(Written("newTipi"), Whole("newTipi"))
        /\ ReadsAs(Written("btAddress"), Whole("btAddress"))
        /\ ReadsAs(Written("address"), Whole("address"))
        /\ ReadsAs(Written("btName"), Whole("btName"))
        /\ ReadsAs(Written("nearbyAudioScore"), Whole("nearbyAudioScore"))
    BY <1>4, <1>5, Zenon
  <2>2. ReadsAs(opack_uint(idle), <<"", idle>>) /\ ReadsAs(OPACK_TRUE, <<"", 1>>)
        /\ ReadsAs(opack_uint(score), <<"", score>>)
    BY NumberReads, TrueReads, Zenon DEF ReadsAs
  <2>3. ReadsBehind(opack_uint(score), Whole("address"), <<"", score>>)
    BY <2>2, Zenon DEF ReadsAs, ReadsBehind
  <2>4. QED
    BY <1>2, <1>3, <2>1, <2>2, <2>3, FiveEntries, Zenon
<1>7. b \in Seq(Plain)
  <2>1. /\ Written("idleTime") \in Seq(Plain)
        /\ Written("newTipi") \in Seq(Plain)
        /\ Written("btAddress") \in Seq(Plain)
        /\ Written("address") \in Seq(Plain)
        /\ Written("btName") \in Seq(Plain)
        /\ Written("nearbyAudioScore") \in Seq(Plain)
    BY <1>4, <1>5, Zenon
  <2>2. QED
    BY <1>3, PlainTyped, <2>1, FiveEntriesTyped, Zenon
<1>8. QED
  BY <1>2, <1>6, <1>7, PlainArrives, Zenon DEF Whole

(* The notice of a new device (encode_media_info_new_device).              *)
LEMMA NewDeviceArrives ==
    ASSUME NEW m, m.kind = "new_device", IsName(m.bt_name),
           NEW b, b = encode_media_info_new_device(m.bt_name)
    PROVE  Arrives(m, b)
<1>1. PICK category \in Nat : category = 100
  OBVIOUS
<1>2. PICK name : Carried("name", m.bt_name, name)
                   /\ ReadsAs(opack_str(<<"name", m.bt_name>>), name)
  BY NamesRead, Zenon
<1>3. IsBody(b, Written("playingApp"), Written("NA"), Written("hostStreamingState"),
             Written("NO"), Written("btAddress"),
             Written("address"), Written("btName"),
             opack_str(<<"name", m.bt_name>>), Written("otherDeviceAudioCategory"),
             opack_uint(category))
  BY <1>1 DEF IsBody, Written, Address, encode_media_info_new_device
<1>4. \A key \in {"playingApp", "NA", "hostStreamingState", "NO",
       "btAddress", "address", "btName", "otherDeviceAudioCategory"} :
         key \in DOMAIN Size \ {Own}
  BY TextsOfMessages, Zenon
<1>5. \A key \in DOMAIN Size \ {Own} :
         ReadsAs(Written(key), Whole(key)) /\ Written(key) \in Seq(Plain)
  BY KeysRead, PlainTyped, Zenon
<1>6. AreRead(b, Whole("playingApp"), Whole("NA"), Whole("hostStreamingState"),
             Whole("NO"), Whole("btAddress"),
             Whole("address"), Whole("btName"),
             name, Whole("otherDeviceAudioCategory"), <<"", category>>)
  <2>1. /\ ReadsAs(Written("playingApp"), Whole("playingApp"))
        /\ ReadsAs(Written("NA"), Whole("NA"))
        /\ ReadsAs(Written("hostStreamingState"), Whole("hostStreamingState"))
        /\ ReadsAs(Written("NO"), Whole("NO"))
        /\ ReadsAs(Written("btAddress"), Whole("btAddress"))
        /\ ReadsAs(Written("address"), Whole("address"))
        /\ ReadsAs(Written("btName"), Whole("btName"))
        /\ ReadsAs(Written("otherDeviceAudioCategory"), Whole("otherDeviceAudioCategory"))
    BY <1>4, <1>5, Zenon
  <2>2. ReadsAs(opack_uint(category), <<"", category>>)
    BY NumberReads, TrueReads, Zenon DEF ReadsAs
  <2>3. ReadsBehind(opack_uint(category), Whole("address"), <<"", category>>)
    BY <2>2, Zenon DEF ReadsAs, ReadsBehind
  <2>4. QED
    BY <1>2, <1>3, <2>1, <2>2, <2>3, FiveEntries, Zenon
<1>7. b \in Seq(Plain)
  <2>1. /\ Written("playingApp") \in Seq(Plain)
        /\ Written("NA") \in Seq(Plain)
        /\ Written("hostStreamingState") \in Seq(Plain)
        /\ Written("NO") \in Seq(Plain)
        /\ Written("btAddress") \in Seq(Plain)
        /\ Written("address") \in Seq(Plain)
        /\ Written("btName") \in Seq(Plain)
        /\ Written("otherDeviceAudioCategory") \in Seq(Plain)
    BY <1>4, <1>5, Zenon
  <2>2. QED
    BY <1>3, PlainTyped, <2>1, FiveEntriesTyped, Zenon
<1>8. QED
  BY <1>2, <1>6, <1>7, PlainArrives, Zenon DEF Whole

(* The media information (encode_media_info), with two names of the        *)
(* user's.                                                                 *)
LEMMA MediaArrives ==
    ASSUME NEW m, m.kind = "media", IsName(m.bt_name), IsName(m.app),
           NEW b, b = encode_media_info(m.app, m.streaming, m.bt_name)
    PROVE  Arrives(m, b)
<1>1. PICK category \in Nat : category = 301
  OBVIOUS
<1>2. PICK answer \in {"YES", "NO"} : YesNo(m.streaming) = Key(answer)
  BY Zenon DEF YesNo
<1>3. PICK app : Carried("app", m.app, app) /\ ReadsAs(opack_str(<<"app", m.app>>), app)
  BY NamesRead, Zenon
<1>4. PICK name : Carried("name", m.bt_name, name)
                   /\ ReadsAs(opack_str(<<"name", m.bt_name>>), name)
  BY NamesRead, Zenon
<1>5. IsBody(b, Written("PlayingApp"), opack_str(<<"app", m.app>>), Written("HostStreamingState"),
             Written(answer), Written("btAddress"),
             Written("address"), Written("btName"),
             opack_str(<<"name", m.bt_name>>), Written("otherDeviceAudioCategory"),
             opack_uint(category))
  BY <1>1, <1>2 DEF IsBody, Written, Address, encode_media_info
<1>6. \A key \in {"PlayingApp", "HostStreamingState", "btAddress",
       "address", "btName", "otherDeviceAudioCategory", answer} :
         key \in DOMAIN Size \ {Own}
  BY <1>2, TextsOfMessages, Zenon
<1>7. \A key \in DOMAIN Size \ {Own} :
         ReadsAs(Written(key), Whole(key)) /\ Written(key) \in Seq(Plain)
  BY KeysRead, PlainTyped, Zenon
<1>8. AreRead(b, Whole("PlayingApp"), app, Whole("HostStreamingState"),
             Whole(answer), Whole("btAddress"),
             Whole("address"), Whole("btName"),
             name, Whole("otherDeviceAudioCategory"), <<"", category>>)
  <2>1. /\ ReadsAs(Written("PlayingApp"), Whole("PlayingApp"))
        /\ ReadsAs(Written("HostStreamingState"), Whole("HostStreamingState"))
        /\ ReadsAs(Written(answer), Whole(answer))
        /\ ReadsAs(Written("btAddress"), Whole("btAddress"))
        /\ ReadsAs(Written("address"), Whole("address"))
        /\ ReadsAs(Written("btName"), Whole("btName"))
        /\ ReadsAs(Written("otherDeviceAudioCategory"), Whole("otherDeviceAudioCategory"))
    BY <1>6, <1>7, Zenon
  <2>2. ReadsAs(opack_uint(category), <<"", category>>)
    BY NumberReads, TrueReads, Zenon DEF ReadsAs
  <2>3. ReadsBehind(opack_uint(category), Whole("address"), <<"", category>>)
    BY <2>2, Zenon DEF ReadsAs, ReadsBehind
  <2>4. QED
    BY <1>3, <1>4, <1>5, <2>1, <2>2, <2>3, FiveEntries, Zenon
<1>9. b \in Seq(Plain)
  <2>1. /\ Written("PlayingApp") \in Seq(Plain)
        /\ Written("HostStreamingState") \in Seq(Plain)
        /\ Written(answer) \in Seq(Plain)
        /\ Written("btAddress") \in Seq(Plain)
        /\ Written("address") \in Seq(Plain)
        /\ Written("btName") \in Seq(Plain)
        /\ Written("otherDeviceAudioCategory") \in Seq(Plain)
    BY <1>6, <1>7, Zenon
  <2>2. QED
    BY <1>5, PlainTyped, <2>1, FiveEntriesTyped, Zenon
<1>10. QED
  BY <1>3, <1>4, <1>8, <1>9, PlainArrives, Zenon DEF Whole

(* A key that no other key equals has one object in its field.             *)
LEMMA OnlyField ==
    ASSUME NEW objects, NEW key, NEW i \in 1..5, objects[2 * i - 1] = Text(key, Size[key]),
           \A j \in 1..5 \ {i} : objects[2 * j - 1] # Text(key, Size[key])
    PROVE  Field(objects, key) = {objects[2 * i]}
<1>1. {j \in 1..5 : objects[2 * j - 1] = Text(key, Size[key])} = {i}
  OBVIOUS
<1>2. QED
  BY <1>1 DEF Field

LEMMA FourthField ==
    ASSUME NEW objects, NEW key, NEW text, text = Text(key, Size[key]), objects[7] = text,
           objects[1] # text, objects[3] # text, objects[5] # text, objects[9] # text
    PROVE  Field(objects, key) = {objects[8]}
<1>1. 4 \in 1..5 /\ 2 * 4 - 1 = 7 /\ 2 * 4 = 8 /\ 1..5 \ {4} = {1, 2, 3, 5}
  OBVIOUS
<1>2. \A j \in 1..5 \ {4} : objects[2 * j - 1] # text
  BY <1>1
<1>3. objects[2 * 4 - 1] = text
  BY <1>1
<1>4. Field(objects, key) = {objects[2 * 4]}
  BY <1>1, <1>2, <1>3, OnlyField
<1>5. QED
  BY <1>1, <1>4

LEMMA FifthField ==
    ASSUME NEW objects, NEW key, NEW text, text = Text(key, Size[key]), objects[9] = text,
           objects[1] # text, objects[3] # text, objects[5] # text, objects[7] # text
    PROVE  Field(objects, key) = {objects[10]}
<1>1. 5 \in 1..5 /\ 2 * 5 - 1 = 9 /\ 2 * 5 = 10 /\ 1..5 \ {5} = {1, 2, 3, 4}
  OBVIOUS
<1>2. \A j \in 1..5 \ {5} : objects[2 * j - 1] # text
  BY <1>1
<1>3. objects[2 * 5 - 1] = text
  BY <1>1
<1>4. Field(objects, key) = {objects[2 * 5]}
  BY <1>1, <1>2, <1>3, OnlyField
<1>5. QED
  BY <1>1, <1>4

(* The seventh writing of a body stands somewhere in it.                   *)
LEMMA SeventhHeld ==
    ASSUME NEW C, \A n \in Nat : Byte(n) \in C,
           NEW w1 \in Seq(C), NEW w2 \in Seq(C), NEW w3 \in Seq(C), NEW w4 \in Seq(C),
           NEW w5 \in Seq(C), NEW w6 \in Seq(C), NEW w7 \in Seq(C), NEW w8 \in Seq(C),
           NEW w9 \in Seq(C), NEW w10 \in Seq(C),
           NEW b, IsBody(b, w1, w2, w3, w4, w5, w6, w7, w8, w9, w10)
    PROVE  \E pos \in Nat \ {0} : Holds(b, pos, w7)
<1> DEFINE u == opack_body(5) \o w1 \o w2 \o w3 \o w4 \o w5 \o w6
<1>1. u \in Seq(C)
  <2>1. opack_body(5) \in Seq(C)
    BY Header, Zenon
  <2>2. \A p, q \in Seq(C) : p \o q \in Seq(C)
    OBVIOUS
  <2>3. QED
    BY <2>1, <2>2, Zenon
<1>2. b = u \o w7 \o w8 \o w9 \o w10
  BY DEF IsBody
<1> HIDE DEF u
<1>3. b \in Seq(C) /\ u \o w7 \in Seq(C) /\ u \o w7 \o w8 \in Seq(C)
          /\ u \o w7 \o w8 \o w9 \in Seq(C)
  BY <1>1, <1>2
<1>4. Len(b) \in Nat /\ Len(u) \in Nat
  BY <1>1, <1>3
<1>5. Holds(b, 1, u \o w7 \o w8 \o w9 \o w10)
  BY <1>2, <1>3, HoldsWhole
<1>6. Holds(b, 1, u \o w7 \o w8 \o w9)
  BY <1>3, <1>4, <1>5, ConcatHolds
<1>7. Holds(b, 1, u \o w7 \o w8)
  BY <1>3, <1>4, <1>6, ConcatHolds
<1>8. Holds(b, 1, u \o w7)
  BY <1>3, <1>4, <1>7, ConcatHolds
<1>9. Holds(b, 1 + Len(u), w7)
  BY <1>1, <1>4, <1>8, ConcatHolds
<1>10. 1 + Len(u) \in Nat \ {0}
  BY <1>4
<1>11. QED
  BY <1>9, <1>10

(* The hijack (encode_hijack_v2): its fourth key asks for the audio, its   *)
(* fifth refers back to the score.                                         *)
LEMMA HijackArrives ==
    ASSUME NEW m, m.kind = "hijack", NEW b, b = encode_hijack_v2
    PROVE  Arrives(m, b)
<1>1. PICK score, highest \in Nat : score = 100 /\ highest = 301
  OBVIOUS
<1>2. PICK back : back = <<Byte(SixthObject)>>
  OBVIOUS
<1>5. IsBody(b, opack_str(Key("localscore")), opack_uint(score), opack_str(Key("reason")),
                    opack_str(Key("Hijackv2")),
              opack_str(Key("audioRoutingScore")), opack_uint(highest), opack_str(Key(Own)),
              OPACK_TRUE, opack_str(Key("remotescore")), back)
  BY <1>1, <1>2 DEF IsBody, encode_hijack_v2
<1>6. {"localscore", "reason", "Hijackv2", "audioRoutingScore", Own, "remotescore"}
           \subseteq DOMAIN Size
  BY TextsOfMessages, Zenon
<1>7. \A key \in DOMAIN Size : \A objects :
         Reads(opack_str(Key(key)), objects, Text(key, Size[key]))
  BY KeyReads, Zenon
<1>8. AreRead(b, Text("localscore", Size["localscore"]), <<"", score>>,
              Text("reason", Size["reason"]),
              Text("Hijackv2", Size["Hijackv2"]),
              Text("audioRoutingScore", Size["audioRoutingScore"]), <<"", highest>>,
              Text(Own, Size[Own]), <<"", 1>>,
              Text("remotescore", Size["remotescore"]), <<"", highest>>)
  <2>1. ReadsAs(opack_str(Key("localscore")), Text("localscore", Size["localscore"]))
    BY <1>6, <1>7, Zenon DEF ReadsAs
  <2>2. ReadsAs(opack_uint(score), <<"", score>>)
    BY NumberReads, Zenon DEF ReadsAs
  <2>3. ReadsAs(opack_str(Key("reason")), Text("reason", Size["reason"]))
    BY <1>6, <1>7, Zenon DEF ReadsAs
  <2>4. ReadsAs(opack_str(Key("Hijackv2")), Text("Hijackv2", Size["Hijackv2"]))
    BY <1>6, <1>7, Zenon DEF ReadsAs
  <2>5. ReadsAs(opack_str(Key("audioRoutingScore")),
              Text("audioRoutingScore", Size["audioRoutingScore"]))
    BY <1>6, <1>7, Zenon DEF ReadsAs
  <2>6. ReadsAs(opack_uint(highest), <<"", highest>>)
    BY NumberReads, Zenon DEF ReadsAs
  <2>7. ReadsAs(opack_str(Key(Own)), Text(Own, Size[Own]))
    BY <1>6, <1>7, Zenon DEF ReadsAs
  <2>8. ReadsAs(OPACK_TRUE, <<"", 1>>)
    BY TrueReads, Zenon DEF ReadsAs
  <2>9. ReadsAs(opack_str(Key("remotescore")), Text("remotescore", Size["remotescore"]))
    BY <1>6, <1>7, Zenon DEF ReadsAs
  <2>10. ReadsBehind(back, <<"", highest>>, <<"", highest>>)
    BY <1>2, BackReads, Zenon DEF ReadsBehind
  <2>11. QED
    BY <1>5, <2>1, <2>2, <2>3, <2>4, <2>5, <2>6, <2>7, <2>8, <2>9, <2>10, FiveEntries, Zenon
<1>9. smart_routing_requests_yield(b)
  <2>1. \A n \in Nat : Byte(n) \in Cells(Texts)
    BY CellsTyped, Zenon
  <2>2. \A w, got, objects : Reads(w, objects, got) => w \in Seq(Cells(Texts))
    BY Zenon DEF Reads
  <2>3. opack_str(Key("localscore")) \in Seq(Cells(Texts))
    BY <1>6, <1>7, <2>2, Zenon
  <2>4. opack_uint(score) \in Seq(Cells(Texts))
    BY NumberReads, <2>2, Zenon
  <2>5. opack_str(Key("reason")) \in Seq(Cells(Texts))
    BY <1>6, <1>7, <2>2, Zenon
  <2>6. opack_str(Key("Hijackv2")) \in Seq(Cells(Texts))
    BY <1>6, <1>7, <2>2, Zenon
  <2>7. opack_str(Key("audioRoutingScore")) \in Seq(Cells(Texts))
    BY <1>6, <1>7, <2>2, Zenon
  <2>8. opack_uint(highest) \in Seq(Cells(Texts))
    BY NumberReads, <2>2, Zenon
  <2>9. opack_str(Key(Own)) \in Seq(Cells(Texts))
    BY <1>6, <1>7, <2>2, Zenon
  <2>10. OPACK_TRUE \in Seq(Cells(Texts))
    BY TrueReads, <2>2, Zenon
  <2>11. opack_str(Key("remotescore")) \in Seq(Cells(Texts))
    BY <1>6, <1>7, <2>2, Zenon
  <2>12. back \in Seq(Cells(Texts))
    BY <1>2, BackReads, <2>2, Zenon
  <2>13. PICK pos \in Nat \ {0} : Holds(b, pos, opack_str(Key(Own)))
    BY <1>5, <2>1, <2>3, <2>4, <2>5, <2>6, <2>7, <2>8, <2>9, <2>10, <2>11, <2>12, SeventhHeld, Zenon
  <2>14. b \in Seq(Cells(Texts))
    BY <1>5, <2>1, <2>3, <2>4, <2>5, <2>6, <2>7, <2>8,
       <2>9, <2>10, <2>11, <2>12, FiveEntriesTyped, Zenon
  <2>15. QED
    BY <2>13, <2>14, HijackYields, Zenon
<1>10. PICK objects : objects = Objects(b).objects
  OBVIOUS
<1>11. /\ Objects(b).next = Len(b) + 1 /\ Len(objects) = 10
       /\ objects[1] = Text("localscore", Size["localscore"])
       /\ objects[3] = Text("reason", Size["reason"])
       /\ objects[5] = Text("audioRoutingScore", Size["audioRoutingScore"])
       /\ objects[7] = Text(Own, Size[Own]) /\ objects[8] = <<"", 1>>
       /\ objects[9] = Text("remotescore", Size["remotescore"]) /\ objects[10] = <<"", highest>>
  <2>1. PICK m1 : m1 = Text("localscore", Size["localscore"])
    OBVIOUS
  <2>2. PICK m2 : m2 = <<"", score>>
    OBVIOUS
  <2>3. PICK m3 : m3 = Text("reason", Size["reason"])
    OBVIOUS
  <2>4. PICK m4 : m4 = Text("Hijackv2", Size["Hijackv2"])
    OBVIOUS
  <2>5. PICK m5 : m5 = Text("audioRoutingScore", Size["audioRoutingScore"])
    OBVIOUS
  <2>6. PICK m6 : m6 = <<"", highest>>
    OBVIOUS
  <2>7. PICK m7 : m7 = Text(Own, Size[Own])
    OBVIOUS
  <2>8. PICK m8 : m8 = <<"", 1>>
    OBVIOUS
  <2>9. PICK m9 : m9 = Text("remotescore", Size["remotescore"])
    OBVIOUS
  <2>10. AreRead(b, m1, m2, m3, m4, m5, m6, m7, m8, m9, m6)
    BY <1>8, <2>1, <2>2, <2>3, <2>4, <2>5, <2>6, <2>7, <2>8, <2>9, Zenon
  <2>11. /\ Objects(b).next = Len(b) + 1 /\ Len(Objects(b).objects) = 10
         /\ Objects(b).objects[1] = m1 /\ Objects(b).objects[3] = m3 /\ Objects(b).objects[5] = m5
         /\ Objects(b).objects[7] = m7 /\ Objects(b).objects[8] = m8 /\ Objects(b).objects[9] = m9
         /\ Objects(b).objects[10] = m6
    BY <2>10, WhatIsRead
  <2>12. QED
    BY <1>10, <2>1, <2>3, <2>5, <2>6, <2>7, <2>8, <2>9, <2>11, Zenon
<1>14. \A key \in DOMAIN Size, other \in DOMAIN Size :
          key # other => Text(key, Size[key]) # Text(other, Size[other])
  <2>1. \A key \in DOMAIN Size : Size[key] \in Nat \ {0} /\ Size[key] \in Nat
    BY Sizes
  <2>2. QED
    BY <2>1, OtherText, Zenon
<1>15. /\ Own \notin {"localscore", "reason", "audioRoutingScore", "remotescore"}
       /\ "remotescore" \notin {"localscore", "reason", "audioRoutingScore", Own}
  BY DEF Own
<1>16. Field(objects, Own) = {<<"", 1>>}
  <2>1. \A key \in {"localscore", "reason", "audioRoutingScore", "remotescore"} :
            Text(key, Size[key]) # Text(Own, Size[Own])
    BY <1>6, <1>14, <1>15, Zenon
  <2>2. Field(objects, Own) = {objects[8]}
    BY <1>11, <2>1, FourthField, Zenon
  <2>3. QED
    BY <1>11, <2>2, Zenon
<1>17. Field(objects, "remotescore") = {<<"", highest>>}
  <2>1. \A key \in {"localscore", "reason", "audioRoutingScore", Own} :
            Text(key, Size[key]) # Text("remotescore", Size["remotescore"])
    BY <1>6, <1>14, <1>15, Zenon
  <2>2. Field(objects, "remotescore") = {objects[10]}
    BY <1>11, <2>1, FifthField, Zenon
  <2>3. QED
    BY <1>11, <2>2, Zenon
<1>18. SubSeq(b, 1, 2) = opack_body(5)
  BY <1>8, Zenon DEF AreRead
<1>19. QED
  BY <1>1, <1>9, <1>10, <1>11, <1>16, <1>17, <1>18 DEF Arrives

(* A setting: the frame of what was asked for decodes to it.               *)
LEMMA FourOf ==
    ASSUME NEW frame, NEW c1, NEW c2, NEW c3, NEW c4, NEW c5, frame = <<c1, c2, c3, c4, c5>>
    PROVE  /\ frame[1] = c1 /\ frame[2] = c2
           /\ SubSeq(frame, 2, 5) = <<c2, c3, c4, c5>> /\ SubSeq(frame, 3, 5) = <<c3, c4, c5>>
<1>1. PICK C : C = {c1, c2, c3, c4, c5}
  OBVIOUS
<1>2. /\ frame \in Seq(C) /\ Len(frame) = 5 /\ \A i \in 1..5 : frame[i] \in C
      /\ frame[1] = c1 /\ frame[2] = c2 /\ frame[3] = c3 /\ frame[4] = c4 /\ frame[5] = c5
  BY <1>1
<1>3. SubSeq(frame, 2, 5) = <<c2, c3, c4, c5>>
  <2>1. PICK got : got = SubSeq(frame, 2, 5)
    OBVIOUS
  <2>2. /\ got \in Seq(C) /\ Len(got) = 4
        /\ \A i \in 1..4 : got[i] = frame[2 + i - 1]
    BY <1>2, <2>1, SubSeqProperties
  <2>3. got[1] = c2 /\ got[2] = c3 /\ got[3] = c4 /\ got[4] = c5
    BY <1>2, <2>2
  <2>4. got = <<got[1], got[2], got[3], got[4]>>
    BY <2>2
  <2>5. QED
    BY <2>1, <2>3, <2>4
<1>4. SubSeq(frame, 3, 5) = <<c3, c4, c5>>
  <2>1. PICK got : got = SubSeq(frame, 3, 5)
    OBVIOUS
  <2>2. /\ got \in Seq(C) /\ Len(got) = 3
        /\ \A i \in 1..3 : got[i] = frame[3 + i - 1]
    BY <1>2, <2>1, SubSeqProperties
  <2>3. got[1] = c3 /\ got[2] = c4 /\ got[3] = c5
    BY <1>2, <2>2
  <2>4. got = <<got[1], got[2], got[3]>>
    BY <2>2
  <2>5. QED
    BY <2>1, <2>3, <2>4
<1>5. QED
  BY <1>2, <1>3, <1>4

(* The four data bytes of a frame, from one or two.                        *)
LEMMA Frames ==
    ASSUME NEW id, NEW c
    PROVE  /\ Frame(id, <<c>>) = <<id, c, 0, 0, 0>>
           /\ Frame(id, <<0, c>>) = <<id, 0, c, 0, 0>>
<1>1. Frame(id, <<c>>) = <<id, c, 0, 0, 0>>
  <2>1. Len(<<c>>) = 1
    OBVIOUS
  <2>2. PICK zeros : zeros = [i \in 1..3 |-> 0]
    OBVIOUS
  <2>3. Frame(id, <<c>>) = <<id>> \o <<c>> \o zeros
    BY <2>1, <2>2 DEF Frame
  <2>4. PICK got : got = <<id>> \o <<c>> \o zeros
    OBVIOUS
  <2>5. /\ got \in Seq({id, c, 0}) /\ Len(got) = 5
        /\ got[1] = id /\ got[2] = c /\ got[3] = 0 /\ got[4] = 0 /\ got[5] = 0
    BY <2>2, <2>4
  <2>6. got = <<got[1], got[2], got[3], got[4], got[5]>>
    BY <2>5
  <2>7. QED
    BY <2>3, <2>4, <2>5, <2>6
<1>2. Frame(id, <<0, c>>) = <<id, 0, c, 0, 0>>
  <2>1. Len(<<0, c>>) = 2
    OBVIOUS
  <2>2. PICK zeros : zeros = [i \in 1..2 |-> 0]
    OBVIOUS
  <2>3. Frame(id, <<0, c>>) = <<id>> \o <<0, c>> \o zeros
    BY <2>1, <2>2 DEF Frame
  <2>4. PICK got : got = <<id>> \o <<0, c>> \o zeros
    OBVIOUS
  <2>5. /\ got \in Seq({id, c, 0}) /\ Len(got) = 5
        /\ got[1] = id /\ got[2] = 0 /\ got[3] = c /\ got[4] = 0 /\ got[5] = 0
    BY <2>2, <2>4
  <2>6. got = <<got[1], got[2], got[3], got[4], got[5]>>
    BY <2>5
  <2>7. QED
    BY <2>3, <2>4, <2>5, <2>6
<1>3. QED
  BY <1>1, <1>2

(* The bytes decode_control looks at.                                      *)
LEMMA FrameReads ==
    ASSUME NEW id, NEW c
    PROVE  /\ Frame(id, <<c>>)[1] = id /\ Frame(id, <<c>>)[2] = c
           /\ SubSeq(Frame(id, <<c>>), 2, 5) = <<c, 0, 0, 0>>
           /\ SubSeq(Frame(id, <<c>>), 3, 5) = <<0, 0, 0>>
           /\ Frame(id, <<0, c>>)[1] = id
           /\ SubSeq(Frame(id, <<0, c>>), 2, 5) = <<0, c, 0, 0>>
<1>1. PICK one, two : one = <<id, c, 0, 0, 0>> /\ two = <<id, 0, c, 0, 0>>
  OBVIOUS
<1>2. /\ one[1] = id /\ one[2] = c /\ SubSeq(one, 2, 5) = <<c, 0, 0, 0>>
      /\ SubSeq(one, 3, 5) = <<0, 0, 0>>
  BY <1>1, FourOf
<1>3. two[1] = id /\ SubSeq(two, 2, 5) = <<0, c, 0, 0>>
  BY <1>1, FourOf
<1>4. Frame(id, <<c>>) = one /\ Frame(id, <<0, c>>) = two
  BY <1>1, Frames
<1>5. QED
  BY <1>2, <1>3, <1>4, Zenon

(* One more mode, or none.                                                 *)
Binary == {0, 1}
Chosen(bit, mode) == IF bit = 1 THEN {mode} ELSE {}
Adds(v, u, bit, mode) == v = u \o (IF bit = 1 THEN <<mode>> ELSE <<>>)
(* At most n modes of S, those of M.                                       *)
Lists(u, S, n, M) == u \in Seq(S) /\ Len(u) <= n /\ Range(u) = M

(* One mode more, when its bit is set.                                     *)
LEMMA OneMode ==
    ASSUME NEW S, NEW n \in Nat, NEW M, NEW u, Lists(u, S, n, M),
           NEW x \in S, NEW bit \in Binary, NEW v, Adds(v, u, bit, x)
    PROVE  Lists(v, S, n + 1, M \cup Chosen(bit, x))
<1>1. u \in Seq(S) /\ Len(u) \in Nat /\ Len(u) <= n /\ Range(u) = M
  BY DEF Lists
<1>2. CASE bit = 1
  <2>1. v = u \o <<x>>
    BY <1>2 DEF Adds
  <2>2. /\ v \in Seq(S) /\ Len(v) = Len(u) + 1
        /\ DOMAIN v = 1..Len(u) + 1 /\ DOMAIN u = 1..Len(u)
        /\ \A i \in 1..Len(u) : v[i] = u[i]
        /\ v[Len(u) + 1] = x
    BY <1>1, <2>1
  <2>3. Range(v) = Range(u) \cup {x}
    BY <1>1, <2>2 DEF Range
  <2>4. Chosen(bit, x) = {x}
    BY <1>2 DEF Chosen
  <2>5. Len(v) <= n + 1
    BY <1>1, <2>2
  <2>6. QED
    BY <1>1, <2>2, <2>3, <2>4, <2>5, Zenon DEF Lists
<1>3. CASE bit # 1
  <2>1. v = u
    BY <1>1, <1>3 DEF Adds
  <2>2. Len(u) <= n + 1 /\ Chosen(bit, x) = {}
    BY <1>1, <1>3 DEF Chosen
  <2>3. QED
    BY <1>1, <2>1, <2>2 DEF Lists
<1>4. QED
  BY <1>2, <1>3

Listed(v, S, a, o, b, n, c, t, d, k) ==
    Lists(v, S, 4, {} \cup Chosen(a, o) \cup Chosen(b, n) \cup Chosen(c, t) \cup Chosen(d, k))

(* All four: the modes of the bits that are set, at most four of them.     *)
LEMMA FourModes ==
    ASSUME NEW a \in Binary, NEW b \in Binary, NEW c \in Binary, NEW d \in Binary,
           NEW S, NEW o \in S, NEW n \in S, NEW t \in S, NEW k \in S,
           NEW v1, NEW v2, NEW v3, NEW v,
           Adds(v1, <<>>, a, o), Adds(v2, v1, b, n), Adds(v3, v2, c, t), Adds(v, v3, d, k)
    PROVE  Listed(v, S, a, o, b, n, c, t, d, k)
<1>1. PICK n0, n1, n2, n3 \in Nat :
         n0 = 0 /\ n0 + 1 = n1 /\ n1 + 1 = n2 /\ n2 + 1 = n3 /\ n3 + 1 = 4
  OBVIOUS
<1>2. Lists(<<>>, S, n0, {})
  <2>1. DOMAIN <<>> = {}
    OBVIOUS
  <2>2. Range(<<>>) = {}
    BY <2>1, Zenon DEF Range
  <2>3. <<>> \in Seq(S) /\ Len(<<>>) <= n0
    BY <1>1
  <2>4. QED
    BY <2>2, <2>3, Zenon DEF Lists
<1>3. Lists(v1, S, n1, {} \cup Chosen(a, o))
  <2>1. Lists(v1, S, n0 + 1, {} \cup Chosen(a, o))
    BY <1>2, OneMode, Zenon
  <2>2. QED
    BY <1>1, <2>1, Zenon
<1>4. Lists(v2, S, n2, {} \cup Chosen(a, o) \cup Chosen(b, n))
  <2>1. Lists(v2, S, n1 + 1, {} \cup Chosen(a, o) \cup Chosen(b, n))
    BY <1>3, OneMode, Zenon
  <2>2. QED
    BY <1>1, <2>1, Zenon
<1>5. Lists(v3, S, n3, {} \cup Chosen(a, o) \cup Chosen(b, n) \cup Chosen(c, t))
  <2>1. Lists(v3, S, n2 + 1, {} \cup Chosen(a, o) \cup Chosen(b, n) \cup Chosen(c, t))
    BY <1>4, OneMode, Zenon
  <2>2. QED
    BY <1>1, <2>1, Zenon
<1>6. Lists(v, S, n3 + 1, {} \cup Chosen(a, o) \cup Chosen(b, n)
                                     \cup Chosen(c, t) \cup Chosen(d, k))
  BY <1>5, OneMode, Zenon
<1>7. QED
  BY <1>1, <1>6, Zenon DEF Listed

(* The bits of a mask.                                                     *)
LEMMA Bits ==
    ASSUME NEW a \in {0, 1}, NEW b \in {0, 1}, NEW c \in {0, 1}, NEW d \in {0, 1},
           NEW mask, mask = a + 2 * b + 4 * c + 8 * d
    PROVE  /\ mask \in 0..15
           /\ (mask \div 1) % 2 = a /\ (mask \div 2) % 2 = b
           /\ (mask \div 4) % 2 = c /\ (mask \div 8) % 2 = d
<1>1. CASE d = 0 /\ c = 0
  BY <1>1
<1>2. CASE d = 0 /\ c = 1
  BY <1>2
<1>3. CASE d = 1 /\ c = 0
  BY <1>3
<1>4. CASE d = 1 /\ c = 1
  BY <1>4
<1>5. QED
  BY <1>1, <1>2, <1>3, <1>4

(* A cycle and its mask: the mask reads back as the same modes, in the     *)
(* order of the bits.                                                      *)
LEMMA CycleReadsBack ==
    ASSUME NEW value \in Cycles, NEW v, v = listening_modes_from_mask(Mask(value))
    PROVE  Mask(value) \in 1..15 /\ v \in Cycles /\ Range(v) = Range(value)
<1> DEFINE bit(mode) == IF mode \in Range(value) THEN 1 ELSE 0
<1>1. /\ Bit["off"] = 1 /\ Bit["anc"] = 2 /\ Bit["transparency"] = 4 /\ Bit["adaptive"] = 8
      /\ DOMAIN Bit = {"off", "anc", "transparency", "adaptive"}
  BY DEF Bit
<1>2. Range(value) \subseteq DOMAIN Bit /\ Range(value) # {}
  <2>1. PICK n \in 1..4 : value \in [1..n -> DOMAIN Bit]
    BY DEF Cycles
  <2>2. DOMAIN value = 1..n /\ 1 \in 1..n /\ \A i \in 1..n : value[i] \in DOMAIN Bit
    BY <2>1
  <2>3. QED
    BY <2>2 DEF Range
<1>3. PICK a, b, c, d \in {0, 1} :
         /\ a = bit("off") /\ b = bit("anc") /\ c = bit("transparency") /\ d = bit("adaptive")
  OBVIOUS
<1>4. PICK mask : mask = Mask(value)
  OBVIOUS
<1>5. mask = a + 2 * b + 4 * c + 8 * d
  BY <1>1, <1>3, <1>4 DEF Mask
<1>6. /\ mask \in 0..15
      /\ (mask \div 1) % 2 = a /\ (mask \div 2) % 2 = b
      /\ (mask \div 4) % 2 = c /\ (mask \div 8) % 2 = d
  BY <1>5, Bits
<1>7. /\ a = 1 <=> "off" \in Range(value)
      /\ b = 1 <=> "anc" \in Range(value)
      /\ c = 1 <=> "transparency" \in Range(value)
      /\ d = 1 <=> "adaptive" \in Range(value)
  BY <1>3
<1>8. mask # 0
  BY <1>1, <1>2, <1>5, <1>7
<1>9. PICK v1, v2, v3 :
         /\ Adds(v1, <<>>, a, "off") /\ Adds(v2, v1, b, "anc")
         /\ Adds(v3, v2, c, "transparency") /\ Adds(v, v3, d, "adaptive")
  <2>1. v = (IF a = 1 THEN <<"off">> ELSE <<>>) \o (IF b = 1 THEN <<"anc">> ELSE <<>>)
            \o (IF c = 1 THEN <<"transparency">> ELSE <<>>)
            \o (IF d = 1 THEN <<"adaptive">> ELSE <<>>)
    BY <1>1, <1>4, <1>6, Zenon DEF listening_modes_from_mask
  <2>2. (IF a = 1 THEN <<"off">> ELSE <<>>) = <<>> \o (IF a = 1 THEN <<"off">> ELSE <<>>)
    OBVIOUS
  <2>3. QED
    BY <2>1, <2>2, Zenon DEF Adds
<1>10. PICK S : S = DOMAIN Bit
  OBVIOUS
<1>11. Lists(v, S, 4, {} \cup Chosen(a, "off") \cup Chosen(b, "anc")
                      \cup Chosen(c, "transparency") \cup Chosen(d, "adaptive"))
  <2>1. "off" \in S /\ "anc" \in S /\ "transparency" \in S /\ "adaptive" \in S
    BY <1>1, <1>10, Zenon
  <2>2. a \in Binary /\ b \in Binary /\ c \in Binary /\ d \in Binary
    BY DEF Binary
  <2>3. PICK o, n, t, k \in S : o = "off" /\ n = "anc" /\ t = "transparency" /\ k = "adaptive"
    BY <2>1
  <2>4. Adds(v1, <<>>, a, o) /\ Adds(v2, v1, b, n) /\ Adds(v3, v2, c, t) /\ Adds(v, v3, d, k)
    BY <1>9, <2>3, Zenon
  <2>5. Listed(v, S, a, o, b, n, c, t, d, k)
    BY <2>2, <2>4, FourModes, Zenon
  <2>6. QED
    BY <2>3, <2>5, Zenon DEF Listed
<1>12. Range(v) = Range(value)
  <2>1. /\ Chosen(a, "off") = Range(value) \cap {"off"}
        /\ Chosen(b, "anc") = Range(value) \cap {"anc"}
        /\ Chosen(c, "transparency") = Range(value) \cap {"transparency"}
        /\ Chosen(d, "adaptive") = Range(value) \cap {"adaptive"}
    BY <1>7, Zenon DEF Chosen
  <2>2. QED
    BY <1>1, <1>2, <1>11, <2>1, Zenon DEF Lists
<1>13. v \in Cycles
  <2>1. v \in Seq(S) /\ Len(v) <= 4
    BY <1>11, Zenon DEF Lists
  <2>2. v \in [1..Len(v) -> S] /\ DOMAIN v = 1..Len(v) /\ Len(v) \in Nat
    BY <2>1
  <2>3. Len(v) # 0
    <3>1. Len(v) = 0 => Range(v) = {}
      BY <2>2 DEF Range
    <3>2. QED
      BY <1>2, <1>12, <3>1, Zenon
  <2>4. Len(v) \in 1..4
    BY <2>1, <2>2, <2>3
  <2>5. QED
    BY <1>10, <2>2, <2>4, Zenon DEF Cycles
<1>14. Mask(value) \in 1..15
  BY <1>4, <1>6, <1>8
<1>15. QED
  BY <1>12, <1>13, <1>14

(* Every typed setting: its frame decodes to the value asked for.          *)
LEMMA WriteReadsBack ==
    ASSUME NEW key \in DOMAIN Id, NEW value \in Values(key),
           NEW frame, frame = encode_set_setting(key, value)
    PROVE  \E v \in Values(key) : Decodes(key, frame, v) /\ Matches(key, value, v)
<1>1. PICK id : id = Id[key]
  OBVIOUS
<1>2. CASE key = "listening_mode_cycle"
  <2>1. PICK mask, v : mask = Mask(value) /\ v = listening_modes_from_mask(mask)
    OBVIOUS
  <2>2. value \in Cycles
    BY <1>2, Zenon DEF Values
  <2>3. mask \in 1..15 /\ v \in Cycles /\ Range(v) = Range(value)
    BY <2>1, <2>2, CycleReadsBack
  <2>4. frame = Frame(id, <<mask>>)
    BY <1>1, <1>2, <2>1, Zenon DEF encode_set_setting
  <2>5. frame[1] = id /\ frame[2] = mask /\ SubSeq(frame, 3, 5) = <<0, 0, 0>>
    <3>1. /\ Frame(id, <<mask>>)[1] = id /\ Frame(id, <<mask>>)[2] = mask
          /\ SubSeq(Frame(id, <<mask>>), 3, 5) = <<0, 0, 0>>
      BY FrameReads
    <3>2. QED
      BY <2>4, <3>1, Zenon
  <2>6. Decodes(key, frame, v)
    BY <1>1, <1>2, <2>1, <2>3, <2>5, Zenon DEF Decodes
  <2>7. Matches(key, value, v) /\ v \in Values(key)
    BY <1>2, <2>3, Zenon DEF Matches, Values
  <2>8. QED
    BY <2>6, <2>7
<1>3. CASE key = "call_controls"
  <2>0. key # "listening_mode_cycle"
    BY <1>3
  <2>1. PICK code : code = Codes[key][value[1]]
    OBVIOUS
  <2>2. frame = Frame(id, <<0, code>>)
    BY <1>1, <1>3, <2>0, <2>1, Zenon DEF encode_set_setting
  <2>3. frame[1] = id /\ SubSeq(frame, 2, 5) = <<0, code, 0, 0>>
    <3>1. Frame(id, <<0, code>>)[1] = id /\ SubSeq(Frame(id, <<0, code>>), 2, 5) = <<0, code, 0, 0>>
      BY FrameReads
    <3>2. QED
      BY <2>2, <3>1, Zenon
  <2>4. Decodes(key, frame, value)
    BY <1>1, <1>3, <2>0, <2>1, <2>3, Zenon DEF Decodes
  <2>5. QED
    BY <2>0, <2>4, Zenon DEF Matches
<1>4. CASE key # "listening_mode_cycle" /\ key # "call_controls"
  <2>1. PICK code : code = Codes[key][value[1]]
    OBVIOUS
  <2>2. frame = Frame(id, <<code>>)
    BY <1>1, <1>4, <2>1, Zenon DEF encode_set_setting
  <2>3. frame[1] = id /\ SubSeq(frame, 2, 5) = <<code, 0, 0, 0>>
    <3>1. Frame(id, <<code>>)[1] = id /\ SubSeq(Frame(id, <<code>>), 2, 5) = <<code, 0, 0, 0>>
      BY FrameReads
    <3>2. QED
      BY <2>2, <3>1, Zenon
  <2>4. Decodes(key, frame, value)
    BY <1>1, <1>4, <2>1, <2>3, Zenon DEF Decodes
  <2>5. QED
    BY <1>4, <2>4, Zenon DEF Matches
<1>5. QED
  BY <1>2, <1>3, <1>4

(* What either conversation holds comes from one request and one message.  *)
WireInv ==
    /\ requested # None =>
          \E key \in DOMAIN Id : \E value \in Values(key) :
             /\ requested = [key |-> key, value |-> value]
             /\ device = encode_set_setting(key, value)
    /\ message # None => message \in Messages /\ relayed = Body(message)

(* Every frame written reads back as the setting asked for, and every      *)
(* message relayed as the fields it was made of, whatever the two names    *)
(* are (codec.rs, settings.rs).                                            *)
THEOREM WireKeeps == WireSpec => []WireKeepsMeaning
<1>1. WireInit => WireInv
  BY DEF WireInit, WireInv
<1>2. WireInv /\ [WireNext]_wvars => WireInv'
  <2> SUFFICES ASSUME WireInv, [WireNext]_wvars
               PROVE  WireInv'
    OBVIOUS
  <2>1. ASSUME NEW key \in DOMAIN Id, NEW value \in Values(key), Write(key, value)
        PROVE  WireInv'
    <3>1. /\ requested' = [key |-> key, value |-> value] /\ device' = encode_set_setting(key, value)
          /\ message' = message /\ relayed' = relayed
      BY <2>1 DEF Write, routingVars
    <3>2. QED
      BY <3>1, Zenon DEF WireInv
  <2>2. CASE Report
    BY <2>2, Zenon DEF Report, WireInv, routingVars
  <2>3. CASE Judged
    BY <2>3, Zenon DEF Judged, WireInv, routingVars
  <2>4. ASSUME NEW m \in Messages, Relay(m)
        PROVE  WireInv'
    BY <2>4, Zenon DEF Relay, WireInv, settingVars
  <2>5. CASE Delivered
    BY <2>5, Zenon DEF Delivered, WireInv, settingVars
  <2>6. CASE UNCHANGED wvars
    BY <2>6, Zenon DEF wvars, settingVars, routingVars, WireInv
  <2>7. QED
    BY <2>1, <2>2, <2>3, <2>4, <2>5, <2>6, Zenon DEF WireNext
<1>3. WireInv => KeptReadsBack
  <2> SUFFICES ASSUME WireInv, requested # None
               PROVE  \E v \in Values(requested.key) :
                         /\ Decodes(requested.key, device, v)
                         /\ Matches(requested.key, requested.value, v)
    BY DEF KeptReadsBack
  <2>0. PICK key \in DOMAIN Id :
           \E value \in Values(key) : /\ requested = [key |-> key, value |-> value]
                                      /\ device = encode_set_setting(key, value)
    BY Zenon DEF WireInv
  <2>1. PICK value \in Values(key) : /\ requested = [key |-> key, value |-> value]
                                     /\ device = encode_set_setting(key, value)
    BY <2>0
  <2>2. requested.key = key /\ requested.value = value
    BY <2>1
  <2>3. \E v \in Values(key) : Decodes(key, device, v) /\ Matches(key, value, v)
    BY <2>1, WriteReadsBack
  <2>4. QED
    BY <2>2, <2>3, Zenon
<1>4. WireInv => MessagesArrive
  <2> SUFFICES ASSUME WireInv, message # None
               PROVE  Arrives(message, relayed)
    BY DEF MessagesArrive
  <2>1. message \in Messages /\ relayed = Body(message)
    BY DEF WireInv
  <2>2. \A name \in Names : IsName(name)
    BY CodecAssumption
  <2>3. CASE message \in [kind : {"hijack"}]
    <3>1. message.kind = "hijack"
      BY <2>3
    <3>2. relayed = encode_hijack_v2
      BY <2>1, <3>1 DEF Body
    <3>3. QED
      BY <3>1, <3>2, HijackArrives
  <2>4. CASE message \in [kind : {"new_device", "new_tipi"}, bt_name : Names]
    <3>1. message.kind \in {"new_device", "new_tipi"} /\ message.bt_name \in Names
      BY <2>4
    <3>2. CASE message.kind = "new_device"
      <4>1. relayed = encode_media_info_new_device(message.bt_name)
        BY <2>1, <3>2 DEF Body
      <4>2. QED
        BY <2>2, <3>1, <3>2, <4>1, NewDeviceArrives
    <3>3. CASE message.kind = "new_tipi"
      <4>1. relayed = encode_new_tipi(message.bt_name)
        BY <2>1, <3>3 DEF Body
      <4>2. QED
        BY <2>2, <3>1, <3>3, <4>1, NewTipiArrives
    <3>4. QED
      BY <3>1, <3>2, <3>3
  <2>5. CASE message \in [kind : {"media"}, app : Names, streaming : BOOLEAN, bt_name : Names]
    <3>1. message.kind = "media" /\ message.bt_name \in Names /\ message.app \in Names
      BY <2>5
    <3>2. relayed = encode_media_info(message.app, message.streaming, message.bt_name)
      BY <2>1, <3>1 DEF Body
    <3>3. QED
      BY <2>2, <3>1, <3>2, MediaArrives
  <2>6. QED
    BY <2>1, <2>3, <2>4, <2>5, Zenon DEF Messages
<1>5. QED
  BY <1>1, <1>2, <1>3, <1>4, PTL DEF WireSpec, WireKeepsMeaning

=============================================================================
