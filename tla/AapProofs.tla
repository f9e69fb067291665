----------------------------- MODULE AapProofs ------------------------------
(***************************************************************************)
(* What holds of the AAP link for every number of settings, every delay    *)
(* and however many link events, packets and commands interleave with an   *)
(* opening.  The inductive invariant Together has five parts, each proved  *)
(* to be kept by a lemma of its own:                                       *)
(*   LinkInv     the open socket is of the link the supervisor knows, and  *)
(*               an opening goes on only while that link stands;           *)
(*   DialInv     the automatic dial of a link is armed or made, not both;  *)
(*   CmdInv      a command still current was sent on this very link;       *)
(*   FreshInv    what is reported, or on its way, of a setting that was    *)
(*               not written since is what the AirPods hold;               *)
(*   SilenceInv  what the watchdogs have counted bounds the silence.       *)
(* For the types EventsInv adds that the news on its way is news of        *)
(* generations not yet reached.                                            *)
(***************************************************************************)
EXTENDS AapWatch, TLAPS

(* The generation of an opening never runs ahead of the link's, so the     *)
(* opening of an earlier link can not become current again.                *)
LinkInv ==
    /\ link_generation \in Nat /\ opening \in [kind : {"none", "Automatic", "Manual"}, generation : Nat]
    /\ dial_kind \in {"none", "Automatic", "Manual"} /\ acl \in BOOLEAN
    /\ opening.generation <= link_generation
    /\ SocketIsCurrent
    /\ at \in Opening => opening_alive

LEMMA LinkStart == AapInit => LinkInv
<1> SUFFICES ASSUME AapInit PROVE LinkInv
  OBVIOUS
<1>1. opening = [kind |-> "none", generation |-> 0] /\ at \notin Opening /\ sock = None
  BY DEF AapInit, NoDial, Opening
<1>2. opening \in [kind : {"none", "Automatic", "Manual"}, generation : Nat]
  BY <1>1
<1>3. opening.generation = 0
  BY <1>1
<1>4. acl = FALSE /\ link_generation = 0 /\ dial_kind = "none"
  BY DEF AapInit
<1>5. SocketIsCurrent
  BY <1>1 DEF SocketIsCurrent
<1>6. acl \in BOOLEAN /\ (at \in Opening => opening_alive)
  BY <1>1, <1>4
<1>7. link_generation \in Nat /\ opening.generation <= link_generation
  BY <1>3, <1>4
<1> QED BY <1>2, <1>4, <1>5, <1>6, <1>7 DEF LinkInv

LEMMA LinkStep == LinkInv /\ [AapNext]_avars => LinkInv'
<1> SUFFICES ASSUME LinkInv, [AapNext]_avars PROVE LinkInv'
  OBVIOUS
<1> USE DEF LinkInv, SocketIsCurrent, opening_alive
<1>1. CASE Environment
  BY <1>1 DEF Environment, LinkUp, LinkDown, WatchAgain, GiveUp, NewIdentity, Submit, KeepsTask, linkVars, avars
<1>2. CASE OnLink
  <2>1. CASE Head(events) = "up" /\ Connected
    BY <1>2, <2>1 DEF OnLink, on_link, Connected, Opening
  <2>2. CASE NotConnected(doc) \/ NotConnected(R!OtherDevice(doc))
    <3>1. acl' = FALSE /\ sock' = None /\ dial_kind' = "none" /\ opening' = opening
          /\ link_generation' = link_generation + 1
      BY <1>2, <2>2 DEF OnLink, NotConnected, drop_socket
    <3>2. at' \notin Opening
      BY <1>2, <3>1 DEF OnLink, Opening
    <3>3. opening'.generation <= link_generation' /\ link_generation' \in Nat
      BY <3>1
    <3> QED BY <3>1, <3>2, <3>3
  <2> QED BY <1>2, <2>1, <2>2 DEF OnLink, on_link
<1>3. CASE \/ Wait \/ Tick \/ (\E answer \in FreshAnswers : VerifyFresh(answer)) \/ VerifyReopen
  BY <1>3 DEF Wait, Tick, WatchesRun, VerifyFresh, VerifyReopen, reopen_local_link, drop_socket, linkVars, Opening
<1>4. CASE \E sent \in BOOLEAN : TickRest(sent)
  BY <1>4 DEF TickRest, on_tick, suppress_automatic, drop_socket, Opening
<1>5. CASE \/ \E answer \in FreshAnswers : authorize_dial(answer)
           \/ Dial \/ Connect
  BY <1>5 DEF authorize_dial, Suppress, suppress_automatic, drop_socket, Dial, Connect, linkVars, Opening
<1>6. CASE \E good \in BOOLEAN : Connects(good) \/ HandshakeAck(good) \/ FeaturesAck(good)
  BY <1>6 DEF Connects, HandshakeAck, FeaturesAck, Suppress, suppress_automatic, drop_socket, linkVars, Opening
<1>7. CASE Packets
  BY <1>7 DEF Packets, Battery, OtherPacket, SettingReport, PeerCloses, Heard, Suppress, suppress_automatic, drop_socket, linkVars
<1>8. CASE \/ Refused \/ Rearm \/ RearmChecked \/ RearmConnected
           \/ \E answer \in {"yes", "no", "error"} : RearmFresh(answer)
  BY <1>8 DEF Refused, Rearm, RearmChecked, RearmConnected, RearmFresh, KeepsLink, reopen_local_link, drop_socket, linkVars, Opening
<1>9. CASE \E sent, takes \in BOOLEAN : SendControl(sent) \/ SendWrite(sent, takes)
  BY <1>9 DEF SendControl, SendWrite, KeepsLink, suppress_automatic, drop_socket, linkVars
<1>10. CASE UNCHANGED avars
  BY <1>10 DEF avars, linkVars
<1> QED
  BY <1>1, <1>2, <1>3, <1>4, <1>5, <1>6, <1>7, <1>8, <1>9, <1>10
     DEF AapNext, Runtime, Asked, Opens, RunsCommand, Ticks, FreshAnswers

----------------------------------------------------------------------------
(* While the automatic dial is armed or being authorised none was made.    *)
DialInv ==
    /\ auto_dials \in {0, 1}
    /\ dial_kind = "Automatic" => auto_dials = 0
    /\ (at \in {"dial_fresh", "dial_checked"} /\ opening.kind = "Automatic" /\ opening_alive)
           => auto_dials = 0 /\ dial_kind # "Automatic"

LEMMA DialStep == LinkInv /\ LinkInv' /\ DialInv /\ [AapWatchNext]_wvars => DialInv'
<1> SUFFICES ASSUME LinkInv, LinkInv', DialInv, [AapWatchNext]_wvars PROVE DialInv'
  OBVIOUS
<1> DEFINE Same == auto_dials' = auto_dials
<1>0. ASSUME AapWatchNext, "new_link" \notin does', "attempt" \notin does' PROVE Same
  BY <1>0 DEF AapWatchNext, Watch
<1>1. CASE AapWatchNext /\ Environment
  <2>1. does' = {} /\ UNCHANGED <<linkVars, at, opening>>
    BY <1>1 DEF Environment, LinkUp, LinkDown, WatchAgain, GiveUp, NewIdentity, Submit, KeepsTask
  <2> QED BY <1>0, <1>1, <2>1 DEF DialInv, linkVars, opening_alive
<1>2. CASE AapWatchNext /\ OnLink
  <2>1. CASE acl' /\ ~acl
    <3>1. auto_dials' = 0
      BY <1>2, <2>1 DEF AapWatchNext, Watch, OnLink
    <3>2. opening' = opening /\ link_generation' = link_generation + 1
      BY <1>2, <2>1 DEF OnLink, on_link, Connected, NotConnected
    <3>3. ~opening_alive'
      BY <3>2 DEF LinkInv, opening_alive
    <3> QED BY <3>1, <3>3 DEF DialInv
  <2>2. CASE ~(acl' /\ ~acl)
    <3>1. Same
      BY <1>0, <1>2, <2>2 DEF OnLink
    <3>2. opening' = opening /\ (at' = at \/ at' = "loop")
      BY <1>2 DEF OnLink
    <3>3. CASE ~acl'
      <4>1. dial_kind' = "none" /\ ~opening_alive'
        BY <1>2, <3>3 DEF OnLink, on_link, Connected, NotConnected, opening_alive
      <4> QED BY <3>1, <4>1 DEF DialInv
    <3>4. CASE acl'
      <4>1. UNCHANGED <<acl, link_generation, dial_kind>>
        BY <1>2, <2>2, <3>4 DEF OnLink, on_link, Connected, NotConnected
      <4> QED BY <3>1, <3>2, <4>1 DEF DialInv, opening_alive
    <3> QED BY <3>3, <3>4
  <2> QED BY <2>1, <2>2
<1>3. CASE AapWatchNext /\ (\/ Wait \/ Tick \/ VerifyReopen
                            \/ \E answer \in FreshAnswers : VerifyFresh(answer))
  <2>1. /\ "new_link" \notin does' /\ "attempt" \notin does'
        /\ dial_kind' \in {dial_kind, "Manual"} /\ UNCHANGED <<acl, link_generation, opening>>
        /\ at' \notin {"dial_fresh", "dial_checked"} \/ (at' = at /\ dial_kind' = dial_kind)
    BY <1>3 DEF Wait, Tick, WatchesRun, VerifyFresh, VerifyReopen, reopen_local_link, linkVars
  <2> QED BY <1>0, <1>3, <2>1 DEF DialInv, opening_alive
<1>4. CASE AapWatchNext /\ \E sent \in BOOLEAN : TickRest(sent)
  <2>1. /\ does' = {} /\ dial_kind' \in {dial_kind, "none"}
        /\ at' \notin {"dial_fresh", "dial_checked"}
    BY <1>4 DEF TickRest, on_tick, suppress_automatic
  <2> QED BY <1>0, <1>4, <2>1 DEF DialInv
<1>5. CASE AapWatchNext /\ \E answer \in FreshAnswers : authorize_dial(answer)
  <2>1. /\ does' = {} /\ dial_kind' \in {dial_kind, "none"} /\ UNCHANGED <<acl, link_generation, opening>>
        /\ at' = "dial_checked" => dial_kind' = dial_kind /\ at = "dial_fresh"
        /\ at' # "dial_fresh"
    BY <1>5 DEF authorize_dial, Suppress, suppress_automatic, linkVars
  <2> QED BY <1>0, <1>5, <2>1 DEF DialInv, opening_alive
<1>6. CASE AapWatchNext /\ Dial
  <2>1. does' = {} /\ at' # "dial_checked"
    BY <1>6 DEF Dial
  <2>2. CASE at' = "dial_fresh"
    <3>1. opening'.kind = dial_kind /\ dial_kind' = "none"
      BY <1>6, <2>2 DEF Dial
    <3> QED BY <1>0, <1>6, <2>1, <3>1 DEF DialInv
  <2>3. CASE at' # "dial_fresh"
    <3>1. dial_kind' \in {dial_kind, "none"}
      BY <1>6 DEF Dial
    <3> QED BY <1>0, <1>6, <2>1, <2>3, <3>1 DEF DialInv
  <2> QED BY <2>2, <2>3
<1>7. CASE AapWatchNext /\ Connect
  <2>1. /\ at = "dial_checked" /\ at' \in {"connect", "loop"} /\ UNCHANGED <<linkVars, opening>>
        /\ does' = IF opening_alive THEN {"attempt"} ELSE {}
    BY <1>7 DEF Connect
  <2>2. CASE opening_alive /\ opening.kind = "Automatic"
    <3>1. auto_dials = 0 /\ dial_kind # "Automatic"
      BY <2>1, <2>2 DEF DialInv
    <3>2. auto_dials' = 1
      BY <1>7, <2>1, <2>2, <3>1 DEF AapWatchNext, Watch
    <3> QED BY <2>1, <3>1, <3>2 DEF DialInv, linkVars
  <2>3. CASE ~(opening_alive /\ opening.kind = "Automatic")
    <3>1. Same
      BY <1>7, <2>1, <2>3 DEF AapWatchNext, Watch
    <3> QED BY <2>1, <3>1 DEF DialInv, linkVars
  <2> QED BY <2>2, <2>3
<1>8. CASE AapWatchNext /\ \E good \in BOOLEAN : Connects(good) \/ HandshakeAck(good) \/ FeaturesAck(good)
  <2>1. /\ "new_link" \notin does' /\ "attempt" \notin does' /\ dial_kind' \in {dial_kind, "none"}
        /\ at' \notin {"dial_fresh", "dial_checked"}
    BY <1>8 DEF Connects, HandshakeAck, FeaturesAck, Suppress, suppress_automatic, linkVars
  <2> QED BY <1>0, <1>8, <2>1 DEF DialInv
<1>9. CASE AapWatchNext /\ Packets
  <2>1. /\ does' = {} /\ dial_kind' \in {dial_kind, "none"} /\ UNCHANGED <<acl, link_generation, opening>>
        /\ at' \notin {"dial_fresh", "dial_checked"}
    BY <1>9 DEF Packets, Battery, OtherPacket, SettingReport, PeerCloses, Receives, Heard, Suppress,
                suppress_automatic, linkVars
  <2> QED BY <1>0, <1>9, <2>1 DEF DialInv
<1>10. CASE AapWatchNext /\ (\/ Refused \/ Rearm \/ RearmChecked \/ RearmConnected
                             \/ \E answer \in {"yes", "no", "error"} : RearmFresh(answer))
  <2>1. /\ "new_link" \notin does' /\ "attempt" \notin does'
        /\ dial_kind' \in {dial_kind, "Manual"} /\ at' \notin {"dial_fresh", "dial_checked"}
    BY <1>10 DEF Refused, Rearm, RearmChecked, RearmConnected, RearmFresh, Answered, KeepsLink,
                 reopen_local_link, linkVars
  <2> QED BY <1>0, <1>10, <2>1 DEF DialInv
<1>11. CASE AapWatchNext /\ \E sent, takes \in BOOLEAN : SendControl(sent) \/ SendWrite(sent, takes)
  <2>1. /\ "new_link" \notin does' /\ "attempt" \notin does'
        /\ dial_kind' \in {dial_kind, "none"} /\ at' \notin {"dial_fresh", "dial_checked"}
    BY <1>11 DEF SendControl, SendWrite, Runs, Answered, KeepsLink, suppress_automatic, linkVars
  <2> QED BY <1>0, <1>11, <2>1 DEF DialInv
<1>12. CASE UNCHANGED wvars
  BY <1>12 DEF wvars, avars, linkVars, DialInv, opening_alive
<1> QED
  BY <1>1, <1>2, <1>3, <1>4, <1>5, <1>6, <1>7, <1>8, <1>9, <1>10, <1>11, <1>12
     DEF AapWatchNext, AapNext, Runtime, Asked, Opens, RunsCommand, Ticks, FreshAnswers

----------------------------------------------------------------------------
(* A queued or running command, and what its `current` mark vouches for.   *)
Command ==
    [kind : Kinds, key : Keys \cup {NoValue}, value : Values \cup {NoValue},
     current : BOOLEAN, wanted : BOOLEAN, generation : Nat]

CmdInv ==
    /\ cmd = NoCmd \/ cmd \in Command
    /\ cmd # NoCmd => /\ cmd.kind = "write" => cmd.key \in Keys /\ cmd.value \in Values
                      /\ cmd.current => cmd.generation = link_generation
    /\ at \in {"command_fresh", "command_checked", "command_connect"} => cmd # NoCmd

LEMMA CommandIsOne == \A c \in Command : c # NoCmd
<1> SUFFICES ASSUME NEW c \in Command, c = NoCmd PROVE FALSE
  OBVIOUS
<1>1. c.kind = "none" /\ c.kind \in Kinds
  BY DEF Command, NoCmd
<1> QED BY <1>1 DEF Kinds

LEMMA OutdatedIsOne ==
    ASSUME cmd = NoCmd \/ cmd \in Command
    PROVE  /\ cmd = NoCmd => Outdated(cmd) = NoCmd
           /\ cmd # NoCmd => /\ Outdated(cmd) \in Command /\ Outdated(cmd).current = FALSE
                             /\ Outdated(cmd).kind = cmd.kind /\ Outdated(cmd).key = cmd.key
                             /\ Outdated(cmd).value = cmd.value
<1>1. CASE cmd = NoCmd
  BY <1>1 DEF Outdated
<1>2. CASE cmd # NoCmd
  <2>1. cmd \in Command /\ Outdated(cmd) = [cmd EXCEPT !.current = FALSE]
    BY <1>2 DEF Outdated
  <2> QED BY <1>2, <2>1 DEF Command
<1> QED BY <1>1, <1>2

LEMMA CmdStart == AapInit => CmdInv
BY DEF AapInit, CmdInv

LEMMA CmdStep == LinkInv /\ CmdInv /\ [AapNext]_avars => CmdInv'
<1> SUFFICES ASSUME LinkInv, CmdInv, [AapNext]_avars PROVE CmdInv'
  OBVIOUS
<1> DEFINE Waits == {"command_fresh", "command_checked", "command_connect"}
<1>a. ASSUME cmd' = Outdated(cmd), at' \in Waits => at \in Waits PROVE CmdInv'
  <2>1. CASE cmd = NoCmd
    <3>1. cmd' = NoCmd /\ at' \notin Waits
      BY <1>a, <2>1, OutdatedIsOne DEF CmdInv
    <3> QED BY <3>1 DEF CmdInv
  <2>2. CASE cmd # NoCmd
    <3>1. cmd' \in Command /\ cmd'.current = FALSE /\ cmd'.kind = cmd.kind /\ cmd'.key = cmd.key
          /\ cmd'.value = cmd.value
      BY <1>a, <2>2, OutdatedIsOne DEF CmdInv
    <3> QED BY <2>2, <3>1, CommandIsOne DEF CmdInv
  <2> QED BY <2>1, <2>2
<1>b. ASSUME cmd' = cmd, link_generation' = link_generation, at' \in Waits => at \in Waits \/ cmd # NoCmd
      PROVE  CmdInv'
  BY <1>b DEF CmdInv
<1>c. ASSUME cmd' = NoCmd, at' \notin Waits PROVE CmdInv'
  BY <1>c DEF CmdInv
<1>1. CASE LinkUp \/ LinkDown \/ WatchAgain \/ \E device \in {"same", "other"} : NewIdentity(device)
  BY <1>b, <1>1 DEF LinkUp, LinkDown, WatchAgain, NewIdentity, KeepsTask, linkVars
<1>2. CASE GiveUp
  <2>1. cmd # NoCmd /\ cmd' = [cmd EXCEPT !.wanted = FALSE] /\ UNCHANGED <<at, link_generation>>
    BY <1>2 DEF GiveUp, KeepsTask, linkVars
  <2>2. /\ cmd' \in Command /\ cmd'.current = cmd.current /\ cmd'.generation = cmd.generation
        /\ cmd'.kind = cmd.kind /\ cmd'.key = cmd.key /\ cmd'.value = cmd.value
    BY <2>1 DEF CmdInv, Command
  <2> QED BY <2>1, <2>2, CommandIsOne DEF CmdInv
<1>3. CASE \E c \in Commands : Submit(c)
  <2>1. PICK c \in Commands : Submit(c)
    BY <1>3
  <2>2. /\ cmd' = [kind |-> c.kind, key |-> c.key, value |-> c.value,
                   current |-> TRUE, wanted |-> TRUE, generation |-> link_generation]
        /\ UNCHANGED <<at, link_generation>>
    BY <2>1 DEF Submit, KeepsTask, linkVars
  <2>3. c.kind \in Kinds /\ c.key \in Keys \cup {NoValue} /\ c.value \in Values \cup {NoValue}
        /\ (c.kind = "write" => c.key \in Keys /\ c.value \in Values)
    BY DEF Commands, Kinds
  <2>4. cmd' \in Command
    BY <2>2, <2>3 DEF LinkInv, Command
  <2>5. cmd'.kind = c.kind /\ cmd'.key = c.key /\ cmd'.value = c.value /\ cmd'.generation = link_generation
    BY <2>2
  <2> QED BY <2>2, <2>3, <2>4, <2>5, CommandIsOne DEF CmdInv
<1>4. CASE OnLink
  <2>1. at' \in Waits => at \in Waits
    BY <1>4 DEF OnLink
  <2>2. cmd' = Outdated(cmd) \/ (cmd' = cmd /\ link_generation' = link_generation)
    BY <1>4 DEF OnLink, on_link, Connected
  <2> QED BY <1>a, <1>b, <2>1, <2>2
<1>5. CASE \/ Wait \/ Tick \/ VerifyReopen
           \/ \E answer \in FreshAnswers : VerifyFresh(answer) \/ authorize_dial(answer)
  <2>1. /\ cmd' = cmd \/ cmd' = Outdated(cmd)
        /\ link_generation' = link_generation /\ (at' \in Waits => at \in Waits)
    BY <1>5 DEF Wait, Tick, WatchesRun, VerifyFresh, VerifyReopen, authorize_dial, Suppress, linkVars
  <2> QED BY <1>a, <1>b, <2>1
<1>6. CASE \E sent \in BOOLEAN : TickRest(sent)
  <2>1. /\ cmd' = cmd \/ cmd' = Outdated(cmd)
        /\ link_generation' = link_generation /\ at' \notin Waits
    BY <1>6 DEF TickRest, on_tick
  <2> QED BY <1>a, <1>b, <2>1
<1>7. CASE Opens
  <2>1. /\ cmd' = cmd \/ cmd' = Outdated(cmd)
        /\ link_generation' = link_generation /\ at' \notin Waits
    BY <1>7 DEF Opens, Dial, Connect, Connects, HandshakeAck, FeaturesAck, Suppress, linkVars
  <2> QED BY <1>a, <1>b, <2>1
<1>8. CASE Packets
  <2>1. /\ cmd' = cmd \/ cmd' = Outdated(cmd)
        /\ link_generation' = link_generation /\ at' = at
    BY <1>8 DEF Packets, Battery, OtherPacket, SettingReport, PeerCloses, Heard, Suppress, linkVars
  <2> QED BY <1>a, <1>b, <2>1
<1>9. CASE \/ Refused \/ RearmConnected
           \/ \E sent, takes \in BOOLEAN : SendControl(sent) \/ SendWrite(sent, takes)
  <2>1. cmd' = NoCmd /\ at' \notin Waits
    BY <1>9 DEF Refused, RearmConnected, SendControl, SendWrite, Runs, Answered
  <2> QED BY <1>c, <2>1
<1>10. CASE \/ Rearm \/ RearmChecked \/ \E answer \in {"yes", "no", "error"} : RearmFresh(answer)
  <2>1. \/ cmd' = NoCmd /\ at' \notin Waits
        \/ cmd' = cmd /\ link_generation' = link_generation /\ (at \in Waits \/ cmd # NoCmd)
    BY <1>10 DEF Rearm, RearmChecked, RearmFresh, Runs, Answered, KeepsLink, linkVars
  <2> QED BY <1>b, <1>c, <2>1
<1>11. CASE UNCHANGED avars
  BY <1>b, <1>11 DEF avars, linkVars
<1> HIDE DEF Waits
<1> QED
  BY <1>1, <1>2, <1>3, <1>4, <1>5, <1>6, <1>7, <1>8, <1>9, <1>10, <1>11
     DEF AapNext, Environment, Runtime, Asked, RunsCommand, Ticks, FreshAnswers

----------------------------------------------------------------------------
(* No report of this link. *)
Blank(s) == \A k \in Keys : s.reports[k] = NoValue

(* How a verdict may come about: not at all, or from a report. *)
Unjudged(s, t) ==
    /\ t \in R!ReadbackType
    /\ \A k \in Keys : t.status[k] \in {"confirmed", "mismatch"} => t.status[k] = s.status[k]
JudgedFrom(s, t) ==
    /\ t \in R!ReadbackType
    /\ \A k \in Keys :
          (t.status[k] \in {"confirmed", "mismatch"} /\ t.status[k] # s.status[k]) =>
              /\ t.reports[k] # NoValue
              /\ t.status[k] = "confirmed" <=> t.reports[k] = s.requested[k]

LEMMA Abandons ==
    ASSUME NEW s \in R!ReadbackType
    PROVE  Unjudged(s, R!abandon_verification(s)) /\ R!abandon_verification(s).reports = s.reports
           /\ R!abandon_verification(s).requested = s.requested
<1> DEFINE t == R!abandon_verification(s)
           status == [k \in Keys |-> IF s.status[k] = "verifying" THEN "unverified" ELSE s.status[k]]
<1>1. s.requested \in [Keys -> Values \cup {NoValue}] /\ s.status \in [Keys -> R!Statuses]
      /\ s.reports \in [Keys -> Values \cup {NoValue}]
  BY DEF R!ReadbackType
<1>2. status \in [Keys -> R!Statuses]
  BY <1>1 DEF R!Statuses
<1>3. t = [s EXCEPT !.status = status, !.verify = "idle", !.reopen = FALSE]
  BY DEF R!abandon_verification
<1>4. status = [k \in Keys |-> IF s.status[k] = "verifying" THEN "unverified" ELSE s.status[k]]
  OBVIOUS
<1> HIDE DEF t, status
<1>5. t \in R!ReadbackType /\ t.status = status /\ t.requested = s.requested /\ t.reports = s.reports
  BY <1>2, <1>3 DEF R!ReadbackType
<1>6. Unjudged(s, t)
  BY <1>4, <1>5 DEF Unjudged
<1> QED BY <1>5, <1>6 DEF t

LEMMA Loses ==
    ASSUME NEW s \in R!ReadbackType
    PROVE  Unjudged(s, R!link_lost(s)) /\ Blank(R!link_lost(s))
<1> DEFINE ended == [s EXCEPT !.reports = [k \in Keys |-> NoValue]]
<1>1. ended \in R!ReadbackType /\ ended.status = s.status /\ Blank(ended)
  BY DEF R!ReadbackType, Blank
<1>2. R!link_lost(s) = IF s.reopen THEN ended ELSE R!abandon_verification(ended)
  BY DEF R!link_lost
<1> HIDE DEF ended
<1>3. Unjudged(s, ended)
  BY <1>1 DEF Unjudged
<1>4. Unjudged(ended, R!abandon_verification(ended)) /\ Blank(R!abandon_verification(ended))
  BY <1>1, Abandons DEF Blank
<1>5. Unjudged(s, R!abandon_verification(ended))
  BY <1>1, <1>4 DEF Unjudged
<1> QED BY <1>1, <1>2, <1>3, <1>4, <1>5

LEMMA Finishes ==
    ASSUME NEW s \in R!ReadbackType
    PROVE  JudgedFrom(s, R!finish_verification(s)) /\ R!finish_verification(s).reports = s.reports
           /\ R!finish_verification(s).requested = s.requested
<1> DEFINE t == R!finish_verification(s)
           status == [k \in Keys |->
             IF s.status[k] \notin {"verifying", "unreported", "unverified"} THEN s.status[k]
             ELSE IF s.reports[k] # NoValue THEN R!Judged(s, k)
             ELSE IF s.status[k] = "verifying" THEN "unreported" ELSE s.status[k]]
<1>1. s.requested \in [Keys -> Values \cup {NoValue}] /\ s.status \in [Keys -> R!Statuses]
      /\ s.reports \in [Keys -> Values \cup {NoValue}]
  BY DEF R!ReadbackType
<1>2. status \in [Keys -> R!Statuses]
  BY <1>1 DEF R!Statuses, R!Judged
<1>3. t = [s EXCEPT !.status = status, !.verify = "idle", !.reopen = FALSE]
  BY DEF R!finish_verification
<1>4. status = [k \in Keys |->
             IF s.status[k] \notin {"verifying", "unreported", "unverified"} THEN s.status[k]
             ELSE IF s.reports[k] # NoValue THEN R!Judged(s, k)
             ELSE IF s.status[k] = "verifying" THEN "unreported" ELSE s.status[k]]
  OBVIOUS
<1> HIDE DEF t, status
<1>5. t \in R!ReadbackType /\ t.status = status /\ t.requested = s.requested /\ t.reports = s.reports
  BY <1>2, <1>3 DEF R!ReadbackType
<1>6. JudgedFrom(s, t)
  BY <1>4, <1>5 DEF JudgedFrom, R!Judged
<1> QED BY <1>5, <1>6 DEF t

LEMMA Reports ==
    ASSUME NEW s \in R!ReadbackType, NEW k \in Keys, NEW v \in Values
    PROVE  JudgedFrom(s, R!Reported(s, k, v))
           /\ R!Reported(s, k, v).reports = [s.reports EXCEPT ![k] = v]
<1> DEFINE told == [s EXCEPT !.reports[k] = v]
           t == R!Reported(s, k, v)
<1>1. told \in R!ReadbackType /\ told.reports = [s.reports EXCEPT ![k] = v]
      /\ told.status = s.status /\ told.requested = s.requested
  BY DEF R!ReadbackType
<1>2. t = told \/ (k = NAME_KEY /\ t = [told EXCEPT !.status[NAME_KEY] = R!Judged(told, NAME_KEY)])
  BY DEF R!Reported, R!judge_name
<1> HIDE DEF told, t
<1>3. CASE t = told
  BY <1>1, <1>3 DEF JudgedFrom, t
<1>4. CASE k = NAME_KEY /\ t = [told EXCEPT !.status[NAME_KEY] = R!Judged(told, NAME_KEY)]
  <2>1. t.reports = told.reports /\ t.requested = told.requested
        /\ t.status = [told.status EXCEPT ![k] = R!Judged(told, k)]
    BY <1>1, <1>4 DEF R!ReadbackType
  <2>2. R!Judged(told, k) \in R!Statuses
    BY DEF R!Judged, R!Statuses
  <2>3. t \in R!ReadbackType
    BY <1>1, <1>4, <2>2 DEF R!ReadbackType
  <2>4. told.reports[k] = v /\ told.status \in [Keys -> R!Statuses] /\ v # NoValue
    BY <1>1, AapAssumption DEF R!ReadbackType
  <2>5. JudgedFrom(s, t)
    BY <1>1, <2>1, <2>3, <2>4 DEF JudgedFrom, R!Judged
  <2> QED BY <1>1, <2>1, <2>5 DEF t
<1> QED BY <1>2, <1>3, <1>4

LEMMA Requests ==
    ASSUME NEW s \in R!ReadbackType, NEW k \in Keys, NEW v \in Values
    PROVE  Unjudged(s, R!Requested(s, k, v)) /\ R!Requested(s, k, v).reports = s.reports
<1> DEFINE t == R!Requested(s, k, v)
<1>1. t \in R!ReadbackType /\ t.reports = s.reports
      /\ t.status = [s.status EXCEPT ![k] = "verifying"] /\ s.status \in [Keys -> R!Statuses]
  BY DEF R!ReadbackType, R!Requested, R!Statuses
<1> HIDE DEF t
<1>2. Unjudged(s, t)
  BY <1>1 DEF Unjudged
<1> QED BY <1>1, <1>2 DEF t

LEMMA Reopens ==
    ASSUME NEW s \in R!ReadbackType
    PROVE  R!Reopening(s) \in R!ReadbackType /\ R!Reopening(s).status = s.status
BY DEF R!ReadbackType, R!Reopening

LEMMA Blanks ==
    R!NothingAsked \in R!ReadbackType /\ Blank(R!NothingAsked)
    /\ \A k \in Keys : R!NothingAsked.status[k] = "none"
BY DEF R!NothingAsked, R!ReadbackType, R!Statuses, Blank

----------------------------------------------------------------------------
(* The states in which the task is on its way to a socket.                 *)
Dialling == {"dial", "dial_fresh", "dial_checked"} \cup Opening

(* What was reported, or will be, of an unwritten setting is the truth.    *)
FreshInv ==
    /\ doc \in R!ReadbackType /\ stored \in [Keys -> Values]
    /\ dump \in [Keys -> Values \cup {NoValue}] /\ fresh \subseteq Keys
    /\ \A k \in fresh : doc.reports[k] \in {NoValue, stored[k]} /\ dump[k] \in {NoValue, stored[k]}
    /\ sock = None /\ at # "features" => Blank(doc) /\ dump = NoDump
    /\ at \in Dialling => sock = None

(* The step of VerdictIsTrue. *)
Honest ==
    \A k \in Keys :
        (doc'.status[k] \in {"confirmed", "mismatch"} /\ doc'.status[k] # doc.status[k] /\ k \in fresh)
            => (doc'.status[k] = "confirmed" <=> stored[k] = doc.requested[k])

NoNews == "dumped" \notin does' /\ "wrote" \notin does'

LEMMA FreshStays == ASSUME AapWatchNext, NoNews PROVE fresh' = fresh
BY DEF AapWatchNext, Watch, NoNews

LEMMA FreshStart == AapWatchInit => FreshInv
BY Blanks DEF AapWatchInit, AapInit, FreshInv, NoDump, Dialling, Opening

(* A step that changes neither the document nor what is on its way. *)
LEMMA Rests ==
    ASSUME FreshInv, UNCHANGED <<doc, dump, stored, fresh, sock>>,
           at' \in Dialling => sock = None,
           at' = at \/ (at # "features" /\ at' # "features") \/ sock # None
    PROVE  FreshInv' /\ Honest
<1>1. (sock = None /\ at' # "features") => Blank(doc') /\ dump' = NoDump
  BY DEF FreshInv
<1>2. Honest
  BY DEF Honest
<1>3. FreshInv'
  BY <1>1 DEF FreshInv, Blank
<1> QED BY <1>2, <1>3

(* The link is lost, for whatever reason. *)
LEMMA Drops ==
    ASSUME FreshInv, NEW s, s \in R!ReadbackType, Unjudged(doc, s), drop_socket(s),
           UNCHANGED <<stored, fresh>>
    PROVE  FreshInv' /\ Honest
<1>1. doc' = R!link_lost(s) /\ dump' = NoDump /\ sock' = None
  BY DEF drop_socket
<1>2. Unjudged(s, doc') /\ Blank(doc')
  BY <1>1, Loses
<1>3. Honest
  BY <1>2 DEF Unjudged, Honest
<1>4. doc' \in R!ReadbackType /\ dump' \in [Keys -> Values \cup {NoValue}]
      /\ \A k \in Keys : doc'.reports[k] = NoValue /\ dump'[k] = NoValue
  BY <1>1, <1>2 DEF Unjudged, Blank, NoDump
<1>5. FreshInv'
  BY <1>1, <1>2, <1>4 DEF FreshInv, Blank
<1> QED BY <1>3, <1>5

(* The document is judged or given up, with what was reported. *)
LEMMA Settles ==
    ASSUME FreshInv, JudgedFrom(doc, doc'), doc'.reports = doc.reports,
           UNCHANGED <<dump, stored, fresh, sock>>,
           at' \in Dialling => sock = None,
           at' = at \/ (at # "features" /\ at' # "features") \/ sock # None
    PROVE  FreshInv' /\ Honest
<1>1. Honest
  BY DEF JudgedFrom, Honest, FreshInv
<1>2. doc' \in R!ReadbackType
  BY DEF JudgedFrom
<1>3. FreshInv'
  BY <1>2 DEF FreshInv, Blank
<1> QED BY <1>1, <1>3

LEMMA UnjudgedIsJudged ==
    ASSUME NEW s, NEW t, Unjudged(s, t)
    PROVE  JudgedFrom(s, t)
BY DEF Unjudged, JudgedFrom

LEMMA FreshStep == LinkInv /\ CmdInv /\ FreshInv /\ [AapWatchNext]_wvars => FreshInv' /\ Honest
<1> SUFFICES ASSUME LinkInv, CmdInv, FreshInv, [AapWatchNext]_wvars PROVE FreshInv' /\ Honest
  OBVIOUS
<1>0. doc \in R!ReadbackType /\ Unjudged(doc, doc)
  BY DEF FreshInv, Unjudged
<1>1. CASE AapWatchNext /\ Environment
  <2>1. does' = {} /\ UNCHANGED <<linkVars, verifyVars, podsVars, at>>
    BY <1>1 DEF Environment, LinkUp, LinkDown, WatchAgain, GiveUp, NewIdentity, Submit, KeepsTask
  <2>2. fresh' = fresh
    BY <1>1, <2>1, FreshStays DEF NoNews
  <2> QED BY <2>1, <2>2, Rests DEF linkVars, verifyVars, podsVars, FreshInv
<1>2. CASE AapWatchNext /\ OnLink
  <2>1. fresh' = fresh /\ stored' = stored
    BY <1>2, FreshStays DEF OnLink, NoNews
  <2>2. CASE Connected /\ UNCHANGED <<sock, doc, dump>>
    <3>1. at' = at \/ at' = "loop"
      BY <1>2 DEF OnLink
    <3>2. at \in Opening => acl
      BY DEF LinkInv, opening_alive
    <3>3. at \in Opening => opening_alive'
      BY <1>2, <2>2, <3>2 DEF Connected, LinkInv, opening_alive, OnLink
    <3>4. at = "features" => at' = at
      BY <1>2, <3>3 DEF OnLink, Opening
    <3>5. at' \in Dialling => sock = None
      BY <3>1 DEF FreshInv, Dialling, Opening
    <3> QED BY <2>1, <2>2, <3>1, <3>4, <3>5, Rests
  <2>3. CASE \E s \in {doc, R!OtherDevice(doc)} : NotConnected(s)
    <3>1. Unjudged(doc, R!OtherDevice(doc)) /\ R!OtherDevice(doc) \in R!ReadbackType
      BY Blanks DEF R!OtherDevice, Unjudged
    <3> QED BY <1>0, <2>1, <2>3, <3>1, Drops DEF NotConnected
  <2> QED BY <1>2, <2>2, <2>3 DEF OnLink, on_link
<1>3. CASE AapWatchNext /\ Wait
  <2>1. does' = {} /\ UNCHANGED <<doc, podsVars, sock, at>>
    BY <1>3 DEF Wait, WatchesRun
  <2> QED BY <1>3, <2>1, FreshStays, Rests DEF podsVars, NoNews, FreshInv
<1>4. CASE AapWatchNext /\ Tick
  <2>1. does' = {"tick"} /\ UNCHANGED <<podsVars, sock>> /\ at = "loop" /\ at' \in {"verify_fresh", "tick"}
    BY <1>4 DEF Tick, WatchesRun
  <2>2. fresh' = fresh
    BY <1>4, <2>1, FreshStays DEF NoNews
  <2>3. PICK judged \in {doc, R!finish_verification(doc)} : doc' \in {judged, R!abandon_verification(judged)}
    BY <1>4 DEF Tick
  <2>4. JudgedFrom(doc, judged) /\ judged.reports = doc.reports
    BY <1>0, <2>3, Finishes, UnjudgedIsJudged
  <2>5. JudgedFrom(doc, doc') /\ doc'.reports = doc.reports
    <3>1. judged \in R!ReadbackType
      BY <2>4 DEF JudgedFrom
    <3>2. CASE doc' = judged
      BY <2>4, <3>2
    <3>3. CASE doc' = R!abandon_verification(judged)
      <4>1. Unjudged(judged, doc') /\ doc'.reports = judged.reports
        BY <3>1, <3>3, Abandons
      <4> QED BY <2>4, <4>1 DEF Unjudged, JudgedFrom
    <3> QED BY <2>3, <3>2, <3>3
  <2>6. at' \notin Dialling /\ at' # "features" /\ at # "features"
    BY <2>1 DEF Dialling, Opening
  <2> QED BY <2>1, <2>2, <2>5, <2>6, Settles DEF podsVars
<1>5. CASE AapWatchNext /\ \E answer \in FreshAnswers : VerifyFresh(answer)
  <2>1. /\ does' = {} /\ UNCHANGED <<podsVars, sock>> /\ at = "verify_fresh"
        /\ at' \in {"verify_checked", "tick"} /\ doc' \in {doc, R!abandon_verification(doc)}
    BY <1>5 DEF VerifyFresh, abandon_readback, linkVars
  <2>2. fresh' = fresh
    BY <1>5, <2>1, FreshStays DEF NoNews
  <2>3. JudgedFrom(doc, doc') /\ doc'.reports = doc.reports
    BY <1>0, <2>1, Abandons, UnjudgedIsJudged
  <2>4. at' \notin Dialling /\ at' # "features" /\ at # "features"
    BY <2>1 DEF Dialling, Opening
  <2> QED BY <2>1, <2>2, <2>3, <2>4, Settles DEF podsVars
<1>6. CASE AapWatchNext /\ VerifyReopen
  <2>1. fresh' = fresh /\ stored' = stored /\ at = "verify_checked" /\ at' = "tick"
    BY <1>6, FreshStays DEF VerifyReopen, NoNews
  <2>2. CASE acl
    <3>1. drop_socket(R!Reopening(doc))
      BY <1>6, <2>2 DEF VerifyReopen, reopen_local_link
    <3>2. R!Reopening(doc) \in R!ReadbackType /\ Unjudged(doc, R!Reopening(doc))
      BY <1>0, Reopens DEF Unjudged
    <3> QED BY <2>1, <3>1, <3>2, Drops
  <2>3. CASE ~acl
    <3>1. UNCHANGED <<sock, dump>> /\ doc' = R!abandon_verification(doc)
      BY <1>6, <2>3 DEF VerifyReopen, abandon_readback, linkVars
    <3>2. JudgedFrom(doc, doc') /\ doc'.reports = doc.reports
      BY <1>0, <3>1, Abandons, UnjudgedIsJudged
    <3>3. at' \notin Dialling /\ at' # "features" /\ at # "features"
      BY <2>1 DEF Dialling, Opening
    <3> QED BY <2>1, <3>1, <3>2, <3>3, Settles
  <2> QED BY <2>2, <2>3
<1>7. CASE AapWatchNext /\ \E sent \in BOOLEAN : TickRest(sent)
  <2>1. does' = {} /\ stored' = stored /\ at = "tick" /\ at' \in {"loop", "dial"}
    BY <1>7 DEF TickRest, on_tick
  <2>2. fresh' = fresh
    BY <1>7, <2>1, FreshStays DEF NoNews
  <2>3. PICK s \in {doc, R!abandon_verification(doc)}, sent \in BOOLEAN : on_tick(s, sent)
    BY <1>7 DEF TickRest
  <2>4. Unjudged(doc, s) /\ s \in R!ReadbackType /\ s.reports = doc.reports
    BY <1>0, <2>3, Abandons DEF Unjudged
  <2>5. CASE suppress_automatic(s)
    BY <2>1, <2>2, <2>4, <2>5, Drops DEF suppress_automatic
  <2>6. CASE doc' = s /\ UNCHANGED <<sock, dump>> /\ (at' = "dial" => sock = None)
    <3>1. at' \in Dialling => sock = None
      BY <2>1, <2>6 DEF Dialling, Opening
    <3>2. JudgedFrom(doc, doc') /\ doc'.reports = doc.reports
      BY <2>4, <2>6, UnjudgedIsJudged
    <3>3. at' # "features" /\ at # "features"
      BY <2>1
    <3> QED BY <2>1, <2>2, <2>6, <3>1, <3>2, <3>3, Settles
  <2> QED BY <2>3, <2>5, <2>6 DEF on_tick
<1>8. CASE AapWatchNext /\ (\/ \E answer \in FreshAnswers : authorize_dial(answer)
                            \/ Dial \/ Connect \/ \E good \in BOOLEAN : Connects(good))
  <2>1. does' \in {{}, {"attempt"}} /\ stored' = stored /\ at # "features" /\ at' # "features" /\ at \in Dialling
    BY <1>8 DEF authorize_dial, Dial, Connect, Connects, Suppress, podsVars, Dialling, Opening
  <2>2. fresh' = fresh
    BY <1>8, <2>1, FreshStays DEF NoNews
  <2>3. suppress_automatic(doc) \/ UNCHANGED <<doc, sock, dump>>
    BY <1>8 DEF authorize_dial, Dial, Connect, Connects, Suppress, linkVars, verifyVars, podsVars
  <2>4. sock = None
    BY <2>1 DEF FreshInv
  <2> QED BY <1>0, <2>1, <2>2, <2>3, <2>4, Drops, Rests DEF suppress_automatic
<1>9. CASE AapWatchNext /\ \E good \in BOOLEAN : HandshakeAck(good)
  <2>1. stored' = stored /\ at = "handshake"
    BY <1>9 DEF HandshakeAck, Suppress
  <2>2. CASE suppress_automatic(doc) /\ does' = {}
    <3>1. fresh' = fresh
      BY <1>9, <2>2, FreshStays DEF NoNews
    <3> QED BY <1>0, <2>1, <2>2, <3>1, Drops DEF suppress_automatic
  <2>3. CASE dump' = stored /\ at' = "features" /\ does' = {"dumped"} /\ UNCHANGED <<doc, sock>>
    <3>1. fresh' = Keys
      BY <1>9, <2>3 DEF AapWatchNext, Watch
    <3>2. sock = None /\ Blank(doc)
      BY <2>1 DEF FreshInv, Dialling, Opening
    <3>3. Honest
      BY <2>3 DEF Honest
    <3>4. dump' \in [Keys -> Values \cup {NoValue}]
      BY <2>3 DEF FreshInv
    <3> QED BY <2>1, <2>3, <3>1, <3>2, <3>3, <3>4 DEF FreshInv, Blank
  <2> QED BY <1>9, <2>2, <2>3 DEF HandshakeAck, Suppress, linkVars, verifyVars
<1>10. CASE AapWatchNext /\ \E good \in BOOLEAN : FeaturesAck(good)
  <2>1. stored' = stored /\ does' = {} /\ at' = "loop"
    BY <1>10 DEF FeaturesAck, Suppress, podsVars
  <2>2. fresh' = fresh
    BY <1>10, <2>1, FreshStays DEF NoNews
  <2>3. CASE suppress_automatic(doc)
    BY <1>0, <2>1, <2>2, <2>3, Drops DEF suppress_automatic
  <2>4. CASE UNCHANGED <<doc, dump>> /\ sock' = opening.generation
    <3>1. sock' # None
      BY <2>4 DEF LinkInv, None
    <3>2. Honest
      BY <2>4 DEF Honest
    <3> QED BY <2>1, <2>2, <2>4, <3>1, <3>2 DEF FreshInv, Dialling, Opening
  <2> QED BY <1>10, <2>3, <2>4 DEF FeaturesAck, Suppress, podsVars
<1>11. CASE AapWatchNext /\ Packets
  <2>1. does' = {} /\ stored' = stored /\ at' = at
    BY <1>11 DEF Packets, Battery, OtherPacket, SettingReport, PeerCloses, Heard, Suppress
  <2>2. fresh' = fresh
    BY <1>11, <2>1, FreshStays DEF NoNews
  <2>3. at' \in Dialling => sock = None
    BY <2>1 DEF FreshInv
  <2>4. CASE suppress_automatic(doc)
    BY <1>0, <2>1, <2>2, <2>4, Drops DEF suppress_automatic
  <2>5. CASE doc' \in {doc, R!finish_verification(doc)} /\ UNCHANGED <<sock, dump>>
    <3>1. JudgedFrom(doc, doc') /\ doc'.reports = doc.reports
      BY <1>0, <2>5, Finishes, UnjudgedIsJudged
    <3> QED BY <2>1, <2>2, <2>3, <2>5, <3>1, Settles
  <2>6. ASSUME NEW k \in Keys, SettingReport(k) PROVE FreshInv' /\ Honest
    <3>1. /\ dump[k] # NoValue /\ doc' = R!Reported(doc, k, dump[k])
          /\ dump' = [dump EXCEPT ![k] = NoValue] /\ sock' = sock
      BY <2>6 DEF SettingReport, Heard, linkVars
    <3>2. dump[k] \in Values
      BY <3>1 DEF FreshInv
    <3>3. JudgedFrom(doc, doc') /\ doc'.reports = [doc.reports EXCEPT ![k] = dump[k]]
      BY <1>0, <3>1, <3>2, Reports
    <3>4. doc' \in R!ReadbackType /\ doc.reports \in [Keys -> Values \cup {NoValue}]
          /\ dump' \in [Keys -> Values \cup {NoValue}]
      BY <3>1, <3>3 DEF JudgedFrom, FreshInv, R!ReadbackType
    <3>5. \A j \in fresh : doc'.reports[j] \in {NoValue, stored[j]} /\ dump'[j] \in {NoValue, stored[j]}
      BY <3>1, <3>3, <3>4 DEF FreshInv
    <3>6. ~(sock = None /\ at # "features")
      BY <3>1 DEF FreshInv, NoDump
    <3>7. Honest
      BY <3>3, <3>5 DEF JudgedFrom, Honest
    <3> QED BY <2>1, <2>2, <2>3, <3>1, <3>4, <3>5, <3>6, <3>7 DEF FreshInv
  <2> QED BY <1>11, <2>4, <2>5, <2>6 DEF Packets, Battery, OtherPacket, PeerCloses, Heard, Suppress,
                                         linkVars, verifyVars
<1>12. CASE AapWatchNext /\ (\/ Refused \/ Rearm \/ RearmChecked \/ RearmConnected
                             \/ \E answer \in {"yes", "no", "error"} : RearmFresh(answer))
  <2>1. /\ does' \in {{}, {"reconnect"}, {"connect_once"}} /\ stored' = stored
        /\ at \notin Opening /\ at' \notin Dialling
    BY <1>12 DEF Refused, Rearm, RearmChecked, RearmConnected, RearmFresh, Runs, Answered, KeepsLink,
                 podsVars, Dialling, Opening
  <2>2. fresh' = fresh
    BY <1>12, <2>1, FreshStays DEF NoNews
  <2>3. UNCHANGED <<doc, sock, dump>> \/ drop_socket(doc)
    BY <1>12 DEF Refused, Rearm, RearmChecked, RearmConnected, RearmFresh, KeepsLink,
                 linkVars, verifyVars, podsVars, reopen_local_link
  <2> QED BY <1>0, <2>1, <2>2, <2>3, Drops, Rests DEF Dialling, Opening
<1>13. CASE AapWatchNext /\ \E sent \in BOOLEAN : SendControl(sent)
  <2>1. does' = {} /\ stored' = stored /\ at' = at /\ at = "loop"
    BY <1>13 DEF SendControl, Runs, Answered, KeepsLink, podsVars
  <2>2. fresh' = fresh
    BY <1>13, <2>1, FreshStays DEF NoNews
  <2>3. UNCHANGED <<doc, sock, dump>> \/ drop_socket(doc)
    BY <1>13 DEF SendControl, KeepsLink, linkVars, verifyVars, podsVars, suppress_automatic
  <2> QED BY <1>0, <2>1, <2>2, <2>3, Drops, Rests DEF Dialling, Opening
<1>14. CASE AapWatchNext /\ \E sent, takes \in BOOLEAN : SendWrite(sent, takes)
  <2>1. at' = at /\ at = "loop" /\ cmd # NoCmd /\ cmd.kind = "write"
    BY <1>14 DEF SendWrite, Runs
  <2>2. CASE suppress_automatic(doc) /\ does' = {} /\ stored' = stored
    <3>1. fresh' = fresh
      BY <1>14, <2>2, FreshStays DEF NoNews
    <3> QED BY <1>0, <2>2, <3>1, Drops DEF suppress_automatic
  <2>3. CASE /\ doc' = R!Requested(doc, cmd.key, cmd.value) /\ does' = {"wrote"}
             /\ stored' \in {stored, [stored EXCEPT ![cmd.key] = cmd.value]} /\ UNCHANGED <<sock, dump>>
    <3>1. fresh' = fresh \ {cmd.key}
      BY <1>14, <2>3 DEF AapWatchNext, Watch
    <3>2. cmd.key \in Keys /\ cmd.value \in Values
      BY <2>1 DEF CmdInv
    <3>3. Unjudged(doc, doc') /\ doc'.reports = doc.reports
      BY <1>0, <2>3, <3>2, Requests
    <3>4. stored' \in [Keys -> Values] /\ \A k \in fresh' : stored'[k] = stored[k]
      BY <2>3, <3>1, <3>2 DEF FreshInv
    <3>5. Honest
      BY <3>3 DEF Unjudged, Honest
    <3>6. doc' \in R!ReadbackType
      BY <3>3 DEF Unjudged
    <3> QED BY <2>1, <2>3, <3>1, <3>3, <3>4, <3>5, <3>6 DEF FreshInv, Blank
  <2> QED BY <1>14, <2>2, <2>3 DEF SendWrite, Answered, linkVars
<1>15. CASE UNCHANGED wvars
  BY <1>15, Rests DEF wvars, avars, linkVars, verifyVars, podsVars, FreshInv
<1> QED
  BY <1>1, <1>2, <1>3, <1>4, <1>5, <1>6, <1>7, <1>8, <1>9, <1>10, <1>11, <1>12, <1>13, <1>14, <1>15
     DEF AapWatchNext, AapNext, Runtime, Asked, Opens, RunsCommand, Ticks, FreshAnswers

----------------------------------------------------------------------------
(* Between the start of a tick, which counts, and its end, which judges.   *)
Ticking == {"verify_fresh", "verify_checked", "tick"}

WatchType ==
    /\ handshake_at \in {None} \cup 0..BATTERY_WATCHDOG
    /\ last_packet \in {None} \cup 0..IDLE_TIMEOUT
    /\ idle_probe_at \in {None} \cup 0..IDLE_PROBE_GRACE
    /\ notif_resends \in 0..MAX_NOTIF_RESENDS
    /\ battery_seen \in BOOLEAN /\ silence \in Nat

(* The silence is bounded by what the watchdogs have counted: the resends  *)
(* and the handshake timer until a battery report came, then the idle time *)
(* and the probe.  Outside a tick each bound is strict, or the last tick   *)
(* would have acted.                                                       *)
Resent == notif_resends * BATTERY_WATCHDOG
SilenceInv ==
    /\ WatchType
    /\ sock = None => silence = 0
    /\ sock # None => /\ handshake_at # None /\ last_packet # None
                      /\ silence <= last_packet \/ last_packet = IDLE_TIMEOUT
    /\ (sock # None /\ ~battery_seen) =>
          /\ silence <= Resent + handshake_at
          /\ at \notin Ticking => silence < Resent + BATTERY_WATCHDOG
    /\ (sock # None /\ battery_seen /\ idle_probe_at = None) =>
          /\ silence <= IDLE_TIMEOUT
          /\ at \notin Ticking => silence < IDLE_TIMEOUT
    /\ (sock # None /\ battery_seen /\ idle_probe_at # None) =>
          /\ silence <= IDLE_TIMEOUT + idle_probe_at
          /\ at \notin Ticking => silence < IDLE_TIMEOUT + IDLE_PROBE_GRACE

LEMMA Products ==
    /\ \A n \in Nat : n * BATTERY_WATCHDOG \in Nat
                      /\ (n + 1) * BATTERY_WATCHDOG = n * BATTERY_WATCHDOG + BATTERY_WATCHDOG
    /\ \A n, m \in Nat : n <= m => n * BATTERY_WATCHDOG <= m * BATTERY_WATCHDOG
<1> DEFINE B == BATTERY_WATCHDOG
<1>1. B \in Nat
  BY AapAssumption
<1> HIDE DEF B
<1>2. \A n \in Nat : n * B \in Nat /\ (n + 1) * B = n * B + B
  BY <1>1
<1>3. \A n, m \in Nat : n <= m => n * B <= m * B
  BY <1>1
<1> QED BY <1>2, <1>3 DEF B

LEMMA SilenceStart == AapWatchInit => SilenceInv
<1> SUFFICES ASSUME AapWatchInit PROVE SilenceInv
  OBVIOUS
<1>1. handshake_at = None /\ battery_seen = FALSE /\ notif_resends = 0 /\ last_packet = None
      /\ idle_probe_at = None /\ sock = None /\ silence = 0
  BY DEF AapWatchInit, AapInit
<1>2. 0 \in 0..MAX_NOTIF_RESENDS /\ 0 \in Nat
  BY AapAssumption
<1>3. WatchType
  BY <1>1, <1>2 DEF WatchType
<1> QED BY <1>1, <1>3 DEF SilenceInv

LEMMA Bounds ==
    /\ BATTERY_WATCHDOG \in Nat /\ IDLE_TIMEOUT \in Nat /\ IDLE_PROBE_GRACE \in Nat
    /\ MAX_NOTIF_RESENDS \in Nat
    /\ BATTERY_WATCHDOG > 0 /\ IDLE_TIMEOUT > 0 /\ IDLE_PROBE_GRACE > 0
BY AapAssumption, WatchdogAssumption

(* What may follow a step that hears from the AirPods or closes the link.  *)
LEMMA Heeds ==
    ASSUME WatchType', silence' = 0, sock' # None => handshake_at' # None /\ last_packet' # None
    PROVE  SilenceInv'
<1>1. Resent' \in Nat
  <2>1. notif_resends' \in Nat
    BY Bounds DEF WatchType
  <2>2. notif_resends' * BATTERY_WATCHDOG \in Nat
    BY <2>1, Products
  <2> QED BY <2>2 DEF Resent
<1>2. handshake_at' # None => handshake_at' \in Nat
  BY Bounds DEF WatchType
<1>3. last_packet' # None => last_packet' \in Nat
  BY Bounds DEF WatchType
<1>4. idle_probe_at' # None => idle_probe_at' \in Nat
  BY Bounds DEF WatchType
<1>5. sock' # None => silence' <= Resent' + handshake_at' /\ silence' < Resent' + BATTERY_WATCHDOG
  <2>1. \A r, h \in Nat : 0 <= r + h /\ 0 < r + BATTERY_WATCHDOG
    BY Bounds
  <2> QED BY <1>1, <1>2, <2>1
<1>6. sock' # None => silence' <= last_packet'
  BY <1>3
<1>7. silence' <= IDLE_TIMEOUT /\ silence' < IDLE_TIMEOUT /\ silence' < IDLE_TIMEOUT + IDLE_PROBE_GRACE
  BY Bounds
<1>8. idle_probe_at' # None => silence' <= IDLE_TIMEOUT + idle_probe_at'
  BY <1>4, Bounds
<1> QED BY <1>5, <1>6, <1>7, <1>8 DEF SilenceInv

(* A step that leaves the watches alone and ends no tick.                  *)
LEMMA Ignores ==
    ASSUME SilenceInv, Watch, UNCHANGED <<sock, watchVars>>, "tick" \notin does',
           at \in Ticking => at' \in Ticking
    PROVE  SilenceInv'
<1>1. UNCHANGED <<handshake_at, battery_seen, notif_resends, last_packet, idle_probe_at>>
  BY DEF watchVars
<1>2. silence' = silence \/ silence' = 0
  BY DEF Watch
<1>3. silence' \in Nat
  BY <1>2 DEF SilenceInv, WatchType
<1>4. WatchType' /\ (sock' # None => handshake_at' # None /\ last_packet' # None)
  BY <1>1, <1>3 DEF SilenceInv, WatchType
<1>5. CASE silence' = 0
  BY <1>4, <1>5, Heeds
<1>6. CASE silence' = silence
  <2>1. Resent' = Resent
    BY <1>1 DEF Resent
  <2> QED BY <1>1, <1>4, <1>6, <2>1, Zenon DEF SilenceInv
<1> QED BY <1>2, <1>5, <1>6

(* The socket is gone.                                                     *)
LEMMA Closes ==
    ASSUME SilenceInv, Watch, NEW d, drop_socket(d), last_packet' = last_packet
    PROVE  SilenceInv'
<1>1. sock' = None /\ silence' = 0
  BY DEF Watch, drop_socket
<1>2. 0 \in 0..MAX_NOTIF_RESENDS /\ 0 \in Nat
  BY Bounds
<1>3. WatchType'
  BY <1>1, <1>2 DEF SilenceInv, WatchType, drop_socket
<1> QED BY <1>1, <1>3, Heeds

LEMMA TimePasses ==
    ASSUME WatchType, WatchesRun, silence' \in Nat
    PROVE  /\ WatchType' /\ UNCHANGED <<sock, battery_seen, notif_resends>> /\ Resent' = Resent
           /\ handshake_at # None => /\ handshake_at' # None /\ handshake_at <= handshake_at'
                                     /\ handshake_at' = handshake_at + 1 \/ handshake_at' = BATTERY_WATCHDOG
           /\ last_packet # None => /\ last_packet' # None /\ last_packet <= last_packet'
                                    /\ last_packet' = last_packet + 1 \/ last_packet' = IDLE_TIMEOUT
           /\ idle_probe_at = None => idle_probe_at' = None
           /\ idle_probe_at # None => /\ idle_probe_at' # None /\ idle_probe_at <= idle_probe_at'
                                      /\ \/ idle_probe_at' = idle_probe_at + 1
                                         \/ idle_probe_at' = IDLE_PROBE_GRACE
<1>1. \A most \in Nat : \A t \in {None} \cup 0..most :
         /\ Up(t, most) \in {None} \cup 0..most
         /\ t = None => Up(t, most) = None
         /\ t # None => /\ Up(t, most) # None /\ t <= Up(t, most)
                        /\ (Up(t, most) = t + 1 \/ Up(t, most) = most)
  BY DEF Up, None
<1>2. /\ handshake_at' = Up(handshake_at, BATTERY_WATCHDOG)
      /\ last_packet' = Up(last_packet, IDLE_TIMEOUT)
      /\ idle_probe_at' = Up(idle_probe_at, IDLE_PROBE_GRACE)
      /\ UNCHANGED <<sock, battery_seen, notif_resends>>
  BY DEF WatchesRun
<1>3. Resent' = Resent
  BY <1>2 DEF Resent
<1>4. WatchType'
  BY <1>1, <1>2, Bounds DEF WatchType
<1> HIDE DEF Up
<1> QED BY <1>1, <1>2, <1>3, <1>4, Bounds DEF WatchType

(* Time passes at a tick, which counts, or while the task awaits.          *)
LEMMA Elapses ==
    ASSUME SilenceInv, WatchesRun,
           \/ silence' \in {silence, 0} /\ at' = at
           \/ silence' = silence + 1 /\ sock # None /\ at \notin Ticking /\ at' \in Ticking
           \/ silence' = 0 /\ at' \in Ticking
    PROVE  SilenceInv'
<1> DEFINE More == silence' = silence + 1 /\ sock # None /\ at \notin Ticking /\ at' \in Ticking
           Less == silence' <= silence /\ (at' \notin Ticking => at \notin Ticking)
<1>1. WatchType /\ silence \in Nat
  BY DEF SilenceInv, WatchType
<1>2. silence' \in Nat /\ (More \/ Less)
  BY <1>1
<1>0. /\ \A s, a, x, y, most \in Nat :
            (s <= a + x /\ s < a + most /\ x <= y /\ (y = x + 1 \/ y = most)) => s + 1 <= a + y
      /\ \A s, t, a, x, y \in Nat : (s <= a + x /\ x <= y /\ t <= s) => t <= a + y
  OBVIOUS
<1>3. WatchType' /\ UNCHANGED <<sock, battery_seen>> /\ Resent' = Resent
  BY <1>1, <1>2, TimePasses
<1>4. Resent \in Nat
  BY <1>1, Products, Bounds DEF WatchType, Resent
<1>5. sock = None => silence' = 0
  BY DEF SilenceInv
<1>6. ASSUME sock # None
      PROVE  /\ handshake_at' # None /\ last_packet' # None
             /\ (silence' <= last_packet' \/ last_packet' = IDLE_TIMEOUT)
  <2>1. last_packet # None /\ handshake_at # None /\ (silence <= last_packet \/ last_packet = IDLE_TIMEOUT)
    BY <1>6 DEF SilenceInv
  <2>2. /\ handshake_at' # None /\ last_packet' # None /\ last_packet <= last_packet'
        /\ (last_packet' = last_packet + 1 \/ last_packet' = IDLE_TIMEOUT)
    BY <1>1, <1>2, <2>1, TimePasses
  <2>3. last_packet \in Nat /\ last_packet' \in Nat /\ last_packet' <= IDLE_TIMEOUT
    BY <1>1, <1>3, <2>1, <2>2, Bounds DEF WatchType
  <2>4. silence' = silence + 1 \/ Less
    BY <1>2
  <2> QED BY <1>1, <1>2, <2>1, <2>2, <2>3, <2>4, Bounds
<1>7. ASSUME sock # None, silence <= Resent + handshake_at,
             at \notin Ticking => silence < Resent + BATTERY_WATCHDOG
      PROVE  /\ silence' <= Resent + handshake_at'
             /\ at' \notin Ticking => silence' < Resent + BATTERY_WATCHDOG
  <2>1. handshake_at # None
    BY <1>7 DEF SilenceInv
  <2>2. /\ handshake_at' # None /\ handshake_at <= handshake_at'
        /\ (handshake_at' = handshake_at + 1 \/ handshake_at' = BATTERY_WATCHDOG)
    BY <1>1, <1>2, <2>1, TimePasses
  <2>3. handshake_at \in Nat /\ handshake_at' \in Nat
    BY <1>1, <1>3, <2>1, <2>2, Bounds DEF WatchType
  <2>4. silence' <= Resent + handshake_at'
    <3>1. CASE More
      <4>1. silence < Resent + BATTERY_WATCHDOG
        BY <1>7, <3>1
      <4>2. silence + 1 <= Resent + handshake_at'
        BY <1>0, <1>1, <1>4, <1>7, <2>2, <2>3, <4>1, Bounds, Zenon
      <4> QED BY <3>1, <4>2
    <3>2. CASE Less
      BY <1>0, <1>1, <1>2, <1>4, <1>7, <2>2, <2>3, <3>2, Zenon
    <3> QED BY <1>2, <3>1, <3>2
  <2>5. (at' \notin Ticking /\ Less) => silence' < Resent + BATTERY_WATCHDOG
    BY <1>1, <1>2, <1>4, <1>7, Bounds
  <2> QED BY <1>2, <2>4, <2>5
<1>8. ASSUME silence <= IDLE_TIMEOUT, at \notin Ticking => silence < IDLE_TIMEOUT
      PROVE  silence' <= IDLE_TIMEOUT /\ (at' \notin Ticking => silence' < IDLE_TIMEOUT)
  BY <1>1, <1>2, <1>8, Bounds
<1>9. ASSUME idle_probe_at # None, silence <= IDLE_TIMEOUT + idle_probe_at,
             at \notin Ticking => silence < IDLE_TIMEOUT + IDLE_PROBE_GRACE
      PROVE  /\ silence' <= IDLE_TIMEOUT + idle_probe_at'
             /\ at' \notin Ticking => silence' < IDLE_TIMEOUT + IDLE_PROBE_GRACE
  <2>1. /\ idle_probe_at' # None /\ idle_probe_at <= idle_probe_at'
        /\ (idle_probe_at' = idle_probe_at + 1 \/ idle_probe_at' = IDLE_PROBE_GRACE)
    BY <1>1, <1>2, <1>9, TimePasses
  <2>2. idle_probe_at \in Nat /\ idle_probe_at' \in Nat
    BY <1>1, <1>3, <1>9, <2>1, Bounds DEF WatchType
  <2>3. silence' <= IDLE_TIMEOUT + idle_probe_at'
    <3>1. CASE More
      <4>1. silence < IDLE_TIMEOUT + IDLE_PROBE_GRACE
        BY <1>9, <3>1
      <4>2. silence + 1 <= IDLE_TIMEOUT + idle_probe_at'
        BY <1>0, <1>1, <1>9, <2>1, <2>2, <4>1, Bounds, Zenon
      <4> QED BY <3>1, <4>2
    <3>2. CASE Less
      BY <1>0, <1>1, <1>2, <1>9, <2>1, <2>2, <3>2, Bounds, Zenon
    <3> QED BY <1>2, <3>1, <3>2
  <2>4. (at' \notin Ticking /\ Less) => silence' < IDLE_TIMEOUT + IDLE_PROBE_GRACE
    BY <1>1, <1>2, <1>9, Bounds
  <2> QED BY <1>2, <2>3, <2>4
<1>10. idle_probe_at' = None <=> idle_probe_at = None
  BY <1>1, <1>2, TimePasses
<1> HIDE DEF More, Less
<1> QED BY <1>3, <1>5, <1>6, <1>7, <1>8, <1>9, <1>10 DEF SilenceInv

LEMMA SilenceStep == LinkInv /\ FreshInv /\ SilenceInv /\ [AapWatchNext]_wvars => SilenceInv'
<1> SUFFICES ASSUME LinkInv, FreshInv, SilenceInv, [AapWatchNext]_wvars PROVE SilenceInv'
  OBVIOUS
<1>0. AapWatchNext => Watch
  BY DEF AapWatchNext
<1>z. ASSUME AapWatchNext, WatchType', silence' = 0,
             sock' # None => handshake_at' # None /\ last_packet' # None PROVE SilenceInv'
  BY <1>z, Heeds
<1>1. CASE AapWatchNext /\ Environment
  <2>1. "tick" \notin does' /\ UNCHANGED <<linkVars, at, watchVars>>
    BY <1>1 DEF Environment, LinkUp, LinkDown, WatchAgain, GiveUp, NewIdentity, Submit, KeepsTask
  <2> QED BY <1>0, <1>1, <2>1, Ignores DEF linkVars
<1>2. CASE AapWatchNext /\ OnLink
  <2>1. "tick" \notin does' /\ (at \in Ticking => at' \in Ticking)
    BY <1>2 DEF OnLink, Ticking, Opening
  <2>2. CASE UNCHANGED <<sock, watchVars>>
    BY <1>0, <1>2, <2>1, <2>2, Ignores
  <2>3. ASSUME NEW d, drop_socket(d), last_packet' = last_packet PROVE SilenceInv'
    BY <1>0, <1>2, <2>3, Closes
  <2> QED BY <1>2, <2>2, <2>3 DEF OnLink, on_link, NotConnected
<1>3. CASE AapWatchNext /\ Wait
  <2>1. WatchesRun /\ at' = at /\ "tick" \notin does'
    BY <1>3 DEF Wait
  <2>2. silence' \in {silence, 0}
    BY <1>0, <1>3, <2>1 DEF Watch
  <2> QED BY <2>1, <2>2, Elapses
<1>4. CASE AapWatchNext /\ Tick
  <2>1. WatchesRun /\ at \notin Ticking /\ at' \in Ticking /\ sock' = sock
    BY <1>4 DEF Tick, WatchesRun, Ticking
  <2>2. silence' = 0 \/ (silence' = silence + 1 /\ sock # None)
    BY <1>0, <1>4, <2>1 DEF Watch, Tick
  <2> QED BY <2>1, <2>2, Elapses
<1>5. CASE AapWatchNext /\ \/ VerifyReopen
                           \/ \E answer \in FreshAnswers : VerifyFresh(answer)
  <2>1. "tick" \notin does' /\ (at \in Ticking => at' \in Ticking)
    BY <1>5 DEF VerifyReopen, VerifyFresh, Ticking
  <2>2. CASE UNCHANGED <<linkVars, watchVars>>
    BY <1>0, <1>5, <2>1, <2>2, Ignores DEF linkVars
  <2>3. ASSUME NEW d, drop_socket(d), last_packet' = last_packet PROVE SilenceInv'
    BY <1>0, <1>5, <2>3, Closes
  <2> QED BY <1>5, <2>2, <2>3 DEF VerifyReopen, VerifyFresh, reopen_local_link
<1>6. ASSUME AapWatchNext, NEW sent \in BOOLEAN, TickRest(sent) PROVE SilenceInv'
  <2>1. "tick" \notin does' /\ at' \notin Ticking
    BY <1>6 DEF TickRest, on_tick, Ticking
  <2>2. CASE sock = None /\ UNCHANGED <<sock, watchVars>>
    <3>1. WatchType' /\ silence' = 0
      BY <1>0, <1>6, <2>1, <2>2 DEF SilenceInv, WatchType, Watch, watchVars
    <3> QED BY <1>6, <1>z, <2>2, <3>1
  <2>3. ASSUME NEW d, drop_socket(d), last_packet' = last_packet PROVE SilenceInv'
    BY <1>0, <1>6, <2>3, Closes
  <2>w. silence' \in {silence, 0} /\ silence' \in Nat /\ silence \in Nat /\ Resent \in Nat
    <3>1. silence' \in {silence, 0}
      BY <1>0, <1>6, <2>1 DEF Watch
    <3>2. silence \in Nat /\ notif_resends \in Nat
      BY Bounds DEF SilenceInv, WatchType
    <3> QED BY <3>1, <3>2, Products DEF Resent
  <2>x. sock # None => /\ handshake_at \in Nat /\ handshake_at <= BATTERY_WATCHDOG
                       /\ last_packet \in Nat /\ last_packet # None /\ handshake_at # None
    BY Bounds DEF SilenceInv, WatchType
  <2>4. CASE /\ sock # None /\ no_battery /\ notif_resends < MAX_NOTIF_RESENDS
             /\ notif_resends' = notif_resends + 1 /\ handshake_at' = 0
             /\ UNCHANGED <<sock, battery_seen, last_packet, idle_probe_at>>
    <3>1. notif_resends \in 0..MAX_NOTIF_RESENDS
      BY DEF SilenceInv, WatchType
    <3>2. notif_resends' \in 0..MAX_NOTIF_RESENDS /\ 0 \in 0..BATTERY_WATCHDOG /\ 0 # None
      BY <2>4, <3>1, Bounds DEF None
    <3>3. WatchType'
      BY <2>4, <2>w, <3>2 DEF SilenceInv, WatchType
    <3>4. notif_resends \in Nat
      BY <3>1, Bounds
    <3>5. Resent' = Resent + BATTERY_WATCHDOG
      BY <2>4, <3>4, Products DEF Resent
    <3>6. ~battery_seen /\ silence <= Resent + handshake_at
      BY <2>4 DEF no_battery, SilenceInv
    <3>7. silence' <= Resent' + handshake_at' /\ silence' < Resent' + BATTERY_WATCHDOG
      <4>1. handshake_at' = 0
        BY <2>4
      <4>2. silence' <= silence
        BY <2>w
      <4>3. handshake_at \in Nat /\ handshake_at <= BATTERY_WATCHDOG
        BY <2>4, <2>x
      <4> QED BY <2>w, <3>5, <3>6, <4>1, <4>2, <4>3, Bounds
    <3>8. silence' <= last_packet' \/ last_packet' = IDLE_TIMEOUT
      <4>1. last_packet' = last_packet /\ last_packet \in Nat
        BY <2>4, <2>x
      <4>2. silence <= last_packet \/ last_packet = IDLE_TIMEOUT
        BY <2>4 DEF SilenceInv
      <4> QED BY <2>w, <4>1, <4>2
    <3> QED BY <2>4, <2>x, <3>2, <3>3, <3>6, <3>7, <3>8, Zenon DEF SilenceInv
  <2>5. CASE /\ sock # None /\ ~no_battery /\ idle_decision = "Nothing"
             /\ UNCHANGED <<sock, watchVars>>
    <3>0. UNCHANGED <<handshake_at, battery_seen, notif_resends, last_packet, idle_probe_at>>
      BY <2>5 DEF watchVars
    <3>1. WatchType'
      BY <2>w, <3>0 DEF SilenceInv, WatchType
    <3>2. CASE silence' = 0
      BY <1>6, <1>z, <2>5, <2>x, <3>0, <3>1, <3>2
    <3>3. CASE silence' = silence
      <4>1. Resent' = Resent
        BY <3>0 DEF Resent
      <4>2. (~battery_seen /\ silence <= Resent + handshake_at) => silence < Resent + BATTERY_WATCHDOG
        <5>1. ~battery_seen => handshake_at < BATTERY_WATCHDOG
          BY <2>5, <2>x, Bounds DEF no_battery
        <5>2. (handshake_at < BATTERY_WATCHDOG /\ silence <= Resent + handshake_at)
                 => silence < Resent + BATTERY_WATCHDOG
          BY <2>5, <2>w, <2>x, Bounds
        <5> QED BY <5>1, <5>2
      <4>3. idle_probe_at = None => silence < IDLE_TIMEOUT
        <5> SUFFICES ASSUME idle_probe_at = None PROVE silence < IDLE_TIMEOUT
          OBVIOUS
        <5>1. ~(last_packet >= IDLE_TIMEOUT)
          BY <2>5 DEF idle_decision
        <5>2. silence <= last_packet \/ last_packet = IDLE_TIMEOUT
          BY <2>5 DEF SilenceInv
        <5>3. last_packet \in Nat
          BY <2>5, <2>x
        <5> QED BY <2>w, <5>1, <5>2, <5>3, Bounds
      <4>4. (idle_probe_at # None /\ silence <= IDLE_TIMEOUT + idle_probe_at)
               => silence < IDLE_TIMEOUT + IDLE_PROBE_GRACE
        <5> SUFFICES ASSUME idle_probe_at # None, silence <= IDLE_TIMEOUT + idle_probe_at
                     PROVE  silence < IDLE_TIMEOUT + IDLE_PROBE_GRACE
          OBVIOUS
        <5>1. ~(idle_probe_at >= IDLE_PROBE_GRACE)
          BY <2>5 DEF idle_decision
        <5>2. idle_probe_at \in Nat
          BY Bounds DEF SilenceInv, WatchType
        <5> QED BY <2>w, <5>1, <5>2, Bounds
      <4> QED BY <2>5, <3>0, <3>1, <3>3, <4>1, <4>2, <4>3, <4>4, Zenon DEF SilenceInv
    <3> QED BY <2>w, <3>2, <3>3
  <2>6. CASE /\ sock # None /\ ~no_battery /\ idle_decision = "Probe" /\ idle_probe_at' = 0
             /\ UNCHANGED <<sock, handshake_at, battery_seen, notif_resends, last_packet>>
    <3>0. 0 \in 0..IDLE_PROBE_GRACE /\ 0 # None
      BY Bounds DEF None
    <3>1. WatchType'
      BY <2>6, <2>w, <3>0 DEF SilenceInv, WatchType
    <3>2. CASE silence' = 0
      BY <1>6, <1>z, <2>6, <2>x, <3>1, <3>2
    <3>3. CASE silence' = silence
      <4>1. Resent' = Resent
        BY <2>6 DEF Resent
      <4>2. (~battery_seen /\ silence <= Resent + handshake_at) => silence < Resent + BATTERY_WATCHDOG
        <5>1. ~battery_seen => handshake_at < BATTERY_WATCHDOG
          BY <2>6, <2>x, Bounds DEF no_battery
        <5>2. (handshake_at < BATTERY_WATCHDOG /\ silence <= Resent + handshake_at)
                 => silence < Resent + BATTERY_WATCHDOG
          BY <2>6, <2>w, <2>x, Bounds
        <5> QED BY <5>1, <5>2
      <4>3. idle_probe_at = None
        BY <2>6 DEF idle_decision
      <4>4. silence <= IDLE_TIMEOUT => /\ silence <= IDLE_TIMEOUT + idle_probe_at'
                                       /\ silence < IDLE_TIMEOUT + IDLE_PROBE_GRACE
        <5>1. idle_probe_at' = 0
          BY <2>6
        <5> QED BY <2>w, <5>1, Bounds
      <4> QED BY <2>6, <3>0, <3>1, <3>3, <4>1, <4>2, <4>3, <4>4, Zenon DEF SilenceInv
    <3> QED BY <2>w, <3>2, <3>3
  <2> QED
    BY <1>6, <2>2, <2>3, <2>4, <2>5, <2>6 DEF TickRest, on_tick, suppress_automatic, LinkInv, SocketIsCurrent
<1>7. CASE AapWatchNext /\ \/ Dial \/ Connect
                           \/ \E answer \in FreshAnswers : authorize_dial(answer)
  <2>1. "tick" \notin does' /\ at \notin Ticking
    BY <1>7 DEF Dial, Connect, authorize_dial, Ticking
  <2>2. CASE UNCHANGED <<sock, watchVars>>
    BY <1>0, <1>7, <2>1, <2>2, Ignores
  <2>3. ASSUME NEW d, drop_socket(d), last_packet' = last_packet PROVE SilenceInv'
    BY <1>0, <1>7, <2>3, Closes
  <2> QED BY <1>7, <2>2, <2>3 DEF Dial, Connect, authorize_dial, Suppress, suppress_automatic, linkVars
<1>8. ASSUME AapWatchNext, NEW good \in BOOLEAN, Connects(good) \/ HandshakeAck(good) \/ FeaturesAck(good)
      PROVE  SilenceInv'
  <2>1. sock = None
    BY <1>8 DEF FreshInv, Dialling, Opening, Connects, HandshakeAck, FeaturesAck
  <2>2. ASSUME NEW d, drop_socket(d), last_packet' = last_packet PROVE SilenceInv'
    BY <1>0, <1>8, <2>2, Closes
  <2>3. CASE /\ battery_seen' = FALSE /\ notif_resends' = 0
             /\ UNCHANGED <<sock, handshake_at, last_packet, idle_probe_at>>
    <3>1. silence' = 0
      BY <1>0, <1>8, <2>1, <2>3 DEF Watch
    <3>2. 0 \in 0..MAX_NOTIF_RESENDS /\ 0 \in Nat
      BY Bounds
    <3>3. WatchType'
      BY <2>3, <3>1, <3>2 DEF SilenceInv, WatchType
    <3> QED BY <1>8, <1>z, <2>1, <2>3, <3>1, <3>3
  <2>4. CASE /\ last_packet' = 0 /\ idle_probe_at' = None
             /\ UNCHANGED <<sock, handshake_at, battery_seen, notif_resends>>
    <3>1. silence' = 0
      BY <1>0, <1>8, <2>4 DEF Watch
    <3>2. 0 \in 0..IDLE_TIMEOUT /\ 0 \in Nat
      BY Bounds
    <3>3. WatchType'
      BY <2>4, <3>1, <3>2 DEF SilenceInv, WatchType
    <3> QED BY <1>8, <1>z, <2>1, <2>4, <3>1, <3>3
  <2>5. CASE /\ handshake_at' = 0 /\ last_packet' = 0
             /\ UNCHANGED <<battery_seen, notif_resends, idle_probe_at>>
    <3>1. silence' = 0
      BY <1>0, <1>8, <2>5 DEF Watch
    <3>2. 0 \in 0..IDLE_TIMEOUT /\ 0 \in 0..BATTERY_WATCHDOG /\ 0 \in Nat /\ 0 # None
      BY Bounds DEF None
    <3>3. WatchType'
      BY <2>5, <3>1, <3>2 DEF SilenceInv, WatchType
    <3> QED BY <1>8, <1>z, <2>5, <3>1, <3>2, <3>3
  <2> QED
    BY <1>8, <2>2, <2>3, <2>4, <2>5
       DEF Connects, HandshakeAck, FeaturesAck, Suppress, suppress_automatic, linkVars
<1>9. CASE AapWatchNext /\ (Battery \/ OtherPacket \/ \E k \in Keys : SettingReport(k))
  <2>1. /\ last_packet' = 0 /\ idle_probe_at' = None /\ UNCHANGED <<sock, handshake_at, notif_resends>>
        /\ battery_seen' \in {battery_seen, TRUE}
    BY <1>9 DEF Battery, OtherPacket, SettingReport, Heard, linkVars
  <2>2. silence' = 0
    BY <1>0, <1>9, <2>1 DEF Watch
  <2>3. 0 \in 0..IDLE_TIMEOUT /\ 0 \in Nat /\ 0 # None
    BY Bounds DEF None
  <2>4. WatchType'
    BY <2>1, <2>2, <2>3 DEF SilenceInv, WatchType
  <2>5. sock' # None => handshake_at' # None /\ last_packet' # None
    BY <2>1, <2>3 DEF SilenceInv
  <2> QED BY <1>9, <1>z, <2>2, <2>4, <2>5
<1>10. CASE AapWatchNext /\ PeerCloses
  <2>1. drop_socket(doc) /\ last_packet' = last_packet
    BY <1>10 DEF PeerCloses, Suppress, suppress_automatic
  <2> QED BY <1>0, <1>10, <2>1, Closes
<1>11. CASE AapWatchNext /\ (\/ Refused \/ Rearm \/ RearmChecked \/ RearmConnected
                             \/ \E answer \in {"yes", "no", "error"} : RearmFresh(answer))
  <2>1. "tick" \notin does' /\ at \notin Ticking
    BY <1>11 DEF Refused, Rearm, RearmChecked, RearmConnected, RearmFresh, Runs, Answered, Ticking
  <2>2. CASE UNCHANGED <<linkVars, watchVars>>
    BY <1>0, <1>11, <2>1, <2>2, Ignores DEF linkVars
  <2>3. ASSUME NEW d, drop_socket(d), last_packet' = last_packet PROVE SilenceInv'
    BY <1>0, <1>11, <2>3, Closes
  <2> QED
    BY <1>11, <2>2, <2>3
       DEF Refused, Rearm, RearmChecked, RearmConnected, RearmFresh, KeepsLink, reopen_local_link
<1>12. CASE AapWatchNext /\ \E sent, takes \in BOOLEAN : SendControl(sent) \/ SendWrite(sent, takes)
  <2>1. "tick" \notin does' /\ at \notin Ticking
    BY <1>12 DEF SendControl, SendWrite, Runs, Answered, Ticking
  <2>2. CASE UNCHANGED <<linkVars, watchVars>>
    BY <1>0, <1>12, <2>1, <2>2, Ignores DEF linkVars
  <2>3. ASSUME NEW d, drop_socket(d), last_packet' = last_packet PROVE SilenceInv'
    BY <1>0, <1>12, <2>3, Closes
  <2> QED BY <1>12, <2>2, <2>3 DEF SendControl, SendWrite, KeepsLink, suppress_automatic
<1>13. CASE UNCHANGED wvars
  <2>1. UNCHANGED <<at, sock, handshake_at, battery_seen, notif_resends, last_packet, idle_probe_at, silence>>
    BY <1>13 DEF wvars, avars, linkVars, watchVars
  <2> QED BY <2>1, Zenon DEF SilenceInv, WatchType, Resent
<1> QED
  BY <1>1, <1>2, <1>3, <1>4, <1>5, <1>6, <1>7, <1>8, <1>9, <1>10, <1>11, <1>12, <1>13
     DEF AapWatchNext, AapNext, Packets, Runtime, Asked, Opens, RunsCommand, Ticks, FreshAnswers

----------------------------------------------------------------------------
Together == LinkInv /\ DialInv /\ CmdInv /\ FreshInv /\ SilenceInv

LEMMA AapAlways == AapWatchSpec => []Together
<1>1. AapWatchInit => Together
  BY LinkStart, CmdStart, FreshStart, SilenceStart DEF AapWatchInit, AapInit, Together, DialInv
<1>2. Together /\ [AapWatchNext]_wvars => Together'
  <2> SUFFICES ASSUME Together, [AapWatchNext]_wvars PROVE Together'
    OBVIOUS
  <2>1. [AapNext]_avars
    BY DEF AapWatchNext, wvars
  <2> QED BY <2>1, LinkStep, DialStep, CmdStep, FreshStep, SilenceStep DEF Together
<1> QED BY <1>1, <1>2, PTL DEF AapWatchSpec

(* What the other invariants leave out: every link event on its way makes  *)
(* at most one new link.                                                   *)
EventsInv ==
    /\ link \in BOOLEAN /\ late \in BOOLEAN
    /\ events \in Seq({"up", "down", "same", "other"})
    /\ link_generation + Len(events) <= MaxGeneration

LEMMA EventsStep == ASSUME LinkInv, EventsInv, [AapNext]_avars PROVE EventsInv'
<1>0. /\ link \in BOOLEAN /\ late \in BOOLEAN /\ link_generation \in Nat /\ MaxGeneration \in Nat
      /\ events \in Seq({"up", "down", "same", "other"})
      /\ link_generation + Len(events) <= MaxGeneration
  BY AapAssumption DEF LinkInv, EventsInv
<1>1. ASSUME NEW ev \in {"up", "down", "same", "other"}, Post(ev), link' \in BOOLEAN,
             UNCHANGED <<late, link_generation>>
      PROVE  EventsInv'
  BY <1>0, <1>1 DEF Post, EventsInv
<1>2. ASSUME UNCHANGED <<link, late, link_generation, events>> PROVE EventsInv'
  BY <1>0, <1>2 DEF EventsInv
<1>3. CASE Environment
  <2>1. UNCHANGED <<late, link_generation>>
    BY <1>3 DEF Environment, LinkUp, LinkDown, WatchAgain, GiveUp, NewIdentity, Submit, KeepsTask, linkVars
  <2> QED BY <1>0, <1>1, <1>2, <1>3, <2>1
         DEF Environment, LinkUp, LinkDown, WatchAgain, GiveUp, NewIdentity, Submit, bluezVars
<1>4. CASE OnLink
  <2>1. /\ events # <<>> /\ events' = Tail(events) /\ UNCHANGED <<link, late>>
        /\ link_generation' \in {link_generation, link_generation + 1}
    BY <1>4 DEF OnLink, on_link, Connected, NotConnected
  <2>2. events' \in Seq({"up", "down", "same", "other"}) /\ Len(events') = Len(events) - 1
    BY <1>0, <2>1
  <2> QED BY <1>0, <2>1, <2>2 DEF EventsInv
<1>5. CASE Ticks
  <2>1. late' \in BOOLEAN /\ UNCHANGED <<link, link_generation, events>>
    BY <1>5 DEF Ticks, Tick, TickRest, WatchesRun, tick_verification, bluezVars
  <2> QED BY <1>0, <2>1 DEF EventsInv
<1>6. CASE UNCHANGED avars \/ Packets \/ Asked \/ Opens \/ RunsCommand \/ VerifyReopen \/ Wait
  BY <1>2, <1>6
     DEF avars, bluezVars, linkVars, Packets, Battery, OtherPacket, SettingReport, PeerCloses,
         Heard, Asked, VerifyFresh, authorize_dial, RearmFresh, Opens, Dial, Connect, Connects,
         HandshakeAck, FeaturesAck, RunsCommand, Refused, Rearm, RearmChecked, RearmConnected,
         SendControl, SendWrite, KeepsLink, Suppress, VerifyReopen, Wait, WatchesRun
<1> QED BY <1>3, <1>4, <1>5, <1>6 DEF AapNext, Runtime

(* The types of the link's state, for any settings and delays: the socket  *)
(* is of a link that was, and what is published of the readback is well    *)
(* formed, whatever is reported, given up or lost (store.rs 309-361).      *)
THEOREM AapTypeCorrect == AapWatchSpec => []AapTypeOK
<1>1. AapWatchInit => EventsInv
  <2>1. AapWatchInit => link = FALSE /\ late = FALSE /\ events = <<>> /\ link_generation = 0
    BY DEF AapWatchInit, AapInit
  <2>2. <<>> \in Seq({"up", "down", "same", "other"})
    OBVIOUS
  <2>3. Len(<<>>) = 0
    OBVIOUS
  <2>4. MaxGeneration \in Nat
    BY AapAssumption
  <2>5. 0 + 0 <= MaxGeneration
    BY <2>4
  <2> SUFFICES ASSUME AapWatchInit PROVE EventsInv
    OBVIOUS
  <2>6. link \in BOOLEAN /\ late \in BOOLEAN /\ events \in Seq({"up", "down", "same", "other"})
    BY <2>1, <2>2
  <2>7. Len(events) = 0 /\ link_generation = 0
    BY <2>1, <2>3
  <2>8. link_generation + Len(events) <= MaxGeneration
    BY <2>5, <2>7
  <2> QED BY <2>6, <2>8 DEF EventsInv
<1>2. Together /\ EventsInv /\ [AapWatchNext]_wvars => EventsInv'
  BY EventsStep DEF AapWatchNext, wvars, Together
<1>3. Together /\ EventsInv => AapTypeOK
  <2> SUFFICES ASSUME Together, EventsInv PROVE AapTypeOK
    OBVIOUS
  <2>1. link_generation \in 0..MaxGeneration
    BY AapAssumption DEF Together, LinkInv, EventsInv
  <2>2. sock \in {None} \cup 0..MaxGeneration
    BY <2>1 DEF Together, LinkInv, SocketIsCurrent
  <2> QED BY <2>1, <2>2 DEF Together, LinkInv, FreshInv, SilenceInv, WatchType, EventsInv, AapTypeOK
<1> QED BY <1>1, <1>2, <1>3, AapAlways, PTL DEF AapWatchSpec

(* No socket outlives the link it was dialled for: for any delays and      *)
(* however many link events an opening meets (session.rs opening_alive,    *)
(* drop_socket).                                                           *)
THEOREM SocketStaysCurrent == AapWatchSpec => []SocketIsCurrent
<1>1. Together => SocketIsCurrent
  BY DEF Together, LinkInv
<1> QED BY <1>1, AapAlways, PTL

(* A link that comes up is dialled for once without being asked, whatever  *)
(* fails or drops it again (session.rs suppress_automatic, dial).          *)
THEOREM OneUnattendedDial == AapWatchSpec => []OneAutomaticDial
<1>1. Together => OneAutomaticDial
  BY DEF Together, DialInv, OneAutomaticDial
<1> QED BY <1>1, AapAlways, PTL

(* A reconnect or a connect-once takes effect only while its client waits  *)
(* and on the link it was sent for, however long it was queued or BlueZ    *)
(* took to answer (session.rs command_is_current, rearm_manual).           *)
THEOREM CommandsActOnTheirLink == AapWatchSpec => CommandActsOnItsLink
<1>1. Together /\ [AapWatchNext]_wvars =>
         [does' \cap {"reconnect", "connect_once"} # {} =>
             cmd.wanted /\ cmd.generation = link_generation]_wvars
  <2> SUFFICES ASSUME Together, AapWatchNext, does' \cap {"reconnect", "connect_once"} # {}
               PROVE  cmd.wanted /\ cmd.generation = link_generation
    OBVIOUS
  <2>1. RearmChecked /\ command_is_current
    BY DEF AapWatchNext, AapNext, Environment, LinkUp, LinkDown, WatchAgain, GiveUp, NewIdentity,
           Submit, KeepsTask, Packets, Battery, OtherPacket, SettingReport, PeerCloses, Heard,
           Runtime, OnLink, Asked, VerifyFresh, authorize_dial, RearmFresh, Opens, Dial, Connect,
           Connects, HandshakeAck, FeaturesAck, RunsCommand, Refused, Rearm, RearmChecked,
           RearmConnected, SendControl, SendWrite, Answered, Ticks, Tick, TickRest, VerifyReopen, Wait
  <2>2. cmd # NoCmd
    BY <2>1 DEF RearmChecked, Together, CmdInv
  <2> QED BY <2>1, <2>2 DEF command_is_current, Together, CmdInv
<1> QED BY <1>1, AapAlways, PTL DEF AapWatchSpec, CommandActsOnItsLink

(* A verdict from a report that was sent after the write says what the     *)
(* AirPods hold, across reopened links, given-up readbacks and writes that *)
(* overtake one another (store.rs finish_verification, link_lost).         *)
THEOREM VerdictsAreTrue == AapWatchSpec => VerdictIsTrue
<1>1. Together /\ [AapWatchNext]_wvars =>
         [\A k \in Keys :
             (doc'.status[k] \in {"confirmed", "mismatch"} /\ doc'.status[k] # doc.status[k]
                  /\ k \in fresh) =>
                 (doc'.status[k] = "confirmed" <=> stored[k] = doc.requested[k])]_wvars
  BY FreshStep DEF Together, Honest
<1> QED BY <1>1, AapAlways, PTL DEF AapWatchSpec, VerdictIsTrue

(* An open link that stays silent is dropped, or heard from, within the    *)
(* idle time and the grace of its probe, for every setting of the timers   *)
(* under which the battery watchdog has spent its resends before the link  *)
(* counts as idle (session.rs on_tick 1349-1389).                          *)
THEOREM SilenceEnds == AapWatchSpec => []SilenceBounded
<1>1. Together => SilenceBounded
  <2> SUFFICES ASSUME Together, at = "loop" PROVE silence < IDLE_TIMEOUT + IDLE_PROBE_GRACE
    BY DEF SilenceBounded
  <2>1. SilenceInv /\ at \notin Ticking
    BY DEF Together, Ticking
  <2>2. silence \in Nat /\ notif_resends \in Nat /\ notif_resends <= MAX_NOTIF_RESENDS
    BY <2>1, Bounds DEF SilenceInv, WatchType
  <2>3. 0 < IDLE_TIMEOUT + IDLE_PROBE_GRACE
        /\ (silence < IDLE_TIMEOUT => silence < IDLE_TIMEOUT + IDLE_PROBE_GRACE)
    BY <2>2, Bounds
  <2>4. silence < Resent + BATTERY_WATCHDOG => silence < IDLE_TIMEOUT
    <3> DEFINE most == MAX_NOTIF_RESENDS * BATTERY_WATCHDOG
    <3>1. Resent \in Nat /\ most \in Nat /\ Resent <= most
      BY <2>2, Products, Bounds, Zenon DEF Resent
    <3>2. most + BATTERY_WATCHDOG <= IDLE_TIMEOUT
      BY WatchdogAssumption
    <3> HIDE DEF most
    <3> QED BY <2>2, <3>1, <3>2, Bounds
  <2>5. CASE sock = None
    BY <2>1, <2>3, <2>5 DEF SilenceInv
  <2>6. CASE sock # None
    BY <2>1, <2>3, <2>4, <2>6, Zenon DEF SilenceInv
  <2> QED BY <2>5, <2>6
<1> QED BY <1>1, AapAlways, PTL
=============================================================================
