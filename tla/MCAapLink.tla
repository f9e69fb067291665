----------------------------- MODULE MCAapLink ------------------------------
EXTENDS AapWatch, TLC
Symmetry == Permutations(Values)
(* What no later step reads is not told apart: the age of the last packet  *)
(* without a socket, the dial that is over, the generation of a command    *)
(* that does not act on the link.                                          *)
Read(c) == IF c = NoCmd \/ c.kind \in {"reconnect", "connect_once"} THEN c
           ELSE [c EXCEPT !.generation = 0]
AapView ==
    <<bluezVars, linkVars, at, late, handshake_at, battery_seen, notif_resends, idle_probe_at,
      verifyVars, podsVars, auto_dials, fresh, silence,
      IF sock = None THEN None ELSE last_packet,
      IF at \in {"dial_fresh", "dial_checked"} \cup Opening THEN opening ELSE NoDial,
      Read(cmd)>>
=============================================================================
