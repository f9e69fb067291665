------------------------------ MODULE OnePager ------------------------------
(***************************************************************************)
(* What the two reconnect policies promise together: at any time at most   *)
(* one of them owns the paging of the AirPods, for a bounded number of     *)
(* pages, and only a drop hands the paging over, always to the rejoin.     *)
(* It is also what the snapshot publishes as the link activity             *)
(* (aap/session.rs publish_link): an owner and an attempt count.           *)
(***************************************************************************)
EXTENDS Naturals

CONSTANT Limit          \* pages per ownership of each policy

VARIABLES owner, tries

Init == owner = "nobody" /\ tries = 0

(* A drop schedules a rejoin, whoever was paging. *)
Drop == owner' = "rejoin" /\ tries' = 0

(* An advert after an absence schedules a page; a fallback slot pages at once. *)
Arrive == owner = "nobody" /\ owner' = "auto" /\ tries' \in {0, 1}

Page ==
    /\ owner # "nobody" /\ tries < Limit[owner]
    /\ tries' = tries + 1
    /\ UNCHANGED owner

End == owner # "nobody" /\ owner' = "nobody" /\ tries' = 0

Next == Drop \/ Arrive \/ Page \/ End

Spec == Init /\ [][Next]_<<owner, tries>>

=============================================================================
