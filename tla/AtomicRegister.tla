--------------------------- MODULE AtomicRegister ---------------------------
(***************************************************************************)
(* What a two-slot store promises: a register that holds one complete      *)
(* payload.  A write is first proposed; from then on, and until the store  *)
(* is settled, it takes effect as a whole or not at all.  A store settles  *)
(* when a write is acknowledged or a boot has read the flash: after that   *)
(* no unacknowledged write may appear.                                     *)
(***************************************************************************)
CONSTANT Payloads

VARIABLES
    value,      \* what the controller would work with after a restart
    proposals   \* writes whose outcome nobody has been told yet

Init == value \in Payloads /\ proposals = {}

\* Until it is settled the write may also be taken back.
Propose ==
    /\ \E p \in Payloads : proposals' = proposals \cup {value, p}
    /\ value' = value

TakesEffect ==
    /\ value' \in proposals
    /\ proposals' \subseteq proposals

\* Some or all of the proposals are decided: they have taken effect already,
\* or never will.
Settle ==
    /\ proposals' \subseteq proposals
    /\ value' = value

Next == Propose \/ TakesEffect \/ Settle

Spec == Init /\ [][Next]_<<value, proposals>>
=============================================================================
