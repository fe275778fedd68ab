------------------------------- MODULE MCUpkeep -------------------------------
(* A small instance of Upkeep.                                                 *)
EXTENDS Upkeep

\* Ticks of 5 s: leases of 15 s and 30 s, renewals every 5 s, shutdowns of 10 s.
MCTtl == [p \in Process |-> IF p \in Server THEN 3 ELSE 6]

\* A source call fills two thirds of a room of three and a target call one
\* third; the target route has one slot.
MCBound == [r \in {"source", "target"} |-> IF r = "source" THEN 2 ELSE 1]
MCSlots == [r \in {"source", "target"} |-> IF r = "source" THEN 2 ELSE 1]
=============================================================================
