--------------------------- MODULE MonotonicTable ---------------------------
(***************************************************************************)
(* What the projection in Iceberg promises to whoever reads it: at every   *)
(* snapshot an order has at most one row, and from one snapshot to the     *)
(* next no order goes back, except when the table itself is dropped.       *)
(***************************************************************************)
EXTENDS Naturals

CONSTANT Order

VARIABLE reached   \* reached[o]: last_sequence_no of the row of o, 0 for none

Init == reached = [o \in Order |-> 0]

\* A commit of some writer: some orders move on.
Advance ==
    /\ reached' \in [Order -> Nat]
    /\ \A o \in Order : reached'[o] >= reached[o]

\* orders-rebuild-projection --reset
Drop == reached' = [o \in Order |-> 0]

Next == Advance \/ Drop

Spec == Init /\ [][Next]_reached
=============================================================================
