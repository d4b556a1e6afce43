--------------------------- MODULE MCOrdersStream ---------------------------
(***************************************************************************)
(* Logs for OrdersStream, taken from the lifecycles the source writes.     *)
(***************************************************************************)
EXTENDS OrdersStream

CONSTANTS o1, o2

Source == INSTANCE OrderLog
    WITH Line <- {1}, Price <- << 3 >>, SubstitutePrice <- << 4 >>

MCFate(outcome, line) == [outcome |-> outcome, lines |-> << line >>, returned |-> 1]

\* Two payments refused: the fewest events with one behind another, twice.
MCRefusedLog ==
    [o \in {o1, o2} |-> Source!Lifecycle(o, MCFate("payment_failed", "fulfilled"))]

MCPartitionEach == [o \in {o1, o2} |-> IF o = o1 THEN "q1" ELSE "q2"]

\* One order, cancelled.
MCCancelledLog == [o \in {o1} |-> Source!Lifecycle(o, MCFate("cancelled", "fulfilled"))]

MCOneOrder == [o \in {o1} |-> "q1"]
=============================================================================
