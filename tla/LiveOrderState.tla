--------------------------- MODULE LiveOrderState ---------------------------
(***************************************************************************)
(* What the live_order_state read model promises, whatever transport and   *)
(* store are behind it: every row is the Silver fold of a prefix of its    *)
(* order's log, a row never goes back to a shorter prefix, and no row is   *)
(* ahead of what the OLTP has emitted.  Several rows may move at once: a   *)
(* batch is one transaction.                                               *)
(***************************************************************************)
EXTENDS OrderFolds

CONSTANTS
    Order,   \* order ids
    Log      \* [Order -> Seq(event)]: all the events each order will ever have

VARIABLES
    emitted,   \* emitted[o]: how many events of o the OLTP has committed
    live       \* live[o]: the row of o, Null while it has none

vars == << emitted, live >>

\* The row the first n events of an order amount to.
RowAt(o, n) == PrefixRow(Log[o], n)

Init ==
    /\ emitted = [o \in Order |-> 0]
    /\ live = [o \in Order |-> Null]

Emit(o) ==
    /\ emitted[o] < Len(Log[o])
    /\ emitted' = [emitted EXCEPT ![o] = @ + 1]
    /\ UNCHANGED live

\* Rows move forward, each to a prefix of its own.
Project ==
    /\ \A o \in Order :
         \E n \in LastSeq(live[o]) .. emitted[o] : live'[o] = RowAt(o, n)
    /\ live' = [o \in Order |-> live'[o]]
    /\ UNCHANGED emitted

Next == Project \/ \E o \in Order : Emit(o)

Spec == Init /\ [][Next]_vars
=============================================================================
