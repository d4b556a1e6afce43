---------------------------- MODULE OrderEvents ----------------------------
(***************************************************************************)
(* The vocabulary of the order event log and its state machine, as the     *)
(* Source declares them (simulated_orders_source/events.py).  The OLTP and *)
(* the streaming consumer redeclare the same tables instead of importing   *)
(* them; OrdersOltp and OrderFolds translate those copies on their own.    *)
(*                                                                         *)
(* An event is a record                                                    *)
(*    [order_id, sequence_no, event_type, payload]                         *)
(* The rest of the envelope (event_id, wh, producer, occurred_at) is       *)
(* abstracted: event_id is sha256(order_id|sequence_no), so the pair       *)
(* <<order_id, sequence_no>> stands for it.                                *)
(***************************************************************************)
EXTENDS Integers, Sequences

CONSTANT Null   \* SQL null / Python None: a value that was never determined

LineEvents == {"order_line_substituted", "order_line_removed"}

EventTypes ==
    {"order_placed", "order_payment_authorized", "order_payment_failed",
     "order_cancelled", "order_picking_started", "order_picked",
     "order_dispatched", "order_delivered", "order_delivery_failed",
     "order_returned"} \union LineEvents

States ==
    {"PLACED", "CONFIRMED", "PICKING", "PICKED", "IN_TRANSIT", "DELIVERED",
     "PAYMENT_FAILED", "CANCELLED", "DELIVERY_FAILED", "RETURNED"}

\* States no event can leave.  DELIVERED is not one: a return may follow it.
SourceTerminal == {"PAYMENT_FAILED", "CANCELLED", "DELIVERY_FAILED", "RETURNED"}

SourceAfter ==
    [order_placed             |-> "PLACED",
     order_payment_authorized |-> "CONFIRMED",
     order_payment_failed     |-> "PAYMENT_FAILED",
     order_cancelled          |-> "CANCELLED",
     order_picking_started    |-> "PICKING",
     order_line_substituted   |-> "PICKING",
     order_line_removed       |-> "PICKING",
     order_picked             |-> "PICKED",
     order_dispatched         |-> "IN_TRANSIT",
     order_delivered          |-> "DELIVERED",
     order_delivery_failed    |-> "DELIVERY_FAILED",
     order_returned           |-> "RETURNED"]

SourceBefore ==
    [order_placed             |-> {Null},
     order_payment_authorized |-> {"PLACED"},
     order_payment_failed     |-> {"PLACED"},
     order_cancelled          |-> {"PLACED", "CONFIRMED"},
     order_picking_started    |-> {"CONFIRMED"},
     order_line_substituted   |-> {"PICKING"},
     order_line_removed       |-> {"PICKING"},
     order_picked             |-> {"PICKING"},
     order_dispatched         |-> {"PICKED"},
     order_delivered          |-> {"IN_TRANSIT"},
     order_delivery_failed    |-> {"IN_TRANSIT"},
     order_returned           |-> {"DELIVERED"}]

\* apply_transition does not raise: the event may be emitted from this state.
TransitionAllowed(state, kind) ==
    /\ kind \in EventTypes
    /\ state \notin SourceTerminal
    /\ state \in SourceBefore[kind]
=============================================================================
