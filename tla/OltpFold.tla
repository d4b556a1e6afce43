------------------------------ MODULE OltpFold ------------------------------
(***************************************************************************)
(* The state writes of one event in the OLTP: `plan` of orders_oltp.py.    *)
(*                                                                         *)
(* An order is Null until order_placed, then a record of its `orders` row  *)
(* and its `order_line` rows.  PlanHolds says that every statement of the  *)
(* plan affects the rows it expects and every Check reads the value it     *)
(* expects; PlanEffect is the order after those statements.  A plan that   *)
(* does not hold raises and its transaction rolls back.                    *)
(*                                                                         *)
(* Quantities are 1, as in OrderLog.                                       *)
(***************************************************************************)
EXTENDS OrderEvents, FiniteSets

\* `plan` knows order_placed and the types of these two tables.
OltpBefore ==
    [order_payment_authorized |-> {"PLACED"},
     order_payment_failed     |-> {"PLACED"},
     order_cancelled          |-> {"PLACED", "CONFIRMED"},
     order_picking_started    |-> {"CONFIRMED"},
     order_line_substituted   |-> {"PICKING"},
     order_line_removed       |-> {"PICKING"},
     order_picked             |-> {"PICKING"},
     order_dispatched         |-> {"PICKED"},
     order_delivered          |-> {"IN_TRANSIT"},
     order_delivery_failed    |-> {"IN_TRANSIT"},
     order_returned           |-> {"DELIVERED"}]

OltpAfter ==
    [order_payment_authorized |-> "CONFIRMED",
     order_payment_failed     |-> "PAYMENT_FAILED",
     order_cancelled          |-> "CANCELLED",
     order_picking_started    |-> "PICKING",
     order_line_substituted   |-> "PICKING",
     order_line_removed       |-> "PICKING",
     order_picked             |-> "PICKED",
     order_dispatched         |-> "IN_TRANSIT",
     order_delivered          |-> "DELIVERED",
     order_delivery_failed    |-> "DELIVERY_FAILED",
     order_returned           |-> "RETURNED"]

LineStatuses == {"placed", "fulfilled", "substituted", "removed", "not_picked"}

\* A row of order_line, and an order with its lines, numbered from 1.
LineRow == [status : LineStatuses, line_amount : Nat]

OrderRow ==
    [status : States, last_sequence_no : Nat, line_count : Nat, gross_amount : Nat,
     picked_line_count : Nat \union {Null}, net_amount : Nat \union {Null},
     returned_amount : Nat, lines : Seq(LineRow)]

ASSUME NoOrderAssumption == Null \notin OrderRow

\* The payload fields the plan writes into a table are numbers.
IsReadable(event) ==
    LET kind    == event.event_type
        payload == event.payload
    IN  /\ event.sequence_no \in Nat \ {0}
        /\ kind = "order_placed" =>
             /\ {payload.line_count, payload.gross_amount} \subseteq Nat
             /\ payload.lines \in Seq(Nat)
        /\ kind = "order_line_substituted" => payload.substitute_unit_price \in Nat
        /\ kind = "order_picked" => payload.picked_line_count \in Nat
        /\ kind = "order_returned" => payload.returned_amount \in Nat

\* The lines of a set of line rows that are in a status.
InStatus(lines, status) == {l \in DOMAIN lines : lines[l].status = status}

LineSum(lines) ==
    LET upTo[n \in 0 .. Len(lines)] ==
            IF n = 0 THEN 0 ELSE upTo[n - 1] + lines[n].line_amount
    IN  upTo[Len(lines)]

\* update order_line set ... where status = from
Relabelled(lines, from, line(_)) ==
    [l \in DOMAIN lines |-> IF lines[l].status = from THEN line(lines[l]) ELSE lines[l]]

\* Mutant of InsertedOrder: net_amount starts as what was ordered.
InsertedOrderWithNet(event) ==
    [status            |-> "PLACED",
     last_sequence_no  |-> event.sequence_no,
     line_count        |-> event.payload.line_count,
     gross_amount      |-> event.payload.gross_amount,
     picked_line_count |-> Null,
     net_amount        |-> event.payload.gross_amount,
     returned_amount   |-> 0,
     lines             |-> [l \in DOMAIN event.payload.lines |->
                              [status      |-> "placed",
                               line_amount |-> event.payload.lines[l]]]]

\* order_placed: one row in orders, one per line in order_line.
InsertedOrder(event) ==
    [status            |-> "PLACED",
     last_sequence_no  |-> event.sequence_no,
     line_count        |-> event.payload.line_count,
     gross_amount      |-> event.payload.gross_amount,
     picked_line_count |-> Null,
     net_amount        |-> Null,
     returned_amount   |-> 0,
     lines             |-> [l \in DOMAIN event.payload.lines |->
                              [status      |-> "placed",
                               line_amount |-> event.payload.lines[l]]]]

\* Mutant of CanAdvance: a delivered order is closed, as in TERMINAL_STATES.
CanAdvanceUntilDelivered(order, event) ==
    /\ order # Null
    /\ order.last_sequence_no = event.sequence_no - 1
    /\ order.status \in OltpBefore[event.event_type] \ {"DELIVERED"}

\* The where clause of _ADVANCE: the order guard and the state guard together.
CanAdvance(order, event) ==
    /\ order # Null
    /\ order.last_sequence_no = event.sequence_no - 1
    /\ order.status \in OltpBefore[event.event_type]

\* The row _advance leaves.
Advanced(order, event) ==
    [order EXCEPT !.status           = OltpAfter[event.event_type],
                  !.last_sequence_no = event.sequence_no]

\* _RECOMPUTE_NET: net_amount is the sum of the lines as they now are.
NetRecomputed(order) == [order EXCEPT !.net_amount = LineSum(order.lines)]

\* The lines after order_picked turns the untouched ones into fulfilled ones.
PickedLines(lines) ==
    Relabelled(lines, "placed", LAMBDA line : [line EXCEPT !.status = "fulfilled"])

\* Mutant of ClosedLines: a line status outside the vocabulary.
ClosedLinesMisnamed(lines) ==
    Relabelled(lines, "placed",
               LAMBDA line : [status |-> "cancelled", line_amount |-> 0])

\* Mutant of ClosedLines: the amounts of the lines stay.
ClosedLinesWithAmount(lines) ==
    Relabelled(lines, "placed", LAMBDA line : [line EXCEPT !.status = "not_picked"])

\* The lines of an order that died before picking.
ClosedLines(lines) ==
    Relabelled(lines, "placed",
               LAMBDA line : [status |-> "not_picked", line_amount |-> 0])

PlanHolds(order, event) ==
    LET kind == event.event_type
    IN  CASE kind = "order_placed" -> order = Null
          [] kind \in LineEvents ->
               /\ CanAdvance(order, event)
               /\ event.payload.line_no \in InStatus(order.lines, "placed")
          [] kind = "order_picked" ->
               /\ CanAdvance(order, event)
               /\ LineSum(PickedLines(order.lines)) = event.payload.picked_amount
               /\ Cardinality(DOMAIN order.lines \ InStatus(order.lines, "removed"))
                    = event.payload.picked_line_count
          [] OTHER -> kind \in DOMAIN OltpAfter /\ CanAdvance(order, event)

PlanEffect(order, event) ==
    LET kind == event.event_type
        next == Advanced(order, event)
    IN  CASE kind = "order_placed" -> InsertedOrder(event)
          [] kind = "order_line_substituted" ->
               NetRecomputed([next EXCEPT !.lines[event.payload.line_no] =
                   [status      |-> "substituted",
                    line_amount |-> event.payload.substitute_unit_price]])
          [] kind = "order_line_removed" ->
               NetRecomputed([next EXCEPT !.lines[event.payload.line_no] =
                   [status |-> "removed", line_amount |-> 0]])
          [] kind = "order_picked" ->
               NetRecomputed([next EXCEPT
                   !.picked_line_count = event.payload.picked_line_count,
                   !.lines             = PickedLines(@)])
          [] kind = "order_returned" ->
               [next EXCEPT !.returned_amount = event.payload.returned_amount]
          [] kind \in {"order_cancelled", "order_payment_failed"} ->
               [next EXCEPT !.lines = ClosedLines(@)]
          [] OTHER -> next

\* The order that a sequence of events amounts to, Null when there is none.
OrderAfter(events) ==
    LET after[n \in 0 .. Len(events)] ==
            IF n = 0 THEN Null ELSE PlanEffect(after[n - 1], events[n])
    IN  after[Len(events)]
=============================================================================
