----------------------------- MODULE OrderFolds -----------------------------
(***************************************************************************)
(* Two independent ways of turning an order's events into its state.       *)
(*                                                                         *)
(*   decide, fold_event   the streaming fold: previous row + one event     *)
(*                        (platform orders_stream.py)                      *)
(*   SilverOrder          the batch fold: one query over the whole log     *)
(*                        (dbt model silver_order.sql)                     *)
(*                                                                         *)
(* A row keeps the columns `reconcile` compares plus events_applied and    *)
(* returned_amount; the timestamps and the columns copied from the first   *)
(* event are abstracted.                                                   *)
(***************************************************************************)
EXTENDS OrderEvents, FiniteSets, FiniteSetsExt

Verdicts == {"apply", "duplicate", "gap"}

\* Mutant of StateAfter: one state spelt otherwise than in the vocabulary.
StateAfterMisspelt ==
    [SourceAfter EXCEPT !.order_payment_failed = "FAILED"]

\* The read model's vocabulary, redeclared by the consumer.
StateAfter ==
    [order_placed             |-> "PLACED",
     order_payment_authorized |-> "CONFIRMED",
     order_payment_failed     |-> "PAYMENT_FAILED",
     order_cancelled          |-> "CANCELLED",
     order_picking_started    |-> "PICKING",
     order_line_substituted   |-> "PICKING",
     order_line_removed       |-> "PICKING",
     order_picked             |-> "PICKED",
     order_dispatched         |-> "IN_TRANSIT",
     order_delivered          |-> "DELIVERED",
     order_delivery_failed    |-> "DELIVERY_FAILED",
     order_returned           |-> "RETURNED"]

NatOrNull == Nat \union {Null}

\* The rows of the read model.
Row ==
    [status : States, last_sequence_no : Nat, events_applied : Nat,
     line_count : Nat, gross_amount : Nat,
     substituted_lines : Nat, removed_lines : Nat,
     picked_line_count : NatOrNull, net_amount : NatOrNull,
     returned_amount : NatOrNull]

ASSUME NullAssumption == Null \notin Row

\* last_sequence_no of a row, 0 when the order has no row yet.
LastSeq(row) == IF row = Null THEN 0 ELSE row.last_sequence_no

\* Mutant of decide: the event just applied is not taken for a duplicate.
DecideOffByOne(row, event) ==
    CASE event.sequence_no < LastSeq(row)      -> "duplicate"
      [] event.sequence_no > LastSeq(row) + 1  -> "gap"
      [] OTHER                                 -> "apply"

\* Mutant of decide: a gap is applied.
DecideWithoutGap(row, event) ==
    IF event.sequence_no <= LastSeq(row) THEN "duplicate" ELSE "apply"

\* Mutant of decide: a duplicate is applied.
DecideWithoutDuplicate(row, event) ==
    IF event.sequence_no > LastSeq(row) + 1 THEN "gap" ELSE "apply"

decide(row, event) ==
    CASE event.sequence_no <= LastSeq(row)     -> "duplicate"
      [] event.sequence_no > LastSeq(row) + 1  -> "gap"
      [] OTHER                                 -> "apply"

\* Mutant of PlacedRow: net_amount starts as what was ordered.
PlacedRowWithNet(event) ==
    [status            |-> "PLACED",
     last_sequence_no  |-> event.sequence_no,
     events_applied    |-> 1,
     line_count        |-> event.payload.line_count,
     gross_amount      |-> event.payload.gross_amount,
     substituted_lines |-> 0,
     removed_lines     |-> 0,
     picked_line_count |-> Null,
     net_amount        |-> event.payload.gross_amount,
     returned_amount   |-> Null]

\* The row order_placed opens.
PlacedRow(event) ==
    [status            |-> "PLACED",
     last_sequence_no  |-> event.sequence_no,
     events_applied    |-> 1,
     line_count        |-> event.payload.line_count,
     gross_amount      |-> event.payload.gross_amount,
     substituted_lines |-> 0,
     removed_lines     |-> 0,
     picked_line_count |-> Null,
     net_amount        |-> Null,
     returned_amount   |-> Null]

fold_event(row, event) ==
    LET kind == event.event_type
        Advanced ==
            [row EXCEPT !.status           = StateAfter[kind],
                        !.last_sequence_no = event.sequence_no,
                        !.events_applied   = @ + 1]
    IN  CASE kind = "order_placed" -> PlacedRow(event)
          [] kind = "order_line_substituted" ->
               [Advanced EXCEPT !.substituted_lines = @ + 1]
          [] kind = "order_line_removed" ->
               [Advanced EXCEPT !.removed_lines = @ + 1]
          [] kind = "order_picked" ->
               [Advanced EXCEPT !.net_amount        = event.payload.picked_amount,
                                !.picked_line_count = event.payload.picked_line_count]
          [] kind = "order_returned" ->
               [Advanced EXCEPT !.returned_amount = event.payload.returned_amount]
          [] OTHER -> Advanced

\* fold_event raises instead: a type it does not know, order_placed on an
\* existing order, or any other event on an order it never saw.
FoldRaises(row, event) ==
    \/ event.event_type \notin DOMAIN StateAfter
    \/ (event.event_type = "order_placed") # (row = Null)

-----------------------------------------------------------------------------
\* The positions of the events of one type in a log.
OfType(log, kind) == {i \in DOMAIN log : log[i].event_type = kind}

\* max(case when event_type = ... then ... end): null when there is none.
MaxOrNull(S) == IF S = {} THEN Null ELSE Max(S)

\* The event with recencia = 1: nothing in the log has a higher sequence_no.
Newest(log) ==
    log[CHOOSE i \in DOMAIN log :
            \A j \in DOMAIN log : log[j].sequence_no <= log[i].sequence_no]

\* One row of silver_order over the log of one order.  The inner join with
\* `colocacao` drops an order whose order_placed is not in the log.
SilverOrder(log) ==
    IF OfType(log, "order_placed") = {} THEN Null
    ELSE LET placed   == log[CHOOSE i \in OfType(log, "order_placed") : TRUE]
             picked   == OfType(log, "order_picked")
             returned == OfType(log, "order_returned")
         IN  [status            |-> SourceAfter[Newest(log).event_type],
              last_sequence_no  |-> Newest(log).sequence_no,
              events_applied    |-> Cardinality(DOMAIN log),
              line_count        |-> placed.payload.line_count,
              gross_amount      |-> placed.payload.gross_amount,
              substituted_lines |-> Cardinality(OfType(log, "order_line_substituted")),
              removed_lines     |-> Cardinality(OfType(log, "order_line_removed")),
              picked_line_count |-> MaxOrNull({log[i].payload.picked_line_count : i \in picked}),
              net_amount        |-> MaxOrNull({log[i].payload.picked_amount : i \in picked}),
              returned_amount   |-> MaxOrNull({log[i].payload.returned_amount : i \in returned})]

\* The row the first n events of an order amount to.
PrefixRow(log, n) == SilverOrder(SubSeq(log, 1, n))

-----------------------------------------------------------------------------
\* What the source guarantees of the log of one order: numbered from 1 without
\* a hole, opened by order_placed, at most one pick and one return.
IsOrderLog(log) ==
    /\ log \in Seq(Range(log))
    /\ \A i \in DOMAIN log :
         LET kind    == log[i].event_type
             payload == log[i].payload
         IN  /\ log[i].sequence_no = i
             /\ kind \in EventTypes
             /\ kind = "order_placed" <=> i = 1
             /\ kind = "order_placed" =>
                  {payload.line_count, payload.gross_amount} \subseteq Nat
             /\ kind = "order_picked" =>
                  {payload.picked_line_count, payload.picked_amount} \subseteq Nat
             /\ kind = "order_returned" => payload.returned_amount \in Nat
    /\ \A kind \in {"order_picked", "order_returned"} :
         \A i, j \in OfType(log, kind) : i = j
=============================================================================
