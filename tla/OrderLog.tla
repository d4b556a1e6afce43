------------------------------ MODULE OrderLog ------------------------------
(***************************************************************************)
(* The event logs the simulated-orders source writes: _lifecycle of        *)
(* orders_generator.py.  Every random draw is a component of a `fate`:     *)
(*                                                                         *)
(*    outcome   where the lifecycle ends                                   *)
(*    lines     what picking does to each line.  A line whose draw asks    *)
(*              for a substitute none of which is left stays "fulfilled".  *)
(*    returned  the line a return takes back; its value matters only when  *)
(*              the outcome is "returned"                                  *)
(*                                                                         *)
(* Quantities are 1, so an amount is a sum of prices.                      *)
(***************************************************************************)
EXTENDS OrderEvents, FiniteSets, FiniteSetsExt, SequencesExt

CONSTANTS
    Line,             \* the line numbers of an order, 1..n
    Price,            \* [Line -> Nat], the price each line was placed at
    SubstitutePrice   \* [Line -> Nat], the price of the product that replaces it

ASSUME LineAssumption ==
    /\ IsFiniteSet(Line)
    /\ Line = 1 .. Cardinality(Line)
    /\ Line # {}
    /\ Price \in [Line -> Nat]
    /\ SubstitutePrice \in [Line -> Nat]

Outcomes == {"payment_failed", "cancelled", "delivery_failed", "delivered", "returned"}

LineFates == {"fulfilled", "substituted", "removed"}

Kept(lines) == {l \in Line : lines[l] # "removed"}

\* A return takes back a kept line; an order that lost all its lines has none.
Fates ==
    {fate \in [outcome : Outcomes, lines : [Line -> LineFates], returned : Line] :
        fate.outcome = "returned" => fate.returned \in Kept(fate.lines)}

EffectivePrice(lines, l) ==
    IF lines[l] = "substituted" THEN SubstitutePrice[l] ELSE Price[l]

SumOver(S, amount(_)) == MapThenSumSet(amount, S)

Draft(kind, payload) == [event_type |-> kind, payload |-> payload]

Placed ==
    Draft("order_placed",
          [line_count   |-> Cardinality(Line),
           gross_amount |-> SumOver(Line, LAMBDA l : Price[l]),
           lines        |-> Price])

\* The event picking emits for a line, if it changes the line at all.
LineDrafts(lines, l) ==
    CASE lines[l] = "fulfilled" -> << >>
      [] lines[l] = "substituted" ->
           << Draft("order_line_substituted",
                    [line_no |-> l, substitute_unit_price |-> SubstitutePrice[l]]) >>
      [] lines[l] = "removed" ->
           << Draft("order_line_removed", [line_no |-> l]) >>

Picked(lines) ==
    Draft("order_picked",
          [picked_line_count |-> Cardinality(Kept(lines)),
           picked_amount     |-> SumOver(Kept(lines), LAMBDA l : EffectivePrice(lines, l))])

Returned(fate) ==
    Draft("order_returned",
          [returned_line_no |-> fate.returned,
           returned_amount  |-> EffectivePrice(fate.lines, fate.returned)])

Bare(kind) == Draft(kind, [none |-> TRUE])

\* Everything picking and dispatch emit, line by line in line order.
Picking(lines) ==
    << Bare("order_picking_started") >>
    \o FlattenSeq([l \in 1 .. Cardinality(Line) |-> LineDrafts(lines, l)])
    \o << Picked(lines), Bare("order_dispatched") >>

Drafts(fate) ==
    << Placed >> \o
    (CASE fate.outcome = "payment_failed" -> << Bare("order_payment_failed") >>
       [] fate.outcome = "cancelled" ->
            << Bare("order_payment_authorized"), Bare("order_cancelled") >>
       [] OTHER ->
            << Bare("order_payment_authorized") >> \o Picking(fate.lines) \o
            (CASE fate.outcome = "delivery_failed" -> << Bare("order_delivery_failed") >>
               [] fate.outcome = "delivered"       -> << Bare("order_delivered") >>
               [] fate.outcome = "returned"        ->
                    << Bare("order_delivered"), Returned(fate) >>))

\* `emit` numbers the events from 1 without a hole.
Lifecycle(order, fate) ==
    LET drafts == Drafts(fate)
    IN  [i \in DOMAIN drafts |->
           [order_id    |-> order,
            sequence_no |-> i,
            event_type  |-> drafts[i].event_type,
            payload     |-> drafts[i].payload]]
=============================================================================
