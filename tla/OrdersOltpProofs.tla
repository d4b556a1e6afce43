--------------------------- MODULE OrdersOltpProofs ---------------------------
(***************************************************************************)
(* The transactional outbox, for any appliers, files and kills: an order   *)
(* is the fold of its own committed outbox rows, these are numbered 1 to   *)
(* last_sequence_no in the order of outbox_id, and no applier passes over  *)
(* an event that is not committed (NothingIsLost), whatever different logs *)
(* of one order are applied over one another.  When the appliers read the  *)
(* same log of an order they implement EventSourcedOrders, and if the plan *)
(* accepts that log from its first event on, none of them ever raises.     *)
(*                                                                         *)
(* The unique event_id carries the argument: whoever holds the row of an   *)
(* event has passed all the earlier ones of its order, these are           *)
(* committed, and so the event is the next one and the order has no other  *)
(* open transaction.                                                       *)
(***************************************************************************)
EXTENDS OutboxCheck, SequenceTheorems, FiniteSetTheorems, FunctionTheorems,
        WellFoundedInduction, TLAPS

\* A set of numbers that is not empty has a smallest one.
LEMMA LeastExists ==
    ASSUME NEW S \in SUBSET Nat, S # {}
    PROVE  \E n \in S : \A m \in S : n <= m
  <1> DEFINE R == OpToRel(<, Nat)
  <1>1. PICK x \in S : \A y \in S : ~(<< y, x >> \in R)
    BY NatLessThanWellFounded, WFMin, Zenon
  <1>2. ASSUME NEW y \in Nat, NEW z \in Nat, y < z
        PROVE  << y, z >> \in R
    <2>1. << y, z >> \in Nat \X Nat /\ << y, z >>[1] < << y, z >>[2]
      BY <1>2
    <2> QED
      BY <2>1, Zenon DEF OpToRel
  <1> HIDE DEF R
  <1>3. ASSUME NEW m \in S
        PROVE  x <= m
    <2>1. ~(m < x)
      BY <1>1, <1>2
    <2> QED
      BY <2>1
  <1> QED
    BY <1>3

-----------------------------------------------------------------------------
(* The plan of one event.                                                  *)

\* u is the running total of the amounts of lines.
Totals(lines, n, u) ==
    u = [k \in 0 .. n |-> IF k = 0 THEN 0 ELSE u[k - 1] + lines[k].line_amount]

LEMMA TotalsExist ==
    ASSUME NEW lines \in Seq(LineRow), NEW n \in 0 .. Len(lines)
    PROVE  \E u \in [0 .. n -> Nat] : Totals(lines, n, u)
  <1> DEFINE S == {m \in 0 .. Len(lines) : ~ \E u \in [0 .. m -> Nat] : Totals(lines, m, u)}
  <1> SUFFICES ASSUME S # {}
               PROVE  FALSE
    OBVIOUS
  <1>0. S \in SUBSET Nat
    OBVIOUS
  <1>1. PICK m \in S : \A x \in S : m <= x
    <2> HIDE DEF S
    <2> QED
      BY <1>0, LeastExists
  <1>2. CASE m = 0
    <2> DEFINE w == [k \in 0 .. 0 |-> 0]
    <2>1. w \in [0 .. 0 -> Nat] /\ Totals(lines, 0, w)
      BY DEF Totals
    <2> QED
      BY <1>2, <2>1
  <1>3. CASE m # 0
    <2>0. Len(lines) \in Nat /\ DOMAIN lines = 1 .. Len(lines) /\ m \in 0 .. Len(lines)
      BY <1>1
    <2>1. m - 1 \in 0 .. Len(lines) /\ ~(m - 1 \in S)
      <3>1. m - 1 \in 0 .. Len(lines) /\ ~(m <= m - 1)
        BY <2>0, <1>3
      <3> HIDE DEF S
      <3> QED
        BY <3>1, <1>1
    <2>2. PICK u \in [0 .. m - 1 -> Nat] : Totals(lines, m - 1, u)
      BY <2>1
    <2> DEFINE w == [k \in 0 .. m |-> IF k = m THEN u[m - 1] + lines[m].line_amount ELSE u[k]]
    <2>3. \A k \in 0 .. (m - 1) :
            u[k] = IF k = 0 THEN 0 ELSE u[k - 1] + lines[k].line_amount
      BY <2>2 DEF Totals
    <2>4. \A k \in 0 .. m : w[k] = IF k = 0 THEN 0 ELSE w[k - 1] + lines[k].line_amount
      BY <1>3, <2>1, <2>3
    <2>5. lines[m] \in LineRow
      BY <2>0, <1>3
    <2>6. u[m - 1] + lines[m].line_amount \in Nat
      BY <2>5, <2>0, <1>3 DEF LineRow
    <2>7. \A k \in 0 .. m : k # m => u[k] \in Nat
      BY <2>0
    <2>8. w \in [0 .. m -> Nat]
      BY <2>6, <2>7
    <2>9. Totals(lines, m, w)
      BY <2>4 DEF Totals
    <2> QED
      BY <2>8, <2>9
  <1> QED
    BY <1>2, <1>3

\* _RECOMPUTE_NET: what the lines of an order add up to is an amount.
LEMMA LineSumIsNumber ==
    ASSUME NEW lines \in Seq(LineRow)
    PROVE  LineSum(lines) \in Nat
  <1> DEFINE n == Len(lines)
             v == CHOOSE w : w = [k \in 0 .. n |->
                                    IF k = 0 THEN 0 ELSE w[k - 1] + lines[k].line_amount]
  <1>0. n \in 0 .. Len(lines)
    OBVIOUS
  <1>1. v = [k \in 0 .. n |-> IF k = 0 THEN 0 ELSE v[k - 1] + lines[k].line_amount]
    BY <1>0, TotalsExist DEF Totals
  <1>2. LineSum(lines) = v[n]
    BY DEF LineSum
  <1> HIDE DEF v
  <1>3. PICK u \in [0 .. n -> Nat] : Totals(lines, n, u)
    BY <1>0, TotalsExist
  <1>4. \A k \in 0 .. n : u[k] = IF k = 0 THEN 0 ELSE u[k - 1] + lines[k].line_amount
    BY <1>3 DEF Totals
  <1>5. \A k \in 0 .. n : v[k] = IF k = 0 THEN 0 ELSE v[k - 1] + lines[k].line_amount
    BY <1>1
  <1> DEFINE S == {k \in 0 .. n : v[k] # u[k]}
  <1>6. S = {}
    <2> SUFFICES ASSUME S # {}
                 PROVE  FALSE
      OBVIOUS
    <2>0. S \in SUBSET Nat
      OBVIOUS
    <2>1. PICK m \in S : \A x \in S : m <= x
      <3> HIDE DEF S
      <3> QED
        BY <2>0, LeastExists
    <2>2. m # 0
      BY <1>4, <1>5, <2>1
    <2>3. m - 1 \in 0 .. n /\ ~(m - 1 \in S)
      BY <2>1, <2>2
    <2> QED
      BY <1>4, <1>5, <2>1, <2>2, <2>3
  <1> QED
    BY <1>0, <1>2, <1>6

LEMMA LinesStayLines ==
    ASSUME NEW lines \in Seq(LineRow)
    PROVE  PickedLines(lines) \in Seq(LineRow) /\ ClosedLines(lines) \in Seq(LineRow)
  <1>1. DOMAIN lines = 1 .. Len(lines) /\ Len(lines) \in Nat
    OBVIOUS
  <1>2. \A l \in DOMAIN lines : lines[l] \in LineRow
    OBVIOUS
  <1>3. \A line \in LineRow : [line EXCEPT !.status = "fulfilled"] \in LineRow
    BY DEF LineRow, LineStatuses
  <1>4. [status |-> "not_picked", line_amount |-> 0] \in LineRow
    BY DEF LineRow, LineStatuses
  <1>5. PickedLines(lines) =
          [l \in 1 .. Len(lines) |->
             IF lines[l].status = "placed" THEN [lines[l] EXCEPT !.status = "fulfilled"]
                                           ELSE lines[l]]
    BY <1>1 DEF PickedLines, Relabelled
  <1>6. ClosedLines(lines) =
          [l \in 1 .. Len(lines) |->
             IF lines[l].status = "placed" THEN [status |-> "not_picked", line_amount |-> 0]
                                           ELSE lines[l]]
    BY <1>1 DEF ClosedLines, Relabelled
  <1>7. ASSUME NEW g, g = [l \in 1 .. Len(lines) |-> g[l]],
               \A l \in 1 .. Len(lines) : g[l] \in LineRow
        PROVE  g \in Seq(LineRow)
    BY <1>1, <1>7
  <1> QED
    BY <1>1, <1>2, <1>3, <1>4, <1>5, <1>6, <1>7

\* _advance changes the status and the number of the last event, nothing else.
LEMMA AdvancedIs ==
    ASSUME NEW order \in OrderRow, NEW event, event.sequence_no \in Nat,
           event.event_type \in DOMAIN OltpAfter
    PROVE  /\ Advanced(order, event) \in OrderRow
           /\ Advanced(order, event).last_sequence_no = event.sequence_no
           /\ Advanced(order, event).lines = order.lines
  <1>1. OltpAfter[event.event_type] \in States
    BY DEF OltpAfter, States
  <1> QED
    BY <1>1 DEF Advanced, OrderRow

LEMMA RecomputedIs ==
    ASSUME NEW order \in OrderRow
    PROVE  /\ NetRecomputed(order) \in OrderRow
           /\ NetRecomputed(order).last_sequence_no = order.last_sequence_no
  <1>1. LineSum(order.lines) \in Nat
    BY LineSumIsNumber DEF OrderRow
  <1> QED
    BY <1>1 DEF NetRecomputed, OrderRow

LEMMA PlacedIs ==
    ASSUME NEW event, IsReadable(event), event.event_type = "order_placed"
    PROVE  /\ InsertedOrder(event) \in OrderRow
           /\ InsertedOrder(event).last_sequence_no = event.sequence_no
  <1> DEFINE prices == event.payload.lines
             rows == [l \in DOMAIN prices |-> [status |-> "placed", line_amount |-> prices[l]]]
  <1>1. /\ prices \in Seq(Nat)
        /\ event.payload.line_count \in Nat /\ event.payload.gross_amount \in Nat
        /\ event.sequence_no \in Nat
    BY DEF IsReadable
  <1>2. rows \in Seq(LineRow)
    <2>1. DOMAIN prices = 1 .. Len(prices) /\ Len(prices) \in Nat
      BY <1>1
    <2>2. \A l \in 1 .. Len(prices) :
            [status |-> "placed", line_amount |-> prices[l]] \in LineRow
      BY <1>1 DEF LineRow, LineStatuses
    <2> QED
      BY <2>1, <2>2
  <1> HIDE DEF prices
  <1>3. InsertedOrder(event) =
          [status |-> "PLACED", last_sequence_no |-> event.sequence_no,
           line_count |-> event.payload.line_count,
           gross_amount |-> event.payload.gross_amount,
           picked_line_count |-> Null, net_amount |-> Null, returned_amount |-> 0,
           lines |-> rows]
    BY DEF InsertedOrder, prices
  <1> HIDE DEF rows
  <1> QED
    BY <1>1, <1>2, <1>3 DEF OrderRow, States

\* The plan of an event that holds makes an order of it whose last event it is.
LEMMA PlanEffectIs ==
    ASSUME NEW order \in OrderRow \union {Null}, NEW event, IsReadable(event),
           PlanHolds(order, event)
    PROVE  /\ PlanEffect(order, event) \in OrderRow
           /\ PlanEffect(order, event).last_sequence_no = event.sequence_no
  <1> DEFINE kind == event.event_type
             after == Advanced(order, event)
  <1>1. CASE kind = "order_placed"
    <2>1. PlanEffect(order, event) = InsertedOrder(event)
      BY <1>1 DEF PlanEffect
    <2> QED
      BY <1>1, <2>1, PlacedIs
  <1>2. CASE kind # "order_placed"
    <2>1. CanAdvance(order, event) /\ kind \in DOMAIN OltpAfter
      BY <1>2 DEF PlanHolds, LineEvents, OltpAfter
    <2>2. order \in OrderRow
      BY <2>1 DEF CanAdvance
    <2>3. /\ after \in OrderRow /\ after.last_sequence_no = event.sequence_no
          /\ after.lines = order.lines
      BY <2>1, <2>2, AdvancedIs DEF IsReadable
    <2>4. order.lines \in Seq(LineRow) /\ DOMAIN order.lines = 1 .. Len(order.lines)
      BY <2>2 DEF OrderRow
    <2>5. ASSUME NEW lines \in Seq(LineRow)
          PROVE  /\ [after EXCEPT !.lines = lines] \in OrderRow
                 /\ [after EXCEPT !.lines = lines].last_sequence_no = event.sequence_no
      BY <2>3 DEF OrderRow
    <2>6. ASSUME NEW l \in DOMAIN order.lines, NEW row \in LineRow
          PROVE  [order.lines EXCEPT ![l] = row] \in Seq(LineRow)
      BY <2>4
    <2>7. CASE kind \in LineEvents
      <3> DEFINE l == event.payload.line_no
                 row == IF kind = "order_line_substituted"
                        THEN [status |-> "substituted",
                              line_amount |-> event.payload.substitute_unit_price]
                        ELSE [status |-> "removed", line_amount |-> 0]
      <3>1. l \in DOMAIN order.lines
        BY <2>7 DEF PlanHolds, LineEvents, InStatus
      <3>2. row \in LineRow
        BY <2>7 DEF LineRow, LineStatuses, IsReadable
      <3>3. PlanEffect(order, event) =
              NetRecomputed([after EXCEPT !.lines = [after.lines EXCEPT ![l] = row]])
        BY <2>3, <2>7 DEF PlanEffect, LineEvents
      <3> HIDE DEF l, row, after
      <3> DEFINE lines == [after.lines EXCEPT ![l] = row]
      <3>4. lines \in Seq(LineRow)
        BY <2>3, <2>6, <3>1, <3>2
      <3> HIDE DEF lines
      <3>5. PlanEffect(order, event) = NetRecomputed([after EXCEPT !.lines = lines])
        BY <3>3 DEF lines
      <3> QED
        BY <2>5, <3>4, <3>5, RecomputedIs
    <2>8. CASE kind = "order_picked"
      <3> DEFINE picked == [after EXCEPT !.lines = PickedLines(after.lines)]
      <3>1. event.payload.picked_line_count \in Nat
        BY <2>8 DEF IsReadable
      <3>2. picked \in OrderRow /\ picked.last_sequence_no = event.sequence_no
        BY <2>3, <2>4, <2>5, LinesStayLines
      <3>3. PlanEffect(order, event) =
              NetRecomputed([after EXCEPT
                   !.picked_line_count = event.payload.picked_line_count,
                   !.lines             = PickedLines(@)])
        BY <2>8 DEF PlanEffect
      <3> HIDE DEF after
      <3>4. [after EXCEPT !.picked_line_count = event.payload.picked_line_count,
                          !.lines             = PickedLines(@)]
              = [picked EXCEPT !.picked_line_count = event.payload.picked_line_count]
        BY <2>3 DEF OrderRow
      <3> HIDE DEF picked
      <3>5. /\ [picked EXCEPT !.picked_line_count = event.payload.picked_line_count]
                 \in OrderRow
            /\ [picked EXCEPT !.picked_line_count = event.payload.picked_line_count]
                 .last_sequence_no = event.sequence_no
        BY <3>1, <3>2 DEF OrderRow
      <3> QED
        BY <3>3, <3>4, <3>5, RecomputedIs
    <2>9. CASE kind = "order_returned"
      <3>1. event.payload.returned_amount \in Nat
        BY <2>9 DEF IsReadable
      <3>2. PlanEffect(order, event) =
              [after EXCEPT !.returned_amount = event.payload.returned_amount]
        BY <2>9 DEF PlanEffect
      <3> HIDE DEF after
      <3> QED
        BY <2>3, <3>1, <3>2 DEF OrderRow
    <2>10. CASE kind \in {"order_cancelled", "order_payment_failed"}
      <3>1. PlanEffect(order, event) = [after EXCEPT !.lines = ClosedLines(after.lines)]
        BY <2>3, <2>10 DEF PlanEffect
      <3> QED
        BY <2>3, <2>4, <2>5, <3>1, LinesStayLines
    <2>11. CASE kind \notin LineEvents \union
                     {"order_picked", "order_returned", "order_cancelled", "order_payment_failed"}
      <3>1. PlanEffect(order, event) = after
        BY <1>2, <2>11 DEF PlanEffect, LineEvents
      <3> QED
        BY <2>3, <3>1
    <2> QED
      BY <2>7, <2>8, <2>9, <2>10, <2>11
  <1> QED
    BY <1>1, <1>2

-----------------------------------------------------------------------------
(* The order a sequence of events amounts to.                              *)

\* u holds the order after each of the first n events.
Folds(events, n, u) ==
    \A k \in 0 .. n : u[k] = IF k = 0 THEN Null ELSE PlanEffect(u[k - 1], events[k])

LEMMA FoldsExist ==
    ASSUME NEW events, NEW n \in Nat
    PROVE  \E u : u = [k \in 0 .. n |-> u[k]] /\ Folds(events, n, u)
  <1> DEFINE Exists(m) == \E u : u = [k \in 0 .. m |-> u[k]] /\ Folds(events, m, u)
             S == {m \in Nat : ~Exists(m)}
  <1> SUFFICES ASSUME S # {}
               PROVE  FALSE
    OBVIOUS
  <1>0. S \in SUBSET Nat
    OBVIOUS
  <1>1. PICK m \in S : \A x \in S : m <= x
    <2> HIDE DEF S
    <2> QED
      BY <1>0, LeastExists
  <1>2. CASE m = 0
    <2> DEFINE w == [k \in 0 .. 0 |-> Null]
    <2>1. w = [k \in 0 .. 0 |-> w[k]] /\ Folds(events, 0, w)
      BY DEF Folds
    <2> HIDE DEF w
    <2> QED
      BY <1>1, <1>2, <2>1
  <1>3. CASE m # 0
    <2>1. m - 1 \in Nat /\ Exists(m - 1)
      <3> HIDE DEF Exists
      <3> QED
        BY <1>1, <1>3
    <2>2. PICK u : u = [k \in 0 .. m - 1 |-> u[k]] /\ Folds(events, m - 1, u)
      BY <2>1
    <2> DEFINE w == [k \in 0 .. m |-> IF k = m THEN PlanEffect(u[m - 1], events[m]) ELSE u[k]]
    <2>3. ASSUME NEW k \in 0 .. m
          PROVE  w[k] = IF k = 0 THEN Null ELSE PlanEffect(w[k - 1], events[k])
      <3>1. CASE k = m
        <4>1. m \in Nat /\ m - 1 \in 0 .. m /\ m - 1 # m
          BY <1>1, <1>3
        <4>2. w[m] = PlanEffect(u[m - 1], events[m]) /\ w[m - 1] = u[m - 1]
          BY <4>1
        <4> HIDE DEF w
        <4> QED
          BY <1>3, <3>1, <4>2
      <3>2. CASE k # m
        <4>1. k \in 0 .. (m - 1) /\ m \in Nat /\ k - 1 # m /\ (k = 0 \/ k - 1 \in 0 .. m)
          BY <1>1, <3>2
        <4>2. w[k] = u[k] /\ (k = 0 \/ w[k - 1] = u[k - 1])
          BY <3>2, <4>1
        <4>3. u[k] = IF k = 0 THEN Null ELSE PlanEffect(u[k - 1], events[k])
          BY <2>2, <4>1 DEF Folds
        <4> HIDE DEF w
        <4> QED
          BY <4>2, <4>3
      <3> QED
        BY <3>1, <3>2
    <2>4. w = [k \in 0 .. m |-> w[k]] /\ Folds(events, m, w)
      BY <2>3 DEF Folds
    <2> HIDE DEF w
    <2> QED
      BY <1>1, <2>4
  <1> QED
    BY <1>2, <1>3

\* OrderAfter is the last of them.
LEMMA OrderAfterIs ==
    ASSUME NEW events, Len(events) \in Nat
    PROVE  \E u : Folds(events, Len(events), u) /\ OrderAfter(events) = u[Len(events)]
  <1> DEFINE n == Len(events)
             v == CHOOSE w : w = [k \in 0 .. n |->
                                    IF k = 0 THEN Null ELSE PlanEffect(w[k - 1], events[k])]
  <1>1. PICK u : u = [k \in 0 .. n |-> u[k]] /\ Folds(events, n, u)
    BY FoldsExist
  <1>2. u = [k \in 0 .. n |-> IF k = 0 THEN Null ELSE PlanEffect(u[k - 1], events[k])]
    BY <1>1 DEF Folds
  <1>3. v = [k \in 0 .. n |-> IF k = 0 THEN Null ELSE PlanEffect(v[k - 1], events[k])]
    BY <1>2
  <1>4. OrderAfter(events) = v[n]
    BY DEF OrderAfter
  <1> HIDE DEF v
  <1>5. Folds(events, n, v)
    BY <1>3 DEF Folds
  <1> QED
    BY <1>4, <1>5

\* Two of them agree on what their events agree.
LEMMA FoldsAgree ==
    ASSUME NEW n \in Nat, NEW events, NEW others, NEW u, NEW w, NEW p \in Nat, n <= p,
           \A k \in 1 .. n : events[k] = others[k],
           Folds(events, n, u), Folds(others, p, w)
    PROVE  u[n] = w[n]
  <1> DEFINE S == {m \in 0 .. n : u[m] # w[m]}
  <1> SUFFICES ASSUME S # {}
               PROVE  FALSE
    OBVIOUS
  <1>0. S \in SUBSET Nat
    OBVIOUS
  <1>1. PICK m \in S : \A x \in S : m <= x
    <2> HIDE DEF S
    <2> QED
      BY <1>0, LeastExists
  <1>2. m # 0
    BY <1>1 DEF Folds
  <1>3. m - 1 \in 0 .. n /\ ~(m - 1 \in S)
    BY <1>1, <1>2
  <1>4. /\ u[m] = PlanEffect(u[m - 1], events[m])
        /\ w[m] = PlanEffect(w[m - 1], others[m])
        /\ events[m] = others[m]
    BY <1>1, <1>2 DEF Folds
  <1> QED
    BY <1>3, <1>4

LEMMA OrderAfterNone ==
    OrderAfter(<< >>) = Null
  <1>1. Len(<< >>) = 0
    OBVIOUS
  <1>2. PICK u : Folds(<< >>, 0, u) /\ OrderAfter(<< >>) = u[0]
    BY <1>1, OrderAfterIs
  <1> QED
    BY <1>2 DEF Folds

\* One event more makes one effect more.
LEMMA OrderAfterOneMore ==
    ASSUME NEW S, NEW events \in Seq(S), NEW event \in S
    PROVE  OrderAfter(Append(events, event)) = PlanEffect(OrderAfter(events), event)
  <1> DEFINE n == Len(events)
             more == Append(events, event)
  <1>1. /\ n \in Nat /\ Len(more) = n + 1 /\ more[n + 1] = event
        /\ \A k \in 1 .. n : events[k] = more[k]
    OBVIOUS
  <1>2. PICK u : Folds(events, n, u) /\ OrderAfter(events) = u[n]
    BY <1>1, OrderAfterIs
  <1> HIDE DEF more
  <1>3. PICK w : Folds(more, n + 1, w) /\ OrderAfter(more) = w[n + 1]
    BY <1>1, OrderAfterIs
  <1>4. w[n] = u[n]
    <2> HIDE DEF n
    <2> QED
      BY <1>1, <1>2, <1>3, FoldsAgree
  <1>5. n + 1 \in 0 .. n + 1 /\ n + 1 # 0 /\ n + 1 - 1 = n
    BY <1>1
  <1>6. w[n + 1] = PlanEffect(w[n + 1 - 1], more[n + 1])
    BY <1>3, <1>5 DEF Folds
  <1> QED
    BY <1>1, <1>2, <1>3, <1>4, <1>5, <1>6 DEF more

-----------------------------------------------------------------------------
(* The committed rows of an order in an outbox.                            *)

Events == UNION {Range(File[a]) : a \in Applier}

Row == [event : Events, tx : Applier \union {Null}]

\* Row i of box is a committed one of order o.
Of(box, o, i) == box[i].tx = Null /\ box[i].event.order_id = o

\* The committed rows of o are numbered 1 to n, in the order of outbox_id.
Lists(box, o, n) ==
    /\ n \in Nat
    /\ \A i \in DOMAIN box : Of(box, o, i) => box[i].event.sequence_no \in 1 .. n
    /\ \A k \in 1 .. n : \E i \in DOMAIN box :
         Of(box, o, i) /\ box[i].event.sequence_no = k
    /\ \A i, j \in DOMAIN box :
         Of(box, o, i) /\ Of(box, o, j) /\ i < j
           => box[i].event.sequence_no < box[j].event.sequence_no

\* EventsOf, of any outbox.
EventsIn(box, o) ==
    LET upTo[n \in 0 .. Len(box)] ==
            IF n = 0 THEN << >>
            ELSE IF Of(box, o, n) THEN Append(upTo[n - 1], box[n].event)
            ELSE upTo[n - 1]
    IN  upTo[Len(box)]

\* u holds the events of o among the first n rows.
Selects(box, o, n, u) ==
    \A k \in 0 .. n :
        u[k] = IF k = 0 THEN << >>
               ELSE IF Of(box, o, k) THEN Append(u[k - 1], box[k].event)
               ELSE u[k - 1]

LEMMA SelectsExist ==
    ASSUME NEW box, NEW o, NEW n \in Nat
    PROVE  \E u : u = [k \in 0 .. n |-> u[k]] /\ Selects(box, o, n, u)
  <1> DEFINE Exists(m) == \E u : u = [k \in 0 .. m |-> u[k]] /\ Selects(box, o, m, u)
             S == {m \in Nat : ~Exists(m)}
  <1> SUFFICES ASSUME S # {}
               PROVE  FALSE
    OBVIOUS
  <1>0. S \in SUBSET Nat
    OBVIOUS
  <1>1. PICK m \in S : \A x \in S : m <= x
    <2> HIDE DEF S
    <2> QED
      BY <1>0, LeastExists
  <1>2. CASE m = 0
    <2> DEFINE w == [k \in 0 .. 0 |-> << >>]
    <2>1. w = [k \in 0 .. 0 |-> w[k]] /\ Selects(box, o, 0, w)
      BY DEF Selects
    <2> HIDE DEF w
    <2> QED
      BY <1>1, <1>2, <2>1
  <1>3. CASE m # 0
    <2>1. m - 1 \in Nat /\ Exists(m - 1)
      <3> HIDE DEF Exists
      <3> QED
        BY <1>1, <1>3
    <2>2. PICK u : u = [k \in 0 .. m - 1 |-> u[k]] /\ Selects(box, o, m - 1, u)
      BY <2>1
    <2> DEFINE Step(s, k) == IF Of(box, o, k) THEN Append(s, box[k].event) ELSE s
               w == [k \in 0 .. m |-> IF k = m THEN Step(u[m - 1], m) ELSE u[k]]
    <2>3. ASSUME NEW k \in 0 .. m
          PROVE  w[k] = IF k = 0 THEN << >> ELSE Step(w[k - 1], k)
      <3>1. CASE k = m
        <4>1. m \in Nat /\ m - 1 \in 0 .. m /\ m - 1 # m
          BY <1>1, <1>3
        <4> HIDE DEF Step
        <4>2. w[m] = Step(u[m - 1], m) /\ w[m - 1] = u[m - 1]
          BY <4>1
        <4> HIDE DEF w
        <4> QED
          BY <1>3, <3>1, <4>2
      <3>2. CASE k # m
        <4>1. k \in 0 .. (m - 1) /\ m \in Nat /\ k - 1 # m /\ (k = 0 \/ k - 1 \in 0 .. m)
          BY <1>1, <3>2
        <4>3. u[k] = IF k = 0 THEN << >> ELSE Step(u[k - 1], k)
          BY <2>2, <4>1 DEF Selects
        <4> HIDE DEF Step
        <4>2. w[k] = u[k] /\ (k = 0 \/ w[k - 1] = u[k - 1])
          BY <3>2, <4>1
        <4> HIDE DEF w
        <4> QED
          BY <4>2, <4>3
      <3> QED
        BY <3>1, <3>2
    <2>4. w = [k \in 0 .. m |-> w[k]] /\ Selects(box, o, m, w)
      <3>1. w = [k \in 0 .. m |-> w[k]]
        OBVIOUS
      <3> HIDE DEF w
      <3> QED
        BY <2>3, <3>1 DEF Selects
    <2> HIDE DEF w
    <2> QED
      BY <1>1, <2>4
  <1> QED
    BY <1>2, <1>3

LEMMA EventsInIs ==
    ASSUME NEW box, Len(box) \in Nat, NEW o
    PROVE  \E u : Selects(box, o, Len(box), u) /\ EventsIn(box, o) = u[Len(box)]
  <1> DEFINE n == Len(box)
             v == CHOOSE w : w = [k \in 0 .. n |->
                                    IF k = 0 THEN << >>
                                    ELSE IF Of(box, o, k) THEN Append(w[k - 1], box[k].event)
                                    ELSE w[k - 1]]
  <1>1. PICK u : u = [k \in 0 .. n |-> u[k]] /\ Selects(box, o, n, u)
    BY SelectsExist
  <1>2. u = [k \in 0 .. n |-> IF k = 0 THEN << >>
                              ELSE IF Of(box, o, k) THEN Append(u[k - 1], box[k].event)
                              ELSE u[k - 1]]
    BY <1>1 DEF Selects
  <1>3. v = [k \in 0 .. n |-> IF k = 0 THEN << >>
                              ELSE IF Of(box, o, k) THEN Append(v[k - 1], box[k].event)
                              ELSE v[k - 1]]
    BY <1>2
  <1>4. EventsIn(box, o) = v[n]
    BY DEF EventsIn
  <1> HIDE DEF v
  <1>5. Selects(box, o, n, v)
    BY <1>3 DEF Selects
  <1> QED
    BY <1>4, <1>5

\* The rows up to m of an order, taken together: row by row at their numbers.
Gathered(box, o, m, s) ==
    /\ s \in Seq(Events)
    /\ \A i \in 1 .. m : Of(box, o, i) =>
         /\ box[i].event.sequence_no \in 1 .. Len(s)
         /\ s[box[i].event.sequence_no] = box[i].event
    /\ \A k \in 1 .. Len(s) : \E i \in 1 .. m :
         Of(box, o, i) /\ box[i].event.sequence_no = k

\* One row more: the rows of an order come in the order of their numbers, so
\* its number is the next one.
LEMMA GatheredOneMore ==
    ASSUME NEW box \in Seq(Row), NEW o, NEW n, Lists(box, o, n),
           NEW m \in 1 .. Len(box), NEW s, Gathered(box, o, m - 1, s), Of(box, o, m)
    PROVE  Gathered(box, o, m, Append(s, box[m].event))
  <1> DEFINE l == Len(s)
             more == Append(s, box[m].event)
  <1>1. /\ Len(box) \in Nat /\ DOMAIN box = 1 .. Len(box) /\ m \in DOMAIN box /\ m \in Nat
        /\ s \in Seq(Events) /\ l \in Nat /\ n \in Nat
    BY DEF Gathered, Lists
  <1>2. box[m].event \in Events
    <2>1. box[m] \in Row
      BY <1>1
    <2> QED
      BY <2>1 DEF Row
  <1>3. box[m].event.sequence_no \in 1 .. n
    BY <1>1 DEF Lists
  <1>4. ASSUME NEW k \in 1 .. l
        PROVE  k < box[m].event.sequence_no
    <2>1. PICK i \in 1 .. m - 1 : Of(box, o, i) /\ box[i].event.sequence_no = k
      BY <1>4 DEF Gathered
    <2>2. i \in DOMAIN box /\ i < m
      BY <1>1, <2>1
    <2> QED
      BY <1>1, <2>1, <2>2 DEF Lists
  <1>5. ~(l + 1 < box[m].event.sequence_no)
    <2> SUFFICES ASSUME l + 1 < box[m].event.sequence_no
                 PROVE  FALSE
      OBVIOUS
    <2>1. l + 1 \in 1 .. n
      BY <1>1, <1>3
    <2>2. PICK j \in DOMAIN box : Of(box, o, j) /\ box[j].event.sequence_no = l + 1
      BY <2>1 DEF Lists
    <2>3. j \in Nat /\ j # m
      BY <1>1, <1>3, <2>2
    <2>4. CASE j < m
      <3>1. j \in 1 .. m - 1
        BY <1>1, <2>2, <2>4
      <3>2. box[j].event.sequence_no \in 1 .. Len(s)
        BY <2>2, <3>1 DEF Gathered
      <3> QED
        BY <1>1, <2>2, <3>2
    <2>5. CASE m < j
      <3>1. box[m].event.sequence_no < box[j].event.sequence_no
        BY <1>1, <2>2, <2>5 DEF Lists
      <3> QED
        BY <1>1, <1>3, <2>2, <3>1
    <2> QED
      BY <1>1, <2>3, <2>4, <2>5
  <1>6. box[m].event.sequence_no = l + 1
    <2>1. \A k \in 1 .. l : k < box[m].event.sequence_no
      BY <1>4
    <2>2. l = 0 \/ l \in 1 .. l
      BY <1>1
    <2> QED
      BY <1>1, <1>3, <1>5, <2>1, <2>2
  <1>7. /\ more \in Seq(Events) /\ Len(more) = l + 1 /\ more[l + 1] = box[m].event
        /\ \A k \in 1 .. l : more[k] = s[k]
    BY <1>1, <1>2
  <1> HIDE DEF more, l
  <1>8. ASSUME NEW i \in 1 .. m, Of(box, o, i)
        PROVE  /\ box[i].event.sequence_no \in 1 .. Len(more)
               /\ more[box[i].event.sequence_no] = box[i].event
    <2>1. CASE i = m
      BY <1>1, <1>6, <1>7, <2>1
    <2>2. CASE i # m
      <3>1. i \in 1 .. m - 1
        BY <1>1, <2>2
      <3>2. /\ box[i].event.sequence_no \in 1 .. l
            /\ s[box[i].event.sequence_no] = box[i].event
        BY <1>8, <3>1 DEF Gathered, l
      <3> QED
        BY <1>1, <1>7, <3>2
    <2> QED
      BY <2>1, <2>2
  <1>9. ASSUME NEW k \in 1 .. Len(more)
        PROVE  \E i \in 1 .. m : Of(box, o, i) /\ box[i].event.sequence_no = k
    <2>1. CASE k = l + 1
      BY <1>1, <1>6, <2>1
    <2>2. CASE k # l + 1
      <3>1. k \in 1 .. Len(s)
        BY <1>1, <1>7, <2>2 DEF l
      <3>2. PICK i \in 1 .. m - 1 : Of(box, o, i) /\ box[i].event.sequence_no = k
        BY <3>1 DEF Gathered
      <3>3. i \in 1 .. m
        BY <1>1
      <3> QED
        BY <3>2, <3>3
    <2> QED
      BY <2>1, <2>2
  <1> QED
    BY <1>7, <1>8, <1>9 DEF Gathered, more

LEMMA GatheredNoMore ==
    ASSUME NEW box \in Seq(Row), NEW o, NEW m \in 1 .. Len(box), NEW s,
           Gathered(box, o, m - 1, s), ~Of(box, o, m)
    PROVE  Gathered(box, o, m, s)
  <1>1. m \in Nat /\ 1 .. m = (1 .. m - 1) \union {m}
    OBVIOUS
  <1> QED
    BY <1>1 DEF Gathered

\* EventsOf has the event of every committed row at its number.
LEMMA EventsAre ==
    ASSUME NEW box \in Seq(Row), NEW o, NEW n, Lists(box, o, n)
    PROVE  /\ EventsIn(box, o) \in Seq(Events)
           /\ Len(EventsIn(box, o)) = n
           /\ \A i \in DOMAIN box : Of(box, o, i) =>
                EventsIn(box, o)[box[i].event.sequence_no] = box[i].event
  <1>0. Len(box) \in Nat /\ DOMAIN box = 1 .. Len(box) /\ n \in Nat
    BY DEF Lists
  <1>1. PICK u : Selects(box, o, Len(box), u) /\ EventsIn(box, o) = u[Len(box)]
    BY <1>0, EventsInIs
  <1> DEFINE S == {m \in 0 .. Len(box) : ~Gathered(box, o, m, u[m])}
  <1>2. S = {}
    <2> SUFFICES ASSUME S # {}
                 PROVE  FALSE
      OBVIOUS
    <2>0. S \in SUBSET Nat
      BY <1>0
    <2>1. PICK m \in S : \A x \in S : m <= x
      <3> HIDE DEF S
      <3> QED
        BY <2>0, LeastExists
    <2>2. m \in 0 .. Len(box) /\ ~Gathered(box, o, m, u[m]) /\ m \in Nat
      BY <1>0, <2>1
    <2>3. m # 0
      <3> SUFFICES ASSUME m = 0
                   PROVE  FALSE
        OBVIOUS
      <3>1. u[0] = << >>
        BY <1>0, <1>1 DEF Selects
      <3>2. Gathered(box, o, 0, << >>)
        <4>1. Len(<< >>) = 0 /\ << >> \in Seq(Events) /\ 1 .. 0 = {}
          OBVIOUS
        <4> QED
          BY <4>1 DEF Gathered
      <3> QED
        BY <2>2, <3>1, <3>2
    <2>4. m - 1 \in 0 .. Len(box) /\ m \in 1 .. Len(box) /\ ~(m <= m - 1)
      BY <1>0, <2>2, <2>3
    <2>5. ~(m - 1 \in S)
      <3> HIDE DEF S
      <3> QED
        BY <2>1, <2>4
    <2>6. Gathered(box, o, m - 1, u[m - 1])
      BY <2>4, <2>5
    <2>7. u[m] = IF Of(box, o, m) THEN Append(u[m - 1], box[m].event) ELSE u[m - 1]
      BY <1>1, <2>2, <2>3 DEF Selects
    <2> QED
      BY <2>2, <2>4, <2>6, <2>7, GatheredOneMore, GatheredNoMore
  <1>3. Gathered(box, o, Len(box), EventsIn(box, o))
    BY <1>0, <1>1, <1>2
  <1> DEFINE s == EventsIn(box, o)
             l == Len(s)
  <1> HIDE DEF s
  <1>4. s \in Seq(Events) /\ l \in Nat
    BY <1>3 DEF Gathered, s
  <1>5. \A i \in DOMAIN box : Of(box, o, i) =>
          /\ box[i].event.sequence_no \in 1 .. l
          /\ s[box[i].event.sequence_no] = box[i].event
    BY <1>0, <1>3 DEF Gathered, s
  <1>6. \A k \in 1 .. l : \E i \in DOMAIN box :
          Of(box, o, i) /\ box[i].event.sequence_no = k
    BY <1>0, <1>3 DEF Gathered, s
  <1>7. \A k \in 1 .. n : k \in 1 .. l
    BY <1>5 DEF Lists
  <1>8. \A k \in 1 .. l : k \in 1 .. n
    BY <1>6 DEF Lists
  <1>9. l = n
    <2>1. n = 0 \/ n \in 1 .. n
      BY <1>0
    <2>2. l = 0 \/ l \in 1 .. l
      BY <1>4
    <2> HIDE DEF l
    <2> QED
      BY <1>0, <1>4, <1>7, <1>8, <2>1, <2>2
  <1> QED
    BY <1>4, <1>5, <1>9 DEF s

\* An outbox whose rows of an order have the same events has the same log of it.
LEMMA SameEvents ==
    ASSUME NEW box \in Seq(Row), NEW new \in Seq(Row), NEW o, NEW n,
           Lists(box, o, n), Lists(new, o, n),
           \A j \in DOMAIN new : Of(new, o, j) =>
              \E i \in DOMAIN box : Of(box, o, i) /\ box[i].event = new[j].event
    PROVE  EventsIn(new, o) = EventsIn(box, o)
  <1> DEFINE s == EventsIn(box, o)
             t == EventsIn(new, o)
  <1>1. s \in Seq(Events) /\ Len(s) = n /\ t \in Seq(Events) /\ Len(t) = n
    BY EventsAre
  <1>2. ASSUME NEW k \in 1 .. n
        PROVE  t[k] = s[k]
    <2>1. PICK j \in DOMAIN new : Of(new, o, j) /\ new[j].event.sequence_no = k
      BY DEF Lists
    <2>2. PICK i \in DOMAIN box : Of(box, o, i) /\ box[i].event = new[j].event
      BY <2>1
    <2>3. t[new[j].event.sequence_no] = new[j].event
      BY <2>1, EventsAre
    <2>4. s[box[i].event.sequence_no] = box[i].event
      BY <2>2, EventsAre
    <2> HIDE DEF s, t
    <2> QED
      BY <2>1, <2>2, <2>3, <2>4
  <1> HIDE DEF s, t
  <1>3. s = t
    BY <1>1, <1>2, SeqEqual
  <1> QED
    BY <1>3 DEF s, t

\* One row more, with the next number, is one event more.
LEMMA OneMoreEvent ==
    ASSUME NEW box \in Seq(Row), NEW new \in Seq(Row), NEW o, NEW n, NEW event \in Events,
           Lists(box, o, n), Lists(new, o, n + 1), event.sequence_no = n + 1,
           \A j \in DOMAIN new : Of(new, o, j) =>
              \/ new[j].event = event
              \/ \E i \in DOMAIN box : Of(box, o, i) /\ box[i].event = new[j].event
    PROVE  EventsIn(new, o) = Append(EventsIn(box, o), event)
  <1> DEFINE s == EventsIn(box, o)
             t == EventsIn(new, o)
  <1>0. n \in Nat
    BY DEF Lists
  <1>1. s \in Seq(Events) /\ Len(s) = n /\ t \in Seq(Events) /\ Len(t) = n + 1
    BY EventsAre
  <1>2. ASSUME NEW k \in 1 .. n + 1
        PROVE  t[k] = IF k = n + 1 THEN event ELSE s[k]
    <2>1. PICK j \in DOMAIN new : Of(new, o, j) /\ new[j].event.sequence_no = k
      BY DEF Lists
    <2>2. t[new[j].event.sequence_no] = new[j].event
      BY <2>1, EventsAre
    <2>3. CASE new[j].event = event
      <3> HIDE DEF s, t
      <3> QED
        BY <2>1, <2>2, <2>3
    <2>4. CASE \E i \in DOMAIN box : Of(box, o, i) /\ box[i].event = new[j].event
      <3>1. PICK i \in DOMAIN box : Of(box, o, i) /\ box[i].event = new[j].event
        BY <2>4
      <3>2. s[box[i].event.sequence_no] = box[i].event
        BY <3>1, EventsAre
      <3>3. k \in 1 .. n
        BY <2>1, <3>1 DEF Lists
      <3> HIDE DEF s, t
      <3> QED
        BY <1>0, <2>1, <2>2, <3>1, <3>2, <3>3
    <2> QED
      BY <2>1, <2>3, <2>4
  <1> HIDE DEF s, t
  <1> DEFINE more == Append(s, event)
  <1>3. more \in Seq(Events) /\ Len(more) = n + 1
    BY <1>1
  <1>4. \A k \in 1 .. n + 1 : more[k] = IF k = n + 1 THEN event ELSE s[k]
    BY <1>0, <1>1
  <1> HIDE DEF more
  <1>5. t = more
    BY <1>1, <1>2, <1>3, <1>4, SeqEqual
  <1> QED
    BY <1>5 DEF s, t, more

-----------------------------------------------------------------------------
(* The statements on the outbox.                                           *)

\* RemoveAt moves the rows after the removed one up by one.
LEMMA RemoveAtIs ==
    ASSUME NEW S, NEW s \in Seq(S), NEW r \in 1 .. Len(s)
    PROVE  /\ RemoveAt(s, r) \in Seq(S)
           /\ Len(RemoveAt(s, r)) = Len(s) - 1
           /\ \A j \in 1 .. Len(s) - 1 : RemoveAt(s, r)[j] = IF j < r THEN s[j] ELSE s[j + 1]
  <1> DEFINE head == SubSeq(s, 1, r - 1)
             tail == SubSeq(s, r + 1, Len(s))
  <1>1. Len(s) \in Nat /\ r \in Nat
    OBVIOUS
  <1>2. /\ head \in Seq(S) /\ Len(head) = r - 1
        /\ \A j \in 1 .. r - 1 : head[j] = s[j]
    BY <1>1
  <1>3. /\ tail \in Seq(S) /\ Len(tail) = Len(s) - r
        /\ \A j \in 1 .. Len(s) - r : tail[j] = s[j + r]
    <2>1. \A i \in r + 1 .. Len(s) : s[i] \in S
      BY <1>1
    <2>2. /\ tail \in Seq(S)
          /\ Len(tail) = IF r + 1 <= Len(s) THEN Len(s) - (r + 1) + 1 ELSE 0
          /\ \A j \in 1 .. Len(s) - (r + 1) + 1 : tail[j] = s[r + 1 + j - 1]
      BY <1>1, <2>1, SubSeqProperties
    <2> HIDE DEF tail
    <2> QED
      BY <1>1, <2>2
  <1>4. RemoveAt(s, r) = head \o tail
    BY DEF RemoveAt
  <1> HIDE DEF head, tail
  <1>5. /\ head \o tail \in Seq(S) /\ Len(head \o tail) = Len(s) - 1
        /\ \A j \in 1 .. Len(s) - 1 :
             (head \o tail)[j] = IF j <= r - 1 THEN head[j] ELSE tail[j - (r - 1)]
    <2>1. (r - 1) + (Len(s) - r) = Len(s) - 1
      BY <1>1
    <2>2. Len(head) + Len(tail) = Len(s) - 1
      BY <1>2, <1>3, <2>1
    <2>3. /\ head \o tail \in Seq(S) /\ Len(head \o tail) = Len(head) + Len(tail)
          /\ \A j \in 1 .. Len(head) + Len(tail) :
               (head \o tail)[j] = IF j <= Len(head) THEN head[j] ELSE tail[j - Len(head)]
      BY <1>2, <1>3, ConcatProperties, Zenon
    <2> QED
      BY <1>2, <2>2, <2>3
  <1>6. ASSUME NEW j \in 1 .. Len(s) - 1
        PROVE  (head \o tail)[j] = IF j < r THEN s[j] ELSE s[j + 1]
    <2>1. CASE j < r
      BY <1>1, <1>2, <1>5, <2>1
    <2>2. CASE ~(j < r)
      <3>1. j - (r - 1) \in 1 .. Len(s) - r /\ (j - (r - 1)) + r = j + 1 /\ ~(j <= r - 1)
        BY <1>1, <2>2
      <3>2. tail[j - (r - 1)] = s[j + 1]
        BY <1>3, <3>1
      <3> QED
        BY <1>5, <2>2, <3>1, <3>2
    <2> QED
      BY <2>1, <2>2
  <1> QED
    BY <1>4, <1>5, <1>6

-----------------------------------------------------------------------------
(* The inductive invariant.                                                *)

SameEvent(e, f) == e.order_id = f.order_id /\ e.sequence_no = f.sequence_no

\* The unique constraint on event_id.
Unique(box) == \A i, j \in DOMAIN box : SameEvent(box[i].event, box[j].event) => i = j

\* The open rows of an order come after its committed ones.
OpenIsLast(box) ==
    \A i, j \in DOMAIN box :
        /\ box[i].tx = Null
        /\ box[j].tx # Null
        /\ box[i].event.order_id = box[j].event.order_id
        => i < j

\* The event has its committed row.
Committed(box, event) ==
    \E k \in DOMAIN box : SameEvent(box[k].event, event) /\ box[k].tx = Null

Typed ==
    /\ orders \in [Order -> OrderRow \union {Null}]
    /\ outbox \in Seq(Row)
    /\ next \in [Applier -> Nat]
    /\ \A a \in Applier : next[a] \in 1 .. Len(File[a]) + 1
    /\ stage \in [Applier -> Stages]
    /\ DOMAIN work = Applier
    /\ crashes \in 0 .. MaxCrash

InTransaction(a) == stage[a] \in {"inserted", "planned"}

\* An open row is of the event its applier is at, and there is one in each
\* open transaction.
OpenRowsAreWorkedOn ==
    \A a \in Applier :
        /\ \A i \in DOMAIN outbox : outbox[i].tx = a =>
             InTransaction(a) /\ outbox[i].event = EventOf(a)
        /\ InTransaction(a) => ~Done(a) /\ \E i \in DOMAIN outbox : outbox[i].tx = a

CommittedAreListed == \A o \in Order : Lists(outbox, o, LastOf(orders[o]))

CommittedAreFolded == \A o \in Order : orders[o] = OrderAfter(EventsIn(outbox, o))

\* Nobody writes the order of a plan between its statements and its commit.
PlannedStays ==
    \A a \in Applier : stage[a] = "planned" =>
        LET order == orders[EventOf(a).order_id]
        IN  PlanHolds(order, EventOf(a)) /\ work[a] = PlanEffect(order, EventOf(a))

PassedStays == \A a \in Applier : \A i \in 1 .. next[a] - 1 : Committed(outbox, File[a][i])

Inv ==
    /\ Typed
    /\ Unique(outbox)
    /\ OpenIsLast(outbox)
    /\ OpenRowsAreWorkedOn
    /\ CommittedAreListed
    /\ CommittedAreFolded
    /\ PlannedStays
    /\ PassedStays

-----------------------------------------------------------------------------
(* Facts about the files and the order an open transaction is about.       *)

LEMMA EventAt ==
    ASSUME NEW a \in Applier, NEW i \in DOMAIN File[a]
    PROVE  /\ File[a][i] \in Events
           /\ File[a][i].order_id \in Order
           /\ IsReadable(File[a][i])
           /\ File[a][i].sequence_no \in Nat \ {0}
           /\ File[a][i].event_type = "order_placed" => File[a][i].sequence_no = 1
  <1>1. File[a][i] \in Range(File[a])
    BY DEF Range
  <1> QED
    BY <1>1, OltpAssumption DEF Events, IsReadable

LEMMA FileIsSequence ==
    ASSUME NEW a \in Applier
    PROVE  Len(File[a]) \in Nat /\ DOMAIN File[a] = 1 .. Len(File[a])
  <1>1. File[a] \in Seq(Range(File[a]))
    BY OltpAssumption
  <1> QED
    BY <1>1

\* A file has the events of an order before one of them in front of it.
LEMMA EarlierEventsAreInFront ==
    ASSUME NEW a \in Applier, NEW i \in DOMAIN File[a],
           NEW k \in 1 .. File[a][i].sequence_no - 1
    PROVE  \E j \in DOMAIN File[a] :
             /\ j < i
             /\ File[a][j].order_id = File[a][i].order_id
             /\ File[a][j].sequence_no = k
  <1> DEFINE o == File[a][i].order_id
  <1>1. o \in Order /\ File[a][i].sequence_no \in Nat
    BY EventAt
  <1>2. PICK n \in 0 .. Len(File[a]) :
          {File[a][l].sequence_no : l \in LinesOf(a, o)} = 1 .. n
    BY <1>1, OltpAssumption
  <1>3. \A l, j \in LinesOf(a, o) : l < j => File[a][l].sequence_no < File[a][j].sequence_no
    BY <1>1, OltpAssumption
  <1>4. i \in LinesOf(a, o)
    BY DEF LinesOf
  <1>5. n \in Nat /\ Len(File[a]) \in Nat /\ DOMAIN File[a] = 1 .. Len(File[a])
    BY <1>2, FileIsSequence
  <1>6. File[a][i].sequence_no \in 1 .. n
    BY <1>2, <1>4
  <1>7. k \in 1 .. n
    BY <1>1, <1>5, <1>6
  <1>8. PICK j \in LinesOf(a, o) : File[a][j].sequence_no = k
    BY <1>2, <1>7
  <1>9. j \in DOMAIN File[a] /\ File[a][j].order_id = o
    BY <1>8 DEF LinesOf
  <1>10. i \in Nat /\ j \in Nat
    BY <1>5, <1>9
  <1>11. j # i /\ ~(i < j)
    BY <1>1, <1>3, <1>4, <1>8
  <1> QED
    BY <1>8, <1>9, <1>10, <1>11

\* What the applier of an open transaction is at.
LEMMA OpenEvent ==
    ASSUME Typed, OpenRowsAreWorkedOn, NEW a \in Applier, InTransaction(a)
    PROVE  /\ next[a] \in DOMAIN File[a]
           /\ EventOf(a) = File[a][next[a]]
           /\ EventOf(a) \in Events
           /\ EventOf(a).order_id \in Order
           /\ EventOf(a).sequence_no \in Nat \ {0}
           /\ IsReadable(EventOf(a))
           /\ \E i \in DOMAIN outbox : outbox[i].tx = a /\ outbox[i].event = EventOf(a)
  <1>1. next[a] \in DOMAIN File[a]
    BY FileIsSequence DEF Typed, OpenRowsAreWorkedOn, Done
  <1>2. PICK i \in DOMAIN outbox : outbox[i].tx = a
    BY DEF OpenRowsAreWorkedOn
  <1>3. outbox[i].event = EventOf(a)
    BY <1>2 DEF OpenRowsAreWorkedOn
  <1> QED
    BY <1>1, <1>2, <1>3, EventAt DEF EventOf

\* Its applier has passed all the earlier events of the order, and they are
\* committed; it is not, for event_id is unique.  So it is the next one.
LEMMA OpenEventIsNext ==
    ASSUME Typed, Unique(outbox), OpenRowsAreWorkedOn, CommittedAreListed, PassedStays,
           NEW a \in Applier, InTransaction(a)
    PROVE  EventOf(a).sequence_no = LastOf(orders[EventOf(a).order_id]) + 1
  <1> DEFINE e == EventOf(a)
             o == e.order_id
             n == LastOf(orders[o])
  <1>1. /\ next[a] \in DOMAIN File[a] /\ e = File[a][next[a]] /\ o \in Order
        /\ e.sequence_no \in Nat \ {0}
    BY OpenEvent
  <1>2. PICK r \in DOMAIN outbox : outbox[r].tx = a /\ outbox[r].event = e
    BY OpenEvent
  <1>3. Lists(outbox, o, n) /\ n \in Nat
    BY <1>1 DEF CommittedAreListed, Lists
  <1> HIDE DEF e, o, n
  <1>4. ASSUME NEW k \in 1 .. e.sequence_no - 1
        PROVE  k \in 1 .. n
    <2>1. PICK j \in DOMAIN File[a] :
            j < next[a] /\ File[a][j].order_id = o /\ File[a][j].sequence_no = k
      BY <1>1, <1>4, EarlierEventsAreInFront DEF e, o
    <2>2. j \in 1 .. next[a] - 1
      BY <2>1, FileIsSequence DEF Typed
    <2>3. Committed(outbox, File[a][j])
      BY <2>2 DEF PassedStays
    <2>4. PICK i \in DOMAIN outbox : SameEvent(outbox[i].event, File[a][j]) /\ outbox[i].tx = Null
      BY <2>3 DEF Committed
    <2>5. Of(outbox, o, i) /\ outbox[i].event.sequence_no = k
      BY <2>1, <2>4 DEF Of, SameEvent
    <2> QED
      BY <1>3, <2>5 DEF Lists
  <1>5. ~(e.sequence_no \in 1 .. n)
    <2> SUFFICES ASSUME e.sequence_no \in 1 .. n
                 PROVE  FALSE
      OBVIOUS
    <2>1. PICK i \in DOMAIN outbox :
            Of(outbox, o, i) /\ outbox[i].event.sequence_no = e.sequence_no
      BY <1>3 DEF Lists
    <2>2. SameEvent(outbox[i].event, outbox[r].event)
      BY <1>2, <2>1 DEF Of, SameEvent, o
    <2>3. i = r
      BY <1>2, <2>1, <2>2 DEF Unique
    <2> QED
      BY <1>2, <2>1, <2>3, OltpAssumption DEF Of
  <1>6. e.sequence_no - 1 = 0 \/ e.sequence_no - 1 \in 1 .. e.sequence_no - 1
    BY <1>1
  <1>7. e.sequence_no = n + 1
    BY <1>1, <1>3, <1>4, <1>5, <1>6
  <1> QED
    BY <1>7 DEF e, o, n

\* So an order has one open transaction at most.
LEMMA OneOpenPerOrder ==
    ASSUME Typed, Unique(outbox), OpenRowsAreWorkedOn, CommittedAreListed, PassedStays,
           NEW a \in Applier, InTransaction(a), NEW b \in Applier, InTransaction(b),
           EventOf(a).order_id = EventOf(b).order_id
    PROVE  a = b
  <1>1. PICK i \in DOMAIN outbox : outbox[i].tx = a /\ outbox[i].event = EventOf(a)
    BY OpenEvent
  <1>2. PICK j \in DOMAIN outbox : outbox[j].tx = b /\ outbox[j].event = EventOf(b)
    BY OpenEvent
  <1>3. EventOf(a).sequence_no = EventOf(b).sequence_no
    BY OpenEventIsNext
  <1>4. i = j
    BY <1>1, <1>2, <1>3 DEF Unique, SameEvent
  <1> QED
    BY <1>1, <1>2, <1>4

-----------------------------------------------------------------------------
(* What the statements do to the committed rows.                           *)

\* The committed rows of new are those of box, in the same order; row j of new
\* was row old[j].
Keeps(box, new, old) ==
    /\ \A j \in DOMAIN new : new[j].tx = Null =>
         old[j] \in DOMAIN box /\ new[j] = box[old[j]]
    /\ \A i, j \in DOMAIN new :
         new[i].tx = Null /\ new[j].tx = Null /\ i < j => old[i] < old[j]
    /\ \A i \in DOMAIN box : box[i].tx = Null =>
         \E j \in DOMAIN new : new[j].tx = Null /\ old[j] = i

LEMMA KeptAreListed ==
    ASSUME NEW box \in Seq(Row), NEW new \in Seq(Row), NEW old, Keeps(box, new, old),
           NEW o, NEW n, Lists(box, o, n)
    PROVE  Lists(new, o, n) /\ EventsIn(new, o) = EventsIn(box, o)
  <1>1. \A j \in DOMAIN new : Of(new, o, j) =>
          old[j] \in DOMAIN box /\ Of(box, o, old[j]) /\ new[j] = box[old[j]]
    BY DEF Keeps, Of
  <1>2. \A j \in DOMAIN new : Of(new, o, j) => new[j].event.sequence_no \in 1 .. n
    BY <1>1 DEF Lists
  <1>3. ASSUME NEW k \in 1 .. n
        PROVE  \E j \in DOMAIN new : Of(new, o, j) /\ new[j].event.sequence_no = k
    <2>1. PICK i \in DOMAIN box : Of(box, o, i) /\ box[i].event.sequence_no = k
      BY DEF Lists
    <2>2. PICK j \in DOMAIN new : new[j].tx = Null /\ old[j] = i
      BY <2>1 DEF Keeps, Of
    <2>3. new[j] = box[i]
      BY <2>2 DEF Keeps
    <2> QED
      BY <2>1, <2>2, <2>3 DEF Of
  <1>4. ASSUME NEW i \in DOMAIN new, NEW j \in DOMAIN new,
               Of(new, o, i), Of(new, o, j), i < j
        PROVE  new[i].event.sequence_no < new[j].event.sequence_no
    <2>1. old[i] < old[j]
      BY <1>4 DEF Keeps, Of
    <2> QED
      BY <1>1, <1>4, <2>1 DEF Lists
  <1>5. Lists(new, o, n)
    BY <1>2, <1>3, <1>4 DEF Lists
  <1> QED
    BY <1>1, <1>5, SameEvents

LEMMA KeptAreCommitted ==
    ASSUME NEW box, NEW new, NEW old, Keeps(box, new, old), NEW event, Committed(box, event)
    PROVE  Committed(new, event)
  <1>1. PICK k \in DOMAIN box : SameEvent(box[k].event, event) /\ box[k].tx = Null
    BY DEF Committed
  <1>2. PICK j \in DOMAIN new : new[j].tx = Null /\ old[j] = k
    BY <1>1 DEF Keeps
  <1>3. new[j] = box[k]
    BY <1>2 DEF Keeps
  <1> QED
    BY <1>1, <1>2, <1>3 DEF Committed

\* The insert of a row whose event_id nobody has.
LEMMA InsertedRow ==
    ASSUME NEW box \in Seq(Row), NEW row \in Row, row.tx # Null,
           \A i \in DOMAIN box : ~SameEvent(box[i].event, row.event),
           Unique(box), OpenIsLast(box)
    PROVE  /\ Append(box, row) \in Seq(Row)
           /\ Unique(Append(box, row))
           /\ OpenIsLast(Append(box, row))
           /\ \E old : Keeps(box, Append(box, row), old)
           /\ DOMAIN Append(box, row) = DOMAIN box \union {Len(box) + 1}
           /\ Append(box, row)[Len(box) + 1] = row
           /\ \A i \in DOMAIN box : Append(box, row)[i] = box[i]
  <1> DEFINE new == Append(box, row)
             old == [j \in DOMAIN box |-> j]
  <1>1. Len(box) \in Nat /\ DOMAIN box = 1 .. Len(box)
    OBVIOUS
  <1>2. /\ new \in Seq(Row) /\ DOMAIN new = DOMAIN box \union {Len(box) + 1}
        /\ new[Len(box) + 1] = row /\ \A i \in DOMAIN box : new[i] = box[i]
    BY <1>1
  <1> HIDE DEF new
  <1>3. Unique(new)
    BY <1>1, <1>2 DEF Unique, SameEvent
  <1>4. OpenIsLast(new)
    BY <1>1, <1>2 DEF OpenIsLast
  <1>5. Keeps(box, new, old)
    BY <1>1, <1>2 DEF Keeps
  <1> HIDE DEF old
  <1> QED
    BY <1>2, <1>3, <1>4, <1>5 DEF new

\* The rollback of a row.
LEMMA RemovedRow ==
    ASSUME NEW box \in Seq(Row), NEW r \in DOMAIN box, box[r].tx # Null,
           Unique(box), OpenIsLast(box)
    PROVE  /\ RemoveAt(box, r) \in Seq(Row)
           /\ Unique(RemoveAt(box, r))
           /\ OpenIsLast(RemoveAt(box, r))
           /\ \E old : Keeps(box, RemoveAt(box, r), old)
           /\ \A j \in DOMAIN RemoveAt(box, r) : \E i \in DOMAIN box :
                i # r /\ RemoveAt(box, r)[j] = box[i]
           /\ \A i \in DOMAIN box : i # r =>
                \E j \in DOMAIN RemoveAt(box, r) : RemoveAt(box, r)[j] = box[i]
  <1> DEFINE new == RemoveAt(box, r)
             old == [j \in DOMAIN new |-> IF j < r THEN j ELSE j + 1]
  <1>1. Len(box) \in Nat /\ DOMAIN box = 1 .. Len(box) /\ r \in Nat
    OBVIOUS
  <1>2. /\ new \in Seq(Row) /\ DOMAIN new = 1 .. Len(box) - 1
        /\ \A j \in 1 .. Len(box) - 1 : new[j] = IF j < r THEN box[j] ELSE box[j + 1]
    <2>1. r \in 1 .. Len(box)
      BY <1>1
    <2>2. /\ new \in Seq(Row) /\ Len(new) = Len(box) - 1
          /\ \A j \in 1 .. Len(box) - 1 : new[j] = IF j < r THEN box[j] ELSE box[j + 1]
      BY <2>1, RemoveAtIs
    <2> HIDE DEF new
    <2> QED
      BY <2>2
  <1> HIDE DEF new
  <1>3. \A j \in DOMAIN new :
          /\ old[j] \in DOMAIN box /\ old[j] # r /\ new[j] = box[old[j]]
          /\ old[j] \in Nat
    BY <1>1, <1>2
  <1>4. \A i, j \in DOMAIN new : i < j => old[i] < old[j]
    BY <1>1, <1>2
  <1>5. \A i, j \in DOMAIN new : old[i] < old[j] => i < j
    BY <1>1, <1>2
  <1>6. ASSUME NEW i \in DOMAIN box, i # r
        PROVE  \E j \in DOMAIN new : old[j] = i
    <2>1. CASE i < r
      <3>1. i \in DOMAIN new /\ old[i] = i
        BY <1>1, <1>2, <2>1
      <3> HIDE DEF old
      <3> QED
        BY <3>1
    <2>2. CASE r < i
      <3>1. i - 1 \in DOMAIN new /\ old[i - 1] = i
        BY <1>1, <1>2, <2>2
      <3> HIDE DEF old
      <3> QED
        BY <3>1
    <2> QED
      BY <1>1, <1>6, <2>1, <2>2
  <1>7. \A i, j \in DOMAIN new : old[i] = old[j] => i = j
    BY <1>1, <1>2
  <1> HIDE DEF old
  <1>8. Unique(new)
    BY <1>3, <1>7 DEF Unique
  <1>9. OpenIsLast(new)
    BY <1>3, <1>5 DEF OpenIsLast
  <1>10. Keeps(box, new, old)
    <2>1. \A i \in DOMAIN box : box[i].tx = Null =>
            \E j \in DOMAIN new : new[j].tx = Null /\ old[j] = i
      BY <1>3, <1>6
    <2> QED
      BY <1>3, <1>4, <2>1 DEF Keeps
  <1>11. /\ \A j \in DOMAIN new : \E i \in DOMAIN box : i # r /\ new[j] = box[i]
         /\ \A i \in DOMAIN box : i # r => \E j \in DOMAIN new : new[j] = box[i]
    BY <1>3, <1>6
  <1> QED
    BY <1>2, <1>8, <1>9, <1>10, <1>11 DEF new

\* The outbox when the transaction of a commits, as Commit has it.
CommittedBy(box, a) ==
    [i \in DOMAIN box |-> IF box[i].tx = a THEN [box[i] EXCEPT !.tx = Null] ELSE box[i]]

\* Row r of box is committed in new.
OneCommitted(box, new, r) ==
    /\ new \in Seq(Row)
    /\ DOMAIN new = DOMAIN box
    /\ new[r].event = box[r].event
    /\ new[r].tx = Null
    /\ \A i \in DOMAIN box : i # r => new[i] = box[i]

LEMMA CommittedByIs ==
    ASSUME NEW box \in Seq(Row), NEW a, a # Null, NEW r \in DOMAIN box, box[r].tx = a,
           \A i \in DOMAIN box : box[i].tx = a => i = r
    PROVE  OneCommitted(box, CommittedBy(box, a), r)
  <1>1. Len(box) \in Nat /\ DOMAIN box = 1 .. Len(box) /\ \A i \in DOMAIN box : box[i] \in Row
    OBVIOUS
  <1>2. \A row \in Row : /\ [row EXCEPT !.tx = Null] \in Row
                         /\ [row EXCEPT !.tx = Null].event = row.event
                         /\ [row EXCEPT !.tx = Null].tx = Null
    BY DEF Row
  <1> DEFINE new == CommittedBy(box, a)
  <1>3. /\ DOMAIN new = 1 .. Len(box)
        /\ new = [i \in 1 .. Len(box) |-> new[i]]
        /\ \A i \in DOMAIN box :
             new[i] = IF box[i].tx = a THEN [box[i] EXCEPT !.tx = Null] ELSE box[i]
    BY <1>1 DEF CommittedBy
  <1> HIDE DEF new
  <1>4. \A i \in 1 .. Len(box) : new[i] \in Row
    BY <1>1, <1>2, <1>3
  <1>5. new \in Seq(Row)
    BY <1>1, <1>3, <1>4
  <1> QED
    BY <1>1, <1>2, <1>3, <1>5 DEF OneCommitted, new

\* The commit of the only open row of its order, which has the next number.
LEMMA CommittedRow ==
    ASSUME NEW box \in Seq(Row), NEW new, NEW r \in DOMAIN box, OneCommitted(box, new, r),
           box[r].tx # Null, Unique(box), OpenIsLast(box),
           NEW n, Lists(box, box[r].event.order_id, n),
           box[r].event.sequence_no = n + 1,
           \A i \in DOMAIN box :
              box[i].tx # Null /\ box[i].event.order_id = box[r].event.order_id => i = r
    PROVE  /\ Unique(new)
           /\ OpenIsLast(new)
           /\ Lists(new, box[r].event.order_id, n + 1)
           /\ EventsIn(new, box[r].event.order_id)
                = Append(EventsIn(box, box[r].event.order_id), box[r].event)
           /\ \A o, m : o # box[r].event.order_id /\ Lists(box, o, m) =>
                Lists(new, o, m) /\ EventsIn(new, o) = EventsIn(box, o)
           /\ \A event : Committed(box, event) => Committed(new, event)
           /\ Committed(new, box[r].event)
  <1> DEFINE e == box[r].event
             o == e.order_id
  <1>0. /\ new \in Seq(Row) /\ DOMAIN new = DOMAIN box /\ DOMAIN box = 1 .. Len(box)
        /\ Len(box) \in Nat /\ n \in Nat /\ r \in DOMAIN new
    BY DEF OneCommitted, Lists
  <1>1. \A i \in DOMAIN box : new[i].event = box[i].event
    BY DEF OneCommitted
  <1>2. new[r].tx = Null /\ \A i \in DOMAIN box : i # r => new[i] = box[i]
    BY DEF OneCommitted
  <1>3. Unique(new)
    BY <1>0, <1>1 DEF Unique, SameEvent
  <1>4. OpenIsLast(new)
    <2> SUFFICES ASSUME NEW i \in DOMAIN box, NEW j \in DOMAIN box,
                        new[i].tx = Null, new[j].tx # Null,
                        new[i].event.order_id = new[j].event.order_id
                 PROVE  i < j
      BY <1>0 DEF OpenIsLast
    <2>1. j # r /\ box[j].tx # Null
      BY <1>2
    <2>2. i # r
      BY <1>1, <2>1
    <2> QED
      BY <1>1, <1>2, <2>1, <2>2 DEF OpenIsLast
  <1>5. \A i \in DOMAIN box : Of(new, o, i) <=> i = r \/ Of(box, o, i)
    BY <1>1, <1>2 DEF Of
  <1>6. Lists(new, o, n + 1)
    <2>1. e.sequence_no = n + 1
      OBVIOUS
    <2>2. ASSUME NEW i \in DOMAIN new, Of(new, o, i)
          PROVE  new[i].event.sequence_no \in 1 .. n + 1
      <3>1. CASE i = r
        BY <1>0, <1>1, <2>1, <3>1
      <3>2. CASE i # r
        <4>1. box[i].event.sequence_no \in 1 .. n
          BY <1>0, <1>5, <2>2, <3>2 DEF Lists
        <4> QED
          BY <1>0, <1>1, <4>1
      <3> QED
        BY <3>1, <3>2
    <2>3. ASSUME NEW k \in 1 .. n + 1
          PROVE  \E i \in DOMAIN new : Of(new, o, i) /\ new[i].event.sequence_no = k
      <3>1. CASE k = n + 1
        BY <1>0, <1>1, <1>5, <2>1, <3>1
      <3>2. CASE k # n + 1
        <4>1. k \in 1 .. n
          BY <1>0, <3>2
        <4>2. PICK i \in DOMAIN box : Of(box, o, i) /\ box[i].event.sequence_no = k
          BY <4>1 DEF Lists
        <4> QED
          BY <1>0, <1>1, <1>5, <4>2
      <3> QED
        BY <3>1, <3>2
    <2>4. ASSUME NEW i \in DOMAIN new, NEW j \in DOMAIN new,
                 Of(new, o, i), Of(new, o, j), i < j
          PROVE  new[i].event.sequence_no < new[j].event.sequence_no
      <3>1. i \in DOMAIN box /\ j \in DOMAIN box
        BY <1>0
      <3>2. CASE i = r
        <4>1. j # r /\ Of(box, o, j)
          BY <1>0, <1>5, <2>4, <3>1, <3>2
        <4>2. j < r
          BY <4>1, <3>1 DEF OpenIsLast, Of
        <4> QED
          BY <1>0, <2>4, <3>2, <4>2
      <3>3. CASE i # r /\ j = r
        <4>1. box[i].event.sequence_no \in 1 .. n
          BY <1>5, <2>4, <3>1, <3>3 DEF Lists
        <4> QED
          BY <1>0, <1>1, <2>1, <3>1, <3>3, <4>1
      <3>4. CASE i # r /\ j # r
        <4>1. Of(box, o, i) /\ Of(box, o, j)
          BY <1>5, <2>4, <3>1, <3>4
        <4>2. box[i].event.sequence_no < box[j].event.sequence_no
          BY <2>4, <3>1, <4>1 DEF Lists
        <4> QED
          BY <1>1, <3>1, <4>2
      <3> QED
        BY <3>2, <3>3, <3>4
    <2> QED
      BY <1>0, <2>2, <2>3, <2>4 DEF Lists
  <1>7. EventsIn(new, o) = Append(EventsIn(box, o), e)
    <2>1. e \in Events
      <3>1. box[r] \in Row
        OBVIOUS
      <3> QED
        BY <3>1 DEF Row
    <2>2. \A j \in DOMAIN new : Of(new, o, j) =>
            \/ new[j].event = e
            \/ \E i \in DOMAIN box : Of(box, o, i) /\ box[i].event = new[j].event
      BY <1>0, <1>1, <1>5
    <2>3. Lists(box, o, n) /\ e.sequence_no = n + 1
      OBVIOUS
    <2>4. new \in Seq(Row) /\ Lists(new, o, n + 1)
      BY <1>0, <1>6
    <2> HIDE DEF e, o
    <2> QED
      BY <2>1, <2>2, <2>3, <2>4, OneMoreEvent
  <1>8. ASSUME NEW p, NEW m, p # o, Lists(box, p, m)
        PROVE  Lists(new, p, m) /\ EventsIn(new, p) = EventsIn(box, p)
    <2>1. \A i \in DOMAIN box : Of(new, p, i) <=> Of(box, p, i)
      BY <1>1, <1>2, <1>8 DEF Of
    <2>2. Lists(new, p, m)
      <3>1. m \in Nat
        BY <1>8 DEF Lists
      <3>2. \A i \in DOMAIN new : Of(new, p, i) => new[i].event.sequence_no \in 1 .. m
        BY <1>0, <1>1, <1>8, <2>1 DEF Lists
      <3>3. ASSUME NEW k \in 1 .. m
            PROVE  \E i \in DOMAIN new : Of(new, p, i) /\ new[i].event.sequence_no = k
        <4>1. PICK i \in DOMAIN box : Of(box, p, i) /\ box[i].event.sequence_no = k
          BY <1>8 DEF Lists
        <4> QED
          BY <1>0, <1>1, <2>1, <4>1
      <3>4. ASSUME NEW i \in DOMAIN new, NEW j \in DOMAIN new,
                   Of(new, p, i), Of(new, p, j), i < j
            PROVE  new[i].event.sequence_no < new[j].event.sequence_no
        <4>1. box[i].event.sequence_no < box[j].event.sequence_no
          BY <1>0, <1>8, <2>1, <3>4 DEF Lists
        <4> QED
          BY <1>0, <1>1, <4>1
      <3> QED
        BY <3>1, <3>2, <3>3, <3>4 DEF Lists
    <2>3. \A j \in DOMAIN new : Of(new, p, j) =>
            \E i \in DOMAIN box : Of(box, p, i) /\ box[i].event = new[j].event
      BY <1>0, <1>1, <2>1
    <2> QED
      BY <1>0, <1>8, <2>2, <2>3, SameEvents
  <1>9. \A event : Committed(box, event) => Committed(new, event)
    BY <1>0, <1>1, <1>2 DEF Committed, SameEvent
  <1>10. Committed(new, e)
    BY <1>0, <1>1, <1>2 DEF Committed, SameEvent
  <1> QED
    BY <1>3, <1>4, <1>6, <1>7, <1>8, <1>9, <1>10

-----------------------------------------------------------------------------
(* Inv is inductive.                                                       *)

LEMMA InitHolds ==
    Init => Inv
  <1> SUFFICES ASSUME Init
               PROVE  Inv
    OBVIOUS
  <1> USE DEF Init
  <1>0. outbox = << >> /\ Len(outbox) = 0 /\ DOMAIN outbox = {} /\ outbox \in Seq(Row)
    OBVIOUS
  <1>1. Typed
    <2>1. \A a \in Applier : 1 \in 1 .. Len(File[a]) + 1
      BY FileIsSequence
    <2>2. crashes \in 0 .. MaxCrash
      BY OltpAssumption
    <2> QED
      BY <1>0, <2>1, <2>2 DEF Typed, Stages
  <1>2. Unique(outbox) /\ OpenIsLast(outbox)
    BY <1>0 DEF Unique, OpenIsLast
  <1>3. OpenRowsAreWorkedOn /\ PlannedStays
    BY <1>0 DEF OpenRowsAreWorkedOn, InTransaction, PlannedStays
  <1>4. ASSUME NEW o \in Order
        PROVE  orders[o] = Null /\ Lists(outbox, o, 0)
    BY <1>0 DEF Lists
  <1>5. CommittedAreListed
    BY <1>4 DEF CommittedAreListed, LastOf
  <1>6. CommittedAreFolded
    <2> SUFFICES ASSUME NEW o \in Order
                 PROVE  orders[o] = OrderAfter(EventsIn(outbox, o))
      BY DEF CommittedAreFolded
    <2>1. EventsIn(outbox, o) \in Seq(Events) /\ Len(EventsIn(outbox, o)) = 0
      BY <1>0, <1>4, EventsAre
    <2>2. EventsIn(outbox, o) = << >>
      BY <2>1
    <2> QED
      BY <1>4, <2>2, OrderAfterNone
  <1>7. PassedStays
    BY DEF PassedStays
  <1> QED
    BY <1>1, <1>2, <1>3, <1>5, <1>6, <1>7 DEF Inv

LEMMA StutterHolds ==
    Inv /\ UNCHANGED vars => Inv'
  BY DEF Inv, vars, Typed, Unique, OpenIsLast, OpenRowsAreWorkedOn, CommittedAreListed,
         CommittedAreFolded, PlannedStays, PassedStays, InTransaction, EventOf, Done

\* The event that is skipped is a committed one.
LEMMA SkipHolds ==
    ASSUME Inv, NEW a \in Applier, Skip(a)
    PROVE  Inv'
  <1> USE DEF Inv
  <1>0. /\ stage[a] = "begin" /\ ~Done(a) /\ next' = [next EXCEPT ![a] = @ + 1]
        /\ UNCHANGED << orders, outbox, stage, work, crashes >>
        /\ next[a] \in Nat
    BY DEF Skip, Typed
  <1>1. /\ next'[a] = next[a] + 1 /\ \A b \in Applier : b # a => next'[b] = next[b]
        /\ next' \in [Applier -> Nat]
    BY <1>0 DEF Typed
  <1>2. Typed'
    <2>1. next[a] + 1 \in 1 .. Len(File[a]) + 1
      BY <1>0, FileIsSequence DEF Typed, Done
    <2> QED
      BY <1>0, <1>1, <2>1 DEF Typed
  <1>3. ASSUME NEW b \in Applier, InTransaction(b)
        PROVE  b # a /\ EventOf(b)' = EventOf(b) /\ Done(b)' = Done(b)
    BY <1>0, <1>1, <1>3 DEF InTransaction, EventOf, Done
  <1>4. OpenRowsAreWorkedOn'
    <2> SUFFICES ASSUME NEW b \in Applier
                 PROVE  /\ \A i \in DOMAIN outbox : outbox[i].tx = b =>
                             InTransaction(b)' /\ outbox[i].event = EventOf(b)'
                        /\ InTransaction(b)' =>
                             ~Done(b)' /\ \E i \in DOMAIN outbox : outbox[i].tx = b
      BY <1>0 DEF OpenRowsAreWorkedOn
    <2>1. InTransaction(b)' = InTransaction(b)
      BY <1>0 DEF InTransaction
    <2> QED
      BY <1>3, <2>1 DEF OpenRowsAreWorkedOn
  <1>5. PlannedStays'
    <2> SUFFICES ASSUME NEW b \in Applier, stage[b] = "planned"
                 PROVE  /\ PlanHolds(orders[EventOf(b)'.order_id], EventOf(b)')
                        /\ work[b] = PlanEffect(orders[EventOf(b)'.order_id], EventOf(b)')
      BY <1>0 DEF PlannedStays
    <2>1. EventOf(b)' = EventOf(b)
      BY <1>3 DEF InTransaction
    <2> QED
      BY <2>1 DEF PlannedStays
  <1>6. PassedStays'
    <2> SUFFICES ASSUME NEW b \in Applier, NEW i \in 1 .. next'[b] - 1
                 PROVE  Committed(outbox, File[b][i])
      BY <1>0 DEF PassedStays
    <2>1. next[b] \in Nat
      BY DEF Typed
    <2>2. CASE i \in 1 .. next[b] - 1
      BY <2>2 DEF PassedStays
    <2>3. CASE i \notin 1 .. next[b] - 1
      <3>1. b = a /\ i = next[a]
        BY <1>0, <1>1, <2>1, <2>3
      <3>2. AlreadyApplied(EventOf(a))
        BY DEF Skip
      <3> QED
        BY <3>1, <3>2 DEF AlreadyApplied, SameId, Committed, SameEvent, EventOf
    <2> QED
      BY <2>2, <2>3
  <1>7. /\ Unique(outbox') /\ OpenIsLast(outbox')
        /\ CommittedAreListed' /\ CommittedAreFolded'
    BY <1>0 DEF CommittedAreListed, CommittedAreFolded
  <1> QED
    BY <1>2, <1>4, <1>5, <1>6, <1>7

\* The insert: nobody has the event_id, and the row is the last one.
LEMMA InsertOutboxHolds ==
    ASSUME Inv, NEW a \in Applier, InsertOutbox(a)
    PROVE  Inv'
  <1> USE DEF Inv
  <1> DEFINE e == EventOf(a)
             row == [event |-> e, tx |-> a]
  <1>0. /\ stage[a] = "begin" /\ ~Done(a) /\ outbox' = Append(outbox, row)
        /\ stage' = [stage EXCEPT ![a] = "inserted"]
        /\ UNCHANGED << orders, next, work, crashes >>
        /\ ~AlreadyApplied(e) /\ ~Held(e)
    BY DEF InsertOutbox
  <1>1. next[a] \in DOMAIN File[a] /\ e = File[a][next[a]] /\ e \in Events
    <2>1. next[a] \in DOMAIN File[a]
      BY <1>0, FileIsSequence DEF Typed, Done
    <2> QED
      BY <2>1, EventAt DEF EventOf
  <1>2. a # Null
    BY OltpAssumption
  <1>3. row \in Row /\ row.tx = a /\ row.event = e
    BY <1>1 DEF Row
  <1>4. \A i \in DOMAIN outbox : ~SameEvent(outbox[i].event, e)
    BY <1>0 DEF AlreadyApplied, Held, SameId, SameEvent
  <1> HIDE DEF e, row
  <1> DEFINE l == Len(outbox) + 1
  <1>5. /\ outbox' \in Seq(Row) /\ Unique(outbox') /\ OpenIsLast(outbox')
        /\ \E old : Keeps(outbox, outbox', old)
        /\ DOMAIN outbox' = DOMAIN outbox \union {l} /\ outbox'[l] = row
        /\ \A i \in DOMAIN outbox : outbox'[i] = outbox[i]
    BY <1>0, <1>2, <1>3, <1>4, InsertedRow DEF Typed
  <1> HIDE DEF l
  <1>6. PICK old : Keeps(outbox, outbox', old)
    BY <1>5
  <1>7. stage'[a] = "inserted" /\ \A b \in Applier : b # a => stage'[b] = stage[b]
    BY <1>0 DEF Typed
  <1>8. Typed'
    BY <1>0, <1>5 DEF Typed, Stages
  <1>9. \A b \in Applier : EventOf(b)' = EventOf(b) /\ Done(b)' = Done(b)
    BY <1>0 DEF EventOf, Done
  <1>10. /\ InTransaction(a)' /\ ~InTransaction(a)
         /\ \A b \in Applier : b # a => InTransaction(b)' = InTransaction(b)
    BY <1>0, <1>7 DEF InTransaction
  <1>11. OpenRowsAreWorkedOn'
    <2> SUFFICES ASSUME NEW b \in Applier
                 PROVE  /\ \A i \in DOMAIN outbox' : outbox'[i].tx = b =>
                             InTransaction(b)' /\ outbox'[i].event = EventOf(b)'
                        /\ InTransaction(b)' =>
                             ~Done(b)' /\ \E i \in DOMAIN outbox' : outbox'[i].tx = b
      BY DEF OpenRowsAreWorkedOn
    <2>1. CASE b = a
      <3>1. \A i \in DOMAIN outbox : outbox[i].tx # a
        BY <1>10 DEF OpenRowsAreWorkedOn
      <3>2. \A i \in DOMAIN outbox' : outbox'[i].tx = a => outbox'[i].event = EventOf(a)
        BY <1>3, <1>5, <3>1 DEF e
      <3>3. ~Done(a) /\ outbox'[l].tx = a /\ l \in DOMAIN outbox'
        BY <1>0, <1>3, <1>5
      <3> QED
        BY <1>9, <1>10, <2>1, <3>2, <3>3
    <2>2. CASE b # a
      <3>1. \A i \in DOMAIN outbox' : outbox'[i].tx = b =>
              i \in DOMAIN outbox /\ outbox[i].tx = b /\ outbox'[i].event = outbox[i].event
        BY <1>3, <1>5, <2>2
      <3>2. \A i \in DOMAIN outbox' : outbox'[i].tx = b =>
              InTransaction(b) /\ outbox'[i].event = EventOf(b)
        BY <3>1 DEF OpenRowsAreWorkedOn
      <3>3. InTransaction(b) => ~Done(b) /\ \E i \in DOMAIN outbox' : outbox'[i].tx = b
        BY <1>5 DEF OpenRowsAreWorkedOn
      <3> QED
        BY <1>9, <1>10, <2>2, <3>2, <3>3
    <2> QED
      BY <2>1, <2>2
  <1>12. ASSUME NEW o \in Order
         PROVE  /\ Lists(outbox', o, LastOf(orders[o]))
                /\ EventsIn(outbox', o) = EventsIn(outbox, o)
    <2>1. Lists(outbox, o, LastOf(orders[o])) /\ outbox \in Seq(Row)
      BY DEF CommittedAreListed, Typed
    <2> QED
      BY <1>5, <1>6, <2>1, KeptAreListed
  <1>13. CommittedAreListed' /\ CommittedAreFolded'
    BY <1>0, <1>12 DEF CommittedAreListed, CommittedAreFolded
  <1>14. PlannedStays'
    <2> SUFFICES ASSUME NEW b \in Applier, stage'[b] = "planned"
                 PROVE  /\ PlanHolds(orders[EventOf(b).order_id], EventOf(b))
                        /\ work[b] = PlanEffect(orders[EventOf(b).order_id], EventOf(b))
      BY <1>0, <1>9 DEF PlannedStays
    <2>1. stage[b] = "planned"
      BY <1>7
    <2> QED
      BY <2>1 DEF PlannedStays
  <1>15. PassedStays'
    BY <1>0, <1>6, KeptAreCommitted DEF PassedStays
  <1> QED
    BY <1>5, <1>8, <1>11, <1>13, <1>14, <1>15

\* The plan is made of the order as it is.
LEMMA ExecutePlanHolds ==
    ASSUME Inv, NEW a \in Applier, ExecutePlan(a)
    PROVE  Inv'
  <1> USE DEF Inv
  <1>0. /\ stage[a] = "inserted"
        /\ PlanHolds(orders[EventOf(a).order_id], EventOf(a))
        /\ work' = [work EXCEPT ![a] = PlanEffect(orders[EventOf(a).order_id], EventOf(a))]
        /\ stage' = [stage EXCEPT ![a] = "planned"]
        /\ UNCHANGED << orders, outbox, next, crashes >>
    BY DEF ExecutePlan
  <1>1. /\ stage'[a] = "planned" /\ \A b \in Applier : b # a => stage'[b] = stage[b]
        /\ work'[a] = PlanEffect(orders[EventOf(a).order_id], EventOf(a))
        /\ \A b \in Applier : b # a => work'[b] = work[b]
        /\ DOMAIN work' = Applier
    BY <1>0 DEF Typed
  <1>2. Typed'
    BY <1>0, <1>1 DEF Typed, Stages
  <1>3. \A b \in Applier :
          EventOf(b)' = EventOf(b) /\ Done(b)' = Done(b) /\ InTransaction(b)' = InTransaction(b)
    BY <1>0, <1>1 DEF EventOf, Done, InTransaction
  <1>4. OpenRowsAreWorkedOn'
    <2> SUFFICES ASSUME NEW b \in Applier
                 PROVE  /\ \A i \in DOMAIN outbox : outbox[i].tx = b =>
                             InTransaction(b)' /\ outbox[i].event = EventOf(b)'
                        /\ InTransaction(b)' =>
                             ~Done(b)' /\ \E i \in DOMAIN outbox : outbox[i].tx = b
      BY <1>0 DEF OpenRowsAreWorkedOn
    <2> QED
      BY <1>3 DEF OpenRowsAreWorkedOn
  <1>5. PlannedStays'
    <2> SUFFICES ASSUME NEW b \in Applier, stage'[b] = "planned"
                 PROVE  /\ PlanHolds(orders[EventOf(b).order_id], EventOf(b))
                        /\ work'[b] = PlanEffect(orders[EventOf(b).order_id], EventOf(b))
      BY <1>0, <1>3 DEF PlannedStays
    <2>1. CASE b = a
      BY <1>0, <1>1, <2>1
    <2>2. CASE b # a
      BY <1>1, <2>2 DEF PlannedStays
    <2> QED
      BY <2>1, <2>2
  <1>6. /\ Unique(outbox') /\ OpenIsLast(outbox')
        /\ CommittedAreListed' /\ CommittedAreFolded' /\ PassedStays'
    BY <1>0 DEF CommittedAreListed, CommittedAreFolded, PassedStays
  <1> QED
    BY <1>2, <1>4, <1>5, <1>6

\* A rollback takes away the row of its transaction and no other.
LEMMA RolledBack ==
    ASSUME Inv, NEW a \in Applier
    PROVE  /\ WithoutRowOf(a) \in Seq(Row)
           /\ Unique(WithoutRowOf(a))
           /\ OpenIsLast(WithoutRowOf(a))
           /\ \E old : Keeps(outbox, WithoutRowOf(a), old)
           /\ \A j \in DOMAIN WithoutRowOf(a) : \E i \in DOMAIN outbox :
                outbox[i].tx # a /\ WithoutRowOf(a)[j] = outbox[i]
           /\ \A i \in DOMAIN outbox : outbox[i].tx # a =>
                \E j \in DOMAIN WithoutRowOf(a) : WithoutRowOf(a)[j] = outbox[i]
  <1> DEFINE rows == {i \in DOMAIN outbox : outbox[i].tx = a}
  <1>0. outbox \in Seq(Row) /\ Unique(outbox) /\ OpenIsLast(outbox) /\ a # Null
    BY OltpAssumption DEF Inv, Typed
  <1>1. CASE rows = {}
    <2>1. WithoutRowOf(a) = outbox
      BY <1>1 DEF WithoutRowOf
    <2>2. \A i \in DOMAIN outbox : outbox[i].tx # a
      BY <1>1
    <2> DEFINE old == [j \in DOMAIN outbox |-> j]
    <2>3. DOMAIN outbox = 1 .. Len(outbox) /\ Len(outbox) \in Nat
      BY <1>0
    <2>4. Keeps(outbox, outbox, old)
      BY <2>3 DEF Keeps
    <2> HIDE DEF old
    <2> QED
      BY <1>0, <2>1, <2>2, <2>4
  <1>2. CASE rows # {}
    <2> DEFINE r == CHOOSE i \in rows : TRUE
    <2>1. r \in DOMAIN outbox /\ outbox[r].tx = a
      BY <1>2
    <2>2. WithoutRowOf(a) = RemoveAt(outbox, r)
      BY <1>2 DEF WithoutRowOf
    <2> HIDE DEF r
    <2>3. \A i \in DOMAIN outbox : outbox[i].tx = a => i = r
      BY <1>0, <2>1 DEF Inv, OpenRowsAreWorkedOn, Unique, SameEvent
    <2>4. outbox[r].tx # Null
      BY <1>0, <2>1
    <2> DEFINE new == RemoveAt(outbox, r)
    <2>5. /\ new \in Seq(Row) /\ Unique(new) /\ OpenIsLast(new)
          /\ \E old : Keeps(outbox, new, old)
          /\ \A j \in DOMAIN new : \E i \in DOMAIN outbox : i # r /\ new[j] = outbox[i]
          /\ \A i \in DOMAIN outbox : i # r => \E j \in DOMAIN new : new[j] = outbox[i]
      BY <1>0, <2>1, <2>4, RemovedRow
    <2> HIDE DEF new
    <2>6. /\ \A j \in DOMAIN new : \E i \in DOMAIN outbox :
               outbox[i].tx # a /\ new[j] = outbox[i]
          /\ \A i \in DOMAIN outbox : outbox[i].tx # a =>
               \E j \in DOMAIN new : new[j] = outbox[i]
      BY <2>1, <2>3, <2>5
    <2>7. WithoutRowOf(a) = new
      BY <2>2 DEF new
    <2> QED
      BY <2>5, <2>6, <2>7
  <1> QED
    BY <1>1, <1>2

LEMMA RollbackHolds ==
    ASSUME Inv, NEW a \in Applier,
           outbox' = WithoutRowOf(a), orders' = orders, Typed',
           next'[a] <= next[a], ~InTransaction(a)',
           \A b \in Applier \ {a} :
              next'[b] = next[b] /\ stage'[b] = stage[b] /\ work'[b] = work[b]
    PROVE  Inv'
  <1> USE DEF Inv
  <1>1. /\ outbox' \in Seq(Row) /\ Unique(outbox') /\ OpenIsLast(outbox')
        /\ \E old : Keeps(outbox, outbox', old)
        /\ \A j \in DOMAIN outbox' : \E i \in DOMAIN outbox :
             outbox[i].tx # a /\ outbox'[j] = outbox[i]
        /\ \A i \in DOMAIN outbox : outbox[i].tx # a =>
             \E j \in DOMAIN outbox' : outbox'[j] = outbox[i]
    BY RolledBack
  <1>2. PICK old : Keeps(outbox, outbox', old)
    BY <1>1
  <1>3. \A b \in Applier : b # a =>
          /\ EventOf(b)' = EventOf(b) /\ Done(b)' = Done(b)
          /\ InTransaction(b)' = InTransaction(b)
    BY DEF EventOf, Done, InTransaction
  <1>4. OpenRowsAreWorkedOn'
    <2> SUFFICES ASSUME NEW b \in Applier
                 PROVE  /\ \A j \in DOMAIN outbox' : outbox'[j].tx = b =>
                             InTransaction(b)' /\ outbox'[j].event = EventOf(b)'
                        /\ InTransaction(b)' =>
                             ~Done(b)' /\ \E j \in DOMAIN outbox' : outbox'[j].tx = b
      BY DEF OpenRowsAreWorkedOn
    <2>1. CASE b = a
      BY <1>1, <2>1
    <2>2. CASE b # a
      <3>1. \A j \in DOMAIN outbox' : outbox'[j].tx = b =>
              InTransaction(b) /\ outbox'[j].event = EventOf(b)
        BY <1>1 DEF OpenRowsAreWorkedOn
      <3>2. InTransaction(b) => ~Done(b) /\ \E j \in DOMAIN outbox' : outbox'[j].tx = b
        BY <1>1, <2>2 DEF OpenRowsAreWorkedOn
      <3> QED
        BY <1>3, <2>2, <3>1, <3>2
    <2> QED
      BY <2>1, <2>2
  <1>5. ASSUME NEW o \in Order
        PROVE  /\ Lists(outbox', o, LastOf(orders[o]))
               /\ EventsIn(outbox', o) = EventsIn(outbox, o)
    <2>1. Lists(outbox, o, LastOf(orders[o])) /\ outbox \in Seq(Row)
      BY DEF CommittedAreListed, Typed
    <2> QED
      BY <1>1, <1>2, <2>1, KeptAreListed
  <1>6. CommittedAreListed' /\ CommittedAreFolded'
    BY <1>5 DEF CommittedAreListed, CommittedAreFolded
  <1>7. PlannedStays'
    <2> SUFFICES ASSUME NEW b \in Applier, stage'[b] = "planned"
                 PROVE  LET order == orders[EventOf(b)'.order_id]
                        IN  /\ PlanHolds(order, EventOf(b)')
                            /\ work'[b] = PlanEffect(order, EventOf(b)')
      BY DEF PlannedStays
    <2>1. b # a /\ stage[b] = "planned" /\ work'[b] = work[b]
      BY DEF InTransaction
    <2>2. EventOf(b)' = EventOf(b)
      BY <1>3, <2>1
    <2> QED
      BY <2>1, <2>2 DEF PlannedStays
  <1>8. PassedStays'
    <2> SUFFICES ASSUME NEW b \in Applier, NEW i \in 1 .. next'[b] - 1
                 PROVE  Committed(outbox', File[b][i])
      BY DEF PassedStays
    <2>1. next[b] \in Nat /\ next'[b] \in Nat /\ next'[b] <= next[b]
      BY DEF Typed
    <2>2. i \in 1 .. next[b] - 1
      BY <2>1
    <2> QED
      BY <1>2, <2>2, KeptAreCommitted DEF PassedStays
  <1> QED
    BY <1>1, <1>4, <1>6, <1>7, <1>8

LEMMA PlanFailsHolds ==
    ASSUME Inv, NEW a \in Applier, PlanFails(a)
    PROVE  Inv'
  <1>0. /\ outbox' = WithoutRowOf(a) /\ stage' = [stage EXCEPT ![a] = "raised"]
        /\ UNCHANGED << orders, next, work, crashes >>
    BY DEF PlanFails
  <1>1. /\ Typed /\ WithoutRowOf(a) \in Seq(Row)
    BY RolledBack DEF Inv
  <1>2. stage'[a] = "raised" /\ \A b \in Applier \ {a} : stage'[b] = stage[b]
    BY <1>0, <1>1 DEF Typed
  <1>3. Typed'
    BY <1>0, <1>1 DEF Typed, Stages
  <1>4. next[a] <= next[a]
    BY <1>1 DEF Typed
  <1> QED
    BY <1>0, <1>2, <1>3, <1>4, RollbackHolds DEF InTransaction

LEMMA CrashHolds ==
    ASSUME Inv, NEW a \in Applier, Crash(a)
    PROVE  Inv'
  <1>0. /\ outbox' = WithoutRowOf(a) /\ stage' = [stage EXCEPT ![a] = "begin"]
        /\ next' = [next EXCEPT ![a] = 1] /\ work' = [work EXCEPT ![a] = Null]
        /\ orders' = orders /\ crashes' = crashes + 1 /\ crashes < MaxCrash
    BY DEF Crash
  <1>1. Typed /\ WithoutRowOf(a) \in Seq(Row)
    BY RolledBack DEF Inv
  <1>2. /\ stage'[a] = "begin" /\ next'[a] = 1
        /\ \A b \in Applier \ {a} :
             next'[b] = next[b] /\ stage'[b] = stage[b] /\ work'[b] = work[b]
        /\ DOMAIN work' = Applier /\ next' \in [Applier -> Nat]
        /\ stage' \in [Applier -> Stages]
    BY <1>0, <1>1 DEF Typed, Stages
  <1>3. Typed'
    <2>1. ASSUME NEW b \in Applier
          PROVE  next'[b] \in 1 .. Len(File[b]) + 1
      <3>1. 1 \in 1 .. Len(File[b]) + 1
        BY FileIsSequence
      <3>2. next[b] \in 1 .. Len(File[b]) + 1
        BY <1>1 DEF Typed
      <3> QED
        BY <1>2, <3>1, <3>2
    <2>2. crashes' \in 0 .. MaxCrash
      BY <1>0, <1>1, OltpAssumption DEF Typed
    <2> QED
      BY <1>0, <1>1, <1>2, <2>1, <2>2 DEF Typed
  <1>4. next'[a] <= next[a]
    BY <1>1, <1>2 DEF Typed
  <1> QED
    BY <1>0, <1>2, <1>3, <1>4, RollbackHolds DEF InTransaction

\* The commit: the order and the row become visible together, and the row is
\* of the next event of the order.
LEMMA CommitHolds ==
    ASSUME Inv, NEW a \in Applier, Commit(a)
    PROVE  Inv'
  <1> USE DEF Inv
  <1> DEFINE e == EventOf(a)
             o == e.order_id
             n == LastOf(orders[o])
  <1>0. /\ stage[a] = "planned"
        /\ orders' = [orders EXCEPT ![o] = work[a]]
        /\ next' = [next EXCEPT ![a] = @ + 1]
        /\ stage' = [stage EXCEPT ![a] = "begin"]
        /\ work' = [work EXCEPT ![a] = Null]
        /\ crashes' = crashes
        /\ outbox' = CommittedBy(outbox, a)
    BY DEF Commit, CommittedBy
  <1>1. InTransaction(a) /\ a # Null
    BY <1>0, OltpAssumption DEF InTransaction
  <1>2. /\ next[a] \in DOMAIN File[a] /\ e = File[a][next[a]] /\ e \in Events
        /\ o \in Order /\ IsReadable(e)
    BY <1>1, OpenEvent
  <1>3. e.sequence_no = n + 1
    BY <1>1, OpenEventIsNext
  <1>4. PICK r \in DOMAIN outbox : outbox[r].tx = a /\ outbox[r].event = e
    BY <1>1, OpenEvent
  <1>5. PlanHolds(orders[o], e) /\ work[a] = PlanEffect(orders[o], e)
    BY <1>0 DEF PlannedStays
  <1>6. /\ \A i \in DOMAIN outbox : outbox[i].tx = a => i = r
        /\ \A i \in DOMAIN outbox :
             outbox[i].tx # Null /\ outbox[i].event.order_id = o => i = r
    <2>1. \A i \in DOMAIN outbox : outbox[i].tx = a => i = r
      BY <1>4 DEF OpenRowsAreWorkedOn, Unique, SameEvent
    <2>2. ASSUME NEW i \in DOMAIN outbox, outbox[i].tx # Null,
                 outbox[i].event.order_id = o
          PROVE  i = r
      <3>1. outbox[i] \in Row
        BY DEF Typed
      <3>2. outbox[i].tx \in Applier
        BY <2>2, <3>1 DEF Row
      <3>3. InTransaction(outbox[i].tx) /\ outbox[i].event = EventOf(outbox[i].tx)
        BY <3>2 DEF OpenRowsAreWorkedOn
      <3>4. outbox[i].tx = a
        BY <1>1, <2>2, <3>2, <3>3, OneOpenPerOrder
      <3> QED
        BY <2>1, <3>4
    <2> QED
      BY <2>1, <2>2
  <1>7. orders[o] \in OrderRow \union {Null} /\ outbox \in Seq(Row) /\ Lists(outbox, o, n)
    BY <1>2 DEF Typed, CommittedAreListed
  <1>8. work[a] \in OrderRow /\ work[a].last_sequence_no = n + 1
    BY <1>2, <1>3, <1>5, <1>7, PlanEffectIs
  <1> HIDE DEF e, o, n
  <1>9. OneCommitted(outbox, outbox', r)
    BY <1>0, <1>1, <1>4, <1>6, <1>7, CommittedByIs
  <1>10. /\ Unique(outbox') /\ OpenIsLast(outbox')
         /\ Lists(outbox', o, n + 1)
         /\ EventsIn(outbox', o) = Append(EventsIn(outbox, o), e)
         /\ \A p, m : p # o /\ Lists(outbox, p, m) =>
              Lists(outbox', p, m) /\ EventsIn(outbox', p) = EventsIn(outbox, p)
         /\ \A event : Committed(outbox, event) => Committed(outbox', event)
         /\ Committed(outbox', e)
    <2>1. outbox[r].event.order_id = o /\ outbox[r].event.sequence_no = n + 1
      BY <1>3, <1>4 DEF o
    <2>2. outbox[r].tx # Null
      BY <1>1, <1>4
    <2> QED
      BY <1>4, <1>6, <1>7, <1>9, <2>1, <2>2, CommittedRow
  <1>11. /\ orders'[o] = work[a] /\ \A p \in Order : p # o => orders'[p] = orders[p]
         /\ next'[a] = next[a] + 1 /\ \A b \in Applier : b # a => next'[b] = next[b]
         /\ stage'[a] = "begin" /\ \A b \in Applier : b # a => stage'[b] = stage[b]
         /\ \A b \in Applier : b # a => work'[b] = work[b]
         /\ orders' \in [Order -> OrderRow \union {Null}]
         /\ next' \in [Applier -> Nat] /\ stage' \in [Applier -> Stages]
         /\ DOMAIN work' = Applier
    <2>1. /\ DOMAIN orders = Order /\ DOMAIN next = Applier
          /\ DOMAIN stage = Applier /\ DOMAIN work = Applier
      BY <1>0 DEF Typed
    <2>2. \A b \in Applier : next[b] \in Nat /\ stage[b] \in Stages
      BY <1>0 DEF Typed
    <2> QED
      BY <1>0, <1>2, <1>8, <2>1, <2>2 DEF Typed, Stages
  <1>12. Typed'
    <2>1. \A b \in Applier : next'[b] \in 1 .. Len(File[b]) + 1
      BY <1>2, <1>11, FileIsSequence DEF Typed
    <2>2. outbox' \in Seq(Row)
      BY <1>9 DEF OneCommitted
    <2> QED
      BY <1>0, <1>11, <2>1, <2>2 DEF Typed
  <1>13. \A b \in Applier : b # a =>
           /\ EventOf(b)' = EventOf(b) /\ Done(b)' = Done(b)
           /\ InTransaction(b)' = InTransaction(b)
    BY <1>11 DEF EventOf, Done, InTransaction
  <1>14. OpenRowsAreWorkedOn'
    <2> SUFFICES ASSUME NEW b \in Applier
                 PROVE  /\ \A j \in DOMAIN outbox' : outbox'[j].tx = b =>
                             InTransaction(b)' /\ outbox'[j].event = EventOf(b)'
                        /\ InTransaction(b)' =>
                             ~Done(b)' /\ \E j \in DOMAIN outbox' : outbox'[j].tx = b
      BY DEF OpenRowsAreWorkedOn
    <2>1. b # Null
      BY OltpAssumption
    <2>2. \A j \in DOMAIN outbox' : outbox'[j].tx = b =>
            j \in DOMAIN outbox /\ j # r /\ outbox'[j] = outbox[j]
      BY <1>9, <2>1 DEF OneCommitted
    <2>3. CASE b = a
      <3>1. ~InTransaction(a)'
        BY <1>11 DEF InTransaction
      <3> QED
        BY <1>6, <2>2, <2>3, <3>1
    <2>4. CASE b # a
      <3>1. \A j \in DOMAIN outbox' : outbox'[j].tx = b =>
              InTransaction(b) /\ outbox'[j].event = EventOf(b)
        BY <2>2 DEF OpenRowsAreWorkedOn
      <3>2. InTransaction(b) => ~Done(b) /\ \E j \in DOMAIN outbox' : outbox'[j].tx = b
        BY <1>4, <1>9, <2>4 DEF OpenRowsAreWorkedOn, OneCommitted
      <3> QED
        BY <1>13, <2>4, <3>1, <3>2
    <2> QED
      BY <2>3, <2>4
  <1>15. LastOf(orders'[o]) = n + 1
    BY <1>8, <1>11, NoOrderAssumption DEF LastOf
  <1>16. CommittedAreListed'
    <2> SUFFICES ASSUME NEW p \in Order
                 PROVE  Lists(outbox', p, LastOf(orders'[p]))
      BY DEF CommittedAreListed, LastOf
    <2>1. CASE p = o
      BY <1>10, <1>15, <2>1
    <2>2. CASE p # o
      BY <1>10, <1>11, <2>2 DEF CommittedAreListed
    <2> QED
      BY <2>1, <2>2
  <1>17. CommittedAreFolded'
    <2> SUFFICES ASSUME NEW p \in Order
                 PROVE  orders'[p] = OrderAfter(EventsIn(outbox', p))
      BY DEF CommittedAreFolded
    <2>1. CASE p = o
      <3>1. orders[o] = OrderAfter(EventsIn(outbox, o))
        BY <1>2 DEF CommittedAreFolded
      <3>2. EventsIn(outbox, o) \in Seq(Events)
        BY <1>7, EventsAre
      <3>3. OrderAfter(EventsIn(outbox', o)) = PlanEffect(OrderAfter(EventsIn(outbox, o)), e)
        BY <1>2, <1>10, <3>2, OrderAfterOneMore
      <3> QED
        BY <1>5, <1>11, <2>1, <3>1, <3>3
    <2>2. CASE p # o
      <3>1. Lists(outbox, p, LastOf(orders[p])) /\ orders[p] = OrderAfter(EventsIn(outbox, p))
        BY DEF CommittedAreListed, CommittedAreFolded
      <3> QED
        BY <1>10, <1>11, <2>2, <3>1
    <2> QED
      BY <2>1, <2>2
  <1>18. PlannedStays'
    <2> SUFFICES ASSUME NEW b \in Applier, stage'[b] = "planned"
                 PROVE  LET order == orders'[EventOf(b)'.order_id]
                        IN  /\ PlanHolds(order, EventOf(b)')
                            /\ work'[b] = PlanEffect(order, EventOf(b)')
      BY DEF PlannedStays
    <2>1. b # a /\ stage[b] = "planned" /\ work'[b] = work[b]
      BY <1>11
    <2>2. EventOf(b)' = EventOf(b) /\ InTransaction(b)
      BY <1>13, <2>1 DEF InTransaction
    <2>3. EventOf(b).order_id # o
      BY <1>1, <2>1, <2>2, OneOpenPerOrder DEF o, e
    <2>4. EventOf(b).order_id \in Order
      BY <2>2, OpenEvent
    <2>5. orders'[EventOf(b).order_id] = orders[EventOf(b).order_id]
      BY <1>11, <2>3, <2>4
    <2> QED
      BY <2>1, <2>2, <2>5 DEF PlannedStays
  <1>19. PassedStays'
    <2> SUFFICES ASSUME NEW b \in Applier, NEW i \in 1 .. next'[b] - 1
                 PROVE  Committed(outbox', File[b][i])
      BY DEF PassedStays
    <2>1. next[b] \in Nat
      BY DEF Typed
    <2>2. CASE i \in 1 .. next[b] - 1
      BY <1>10, <2>2 DEF PassedStays
    <2>3. CASE i \notin 1 .. next[b] - 1
      <3>1. b = a /\ i = next[a]
        BY <1>11, <2>1, <2>3
      <3> QED
        BY <1>2, <1>10, <3>1
    <2> QED
      BY <2>2, <2>3
  <1> QED
    BY <1>10, <1>12, <1>14, <1>16, <1>17, <1>18, <1>19

\* Every reachable state satisfies the inductive invariant: apply_partition,
\* however its transactions interleave, roll back or are killed.
THEOREM InvariantHolds == Spec => []Inv
  <1>1. Inv /\ [Next]_vars => Inv'
    <2> SUFFICES ASSUME Inv, [Next]_vars
                 PROVE  Inv'
      OBVIOUS
    <2>1. CASE UNCHANGED vars
      BY <2>1, StutterHolds
    <2>2. CASE Finished
      BY <2>2, StutterHolds DEF Finished
    <2>3. ASSUME NEW a \in Applier, Apply(a) \/ Crash(a)
          PROVE  Inv'
      BY <2>3, SkipHolds, InsertOutboxHolds, ExecutePlanHolds, PlanFailsHolds, CommitHolds,
         CrashHolds DEF Apply
    <2> QED
      BY <2>1, <2>2, <2>3 DEF Next
  <1> QED
    BY InitHolds, <1>1, PTL DEF Spec

-----------------------------------------------------------------------------
(* What it says of the database.                                           *)

LEMMA EventsOfIs ==
    ASSUME NEW o
    PROVE  EventsOf(o) = EventsIn(outbox, o)
  BY DEF EventsOf, EventsIn, IsRowOf, Of

\* The events of an order in the outbox are the ones up to its last one.
LEMMA EventsAreNumbered ==
    ASSUME Inv, NEW o \in Order
    PROVE  /\ EventsOf(o) \in Seq(Events)
           /\ Len(EventsOf(o)) = LastOf(orders[o])
           /\ \A n \in DOMAIN EventsOf(o) : EventsOf(o)[n].sequence_no = n
  <1> DEFINE n == LastOf(orders[o])
             s == EventsIn(outbox, o)
  <1>1. outbox \in Seq(Row) /\ Lists(outbox, o, n)
    BY DEF Inv, Typed, CommittedAreListed
  <1>2. s \in Seq(Events) /\ Len(s) = n
    BY <1>1, EventsAre
  <1>3. ASSUME NEW k \in DOMAIN s
        PROVE  s[k].sequence_no = k
    <2>1. k \in 1 .. n
      BY <1>2
    <2>2. PICK i \in DOMAIN outbox : Of(outbox, o, i) /\ outbox[i].event.sequence_no = k
      BY <1>1, <2>1 DEF Lists
    <2>3. s[outbox[i].event.sequence_no] = outbox[i].event
      BY <1>1, <2>2, EventsAre
    <2> HIDE DEF s
    <2> QED
      BY <2>2, <2>3
  <1> HIDE DEF s, n
  <1> QED
    BY <1>2, <1>3, EventsOfIs DEF s, n

LEMMA InvGivesTypeOK ==
    Inv => TypeOK
  <1> SUFFICES ASSUME Inv
               PROVE  TypeOK
    OBVIOUS
  <1>1. \A i \in DOMAIN outbox : outbox[i] \in Row
    BY DEF Inv, Typed
  <1> QED
    BY <1>1 DEF Inv, Typed, TypeOK, Row

LEMMA InvGivesNothingIsLost ==
    Inv => NothingIsLost
  <1> SUFFICES ASSUME Inv
               PROVE  NothingIsLost
    OBVIOUS
  <1>1. TypeOK
    BY InvGivesTypeOK
  <1>2. StateAndEventTogether
    BY EventsAreNumbered DEF StateAndEventTogether
  <1>3. OrdersFoldTheirOutbox
    BY EventsOfIs DEF Inv, CommittedAreFolded, OrdersFoldTheirOutbox
  <1>4. PassedIsCommitted
    BY DEF Inv, PassedStays, PassedIsCommitted, Committed, SameEvent, SameId
  <1> QED
    BY <1>1, <1>2, <1>3, <1>4 DEF NothingIsLost

\* apply_event and apply_partition, whichever applier comes first and whoever
\* dies, for any files of any orders: an order is the fold of its committed
\* outbox rows, these are its events from 1 to last_sequence_no in the order of
\* outbox_id, and nobody has passed over an event that is not committed.
THEOREM NothingLost == Spec => []NothingIsLost
  <1>1. Inv => NothingIsLost
    BY InvGivesNothingIsLost
  <1> QED
    BY <1>1, InvariantHolds, PTL

-----------------------------------------------------------------------------
(* One log of each order.                                                  *)

\* The log of an order has each event of a file at its number.
LEMMA LogHasEvents ==
    ASSUME SameLog, NEW event \in Events
    PROVE  /\ event.order_id \in Order
           /\ event.sequence_no \in Nat \ {0}
           /\ \E m \in Nat : LogOf(event.order_id) = [n \in 1 .. m |-> LogOf(event.order_id)[n]]
           /\ event.sequence_no \in 1 .. Len(LogOf(event.order_id))
           /\ LogOf(event.order_id)[event.sequence_no] = event
  <1>0. PICK a \in Applier : event \in Range(File[a])
    BY DEF Events
  <1>1. PICK i \in DOMAIN File[a] : File[a][i] = event
    BY <1>0 DEF Range
  <1> DEFINE o == event.order_id
             reader == CHOOSE b \in Applier : LinesOf(b, o) # {}
             log == {File[reader][j] : j \in LinesOf(reader, o)}
             numbers == {f.sequence_no : f \in log}
             at(n) == CHOOSE f \in log : f.sequence_no = n
  <1>2. o \in Order /\ event.sequence_no \in Nat \ {0} /\ i \in LinesOf(a, o)
    BY <1>1, EventAt DEF LinesOf
  <1>3. reader \in Applier /\ LinesOf(reader, o) # {}
    BY <1>2
  <1>4. LogOf(o) = [n \in numbers |-> at(n)]
    BY DEF LogOf
  <1> HIDE DEF reader
  <1>5. event \in log
    <2>1. log = {File[a][j] : j \in LinesOf(a, o)}
      BY <1>2, <1>3 DEF SameLog
    <2> QED
      BY <1>1, <1>2, <2>1
  <1>6. \E m \in Nat : numbers = 1 .. m
    <2>1. PICK m \in 0 .. Len(File[reader]) :
            {File[reader][j].sequence_no : j \in LinesOf(reader, o)} = 1 .. m
      BY <1>2, <1>3, OltpAssumption
    <2>2. m \in Nat
      BY <1>3, <2>1, FileIsSequence
    <2>3. numbers = {File[reader][j].sequence_no : j \in LinesOf(reader, o)}
      OBVIOUS
    <2> QED
      BY <2>1, <2>2, <2>3
  <1>7. \A f, g \in log : f.sequence_no = g.sequence_no => f = g
    <2> SUFFICES ASSUME NEW j \in LinesOf(reader, o), NEW k \in LinesOf(reader, o),
                        File[reader][j].sequence_no = File[reader][k].sequence_no
                 PROVE  j = k
      OBVIOUS
    <2>1. /\ j < k => File[reader][j].sequence_no < File[reader][k].sequence_no
          /\ k < j => File[reader][k].sequence_no < File[reader][j].sequence_no
      BY <1>2, <1>3, OltpAssumption
    <2>2. j \in Nat /\ k \in Nat /\ j \in DOMAIN File[reader]
      BY <1>3, FileIsSequence DEF LinesOf
    <2>3. File[reader][j].sequence_no \in Nat
      BY <1>3, <2>2, EventAt
    <2> QED
      BY <2>1, <2>2, <2>3
  <1>8. event.sequence_no \in numbers /\ at(event.sequence_no) = event
    BY <1>5, <1>7
  <1> HIDE DEF log, numbers, at
  <1>9. PICK m \in Nat : numbers = 1 .. m
    BY <1>6
  <1>10. LogOf(o) = [n \in 1 .. m |-> LogOf(o)[n]]
    BY <1>4, <1>9
  <1>11. Len(LogOf(o)) = m
    BY <1>9, <1>10
  <1>12. LogOf(o)[event.sequence_no] = event
    BY <1>4, <1>8
  <1> QED
    BY <1>2, <1>8, <1>9, <1>10, <1>11, <1>12

\* What is committed of an order is the beginning of its log.
LEMMA CommittedIsOfLog ==
    ASSUME SameLog, Inv, NEW o \in Order, NEW k \in 1 .. LastOf(orders[o])
    PROVE  EventsOf(o)[k] = LogOf(o)[k]
  <1> DEFINE n == LastOf(orders[o])
  <1>1. outbox \in Seq(Row) /\ Lists(outbox, o, n)
    BY DEF Inv, Typed, CommittedAreListed
  <1>2. PICK i \in DOMAIN outbox : Of(outbox, o, i) /\ outbox[i].event.sequence_no = k
    BY <1>1 DEF Lists
  <1>3. EventsIn(outbox, o)[outbox[i].event.sequence_no] = outbox[i].event
    BY <1>1, <1>2, EventsAre
  <1>4. outbox[i] \in Row
    BY <1>1
  <1>5. outbox[i].event \in Events
    BY <1>4 DEF Row
  <1>6. LogOf(outbox[i].event.order_id)[outbox[i].event.sequence_no] = outbox[i].event
    BY <1>5, LogHasEvents
  <1> QED
    BY <1>2, <1>3, <1>6, EventsOfIs DEF Of

-----------------------------------------------------------------------------
(* The transactional outbox implements EventSourcedOrders.                 *)

\* What a step makes of the committed rows: they stay, and only a commit adds
\* one.
LEMMA CommittedRowsComeFrom ==
    ASSUME Inv, NEW a \in Applier, Apply(a) \/ Crash(a), ~Commit(a),
           NEW j \in DOMAIN outbox', outbox'[j].tx = Null
    PROVE  \E i \in DOMAIN outbox : outbox[i] = outbox'[j]
  <1>1. CASE outbox' = outbox
    BY <1>1
  <1>2. CASE outbox' = WithoutRowOf(a)
    BY <1>2, RolledBack
  <1>3. CASE InsertOutbox(a)
    <2> DEFINE row == [event |-> EventOf(a), tx |-> a]
    <2>1. row.tx # Null
      BY OltpAssumption
    <2>2. outbox \in Seq(Row) /\ outbox' = Append(outbox, row)
      BY <1>3 DEF Inv, Typed, InsertOutbox
    <2> HIDE DEF row
    <2>3. /\ DOMAIN outbox' = DOMAIN outbox \union {Len(outbox) + 1}
          /\ outbox'[Len(outbox) + 1] = row
          /\ \A i \in DOMAIN outbox : outbox'[i] = outbox[i]
      BY <2>2
    <2> QED
      BY <2>1, <2>3
  <1>4. \/ outbox' = outbox
        \/ outbox' = WithoutRowOf(a)
        \/ InsertOutbox(a)
    BY DEF Apply, Skip, ExecutePlan, PlanFails, Crash
  <1> QED
    BY <1>1, <1>2, <1>3, <1>4

\* Every step but a commit leaves what a reader of the database sees.
LEMMA NothingSeen ==
    ASSUME Inv, Inv', NEW a \in Applier, Apply(a) \/ Crash(a), ~Commit(a)
    PROVE  orders' = orders /\ \A o \in Order : EventsOf(o)' = EventsOf(o)
  <1>1. orders' = orders
    BY DEF Apply, Skip, InsertOutbox, ExecutePlan, PlanFails, Crash
  <1>2. ASSUME NEW o \in Order
        PROVE  EventsIn(outbox', o) = EventsIn(outbox, o)
    <2>1. /\ outbox \in Seq(Row) /\ Lists(outbox, o, LastOf(orders[o]))
          /\ outbox' \in Seq(Row) /\ Lists(outbox', o, LastOf(orders[o]))
      BY <1>1 DEF Inv, Typed, CommittedAreListed, LastOf
    <2>2. \A j \in DOMAIN outbox' : Of(outbox', o, j) =>
            \E i \in DOMAIN outbox : Of(outbox, o, i) /\ outbox[i].event = outbox'[j].event
      BY CommittedRowsComeFrom DEF Of
    <2> QED
      BY <2>1, <2>2, SameEvents
  <1>3. ASSUME NEW o
        PROVE  EventsOf(o) = EventsIn(outbox, o) /\ EventsOf(o)' = EventsIn(outbox', o)
    BY DEF EventsOf, EventsIn, IsRowOf, Of
  <1> QED
    BY <1>1, <1>2, <1>3

\* A commit shows its event and what it does to the order, and nothing else.
LEMMA CommitSeen ==
    ASSUME Inv, Inv', NEW a \in Applier, Commit(a)
    PROVE  \E o \in Order : \E e \in Events :
             /\ o = e.order_id
             /\ e.sequence_no = Len(EventsOf(o)) + 1
             /\ orders' = [orders EXCEPT ![o] = PlanEffect(orders[o], e)]
             /\ EventsOf(o)' = Append(EventsOf(o), e)
             /\ \A p \in Order : p # o => EventsOf(p)' = EventsOf(p)
  <1> DEFINE e == EventOf(a)
             o == e.order_id
             n == LastOf(orders[o])
  <1>1. stage[a] = "planned" /\ InTransaction(a)
    BY DEF Commit, InTransaction
  <1>2. e \in Events /\ o \in Order /\ IsReadable(e)
    BY <1>1, OpenEvent DEF Inv
  <1>3. e.sequence_no = n + 1
    BY <1>1, OpenEventIsNext DEF Inv
  <1>4. PlanHolds(orders[o], e) /\ work[a] = PlanEffect(orders[o], e)
    BY <1>1 DEF Inv, PlannedStays
  <1>5. orders[o] \in OrderRow \union {Null} /\ orders \in [Order -> OrderRow \union {Null}]
    BY <1>2 DEF Inv, Typed
  <1>6. work[a] \in OrderRow /\ work[a].last_sequence_no = n + 1
    BY <1>2, <1>3, <1>4, <1>5, PlanEffectIs
  <1>7. /\ orders' = [orders EXCEPT ![o] = PlanEffect(orders[o], e)]
        /\ orders'[o] = work[a] /\ \A p \in Order : p # o => orders'[p] = orders[p]
    BY <1>2, <1>4, <1>5 DEF Commit
  <1>8. DOMAIN outbox' = DOMAIN outbox /\ \A i \in DOMAIN outbox :
          /\ outbox'[i].event = outbox[i].event
          /\ outbox'[i].tx = Null => outbox[i].tx = Null \/ outbox[i].tx = a
    <2>1. outbox \in Seq(Row)
      BY DEF Inv, Typed
    <2>2. \A i \in DOMAIN outbox : outbox[i] \in Row
      BY <2>1
    <2>3. \A row \in Row : [row EXCEPT !.tx = Null].event = row.event
      BY DEF Row
    <2>4. DOMAIN outbox' = DOMAIN outbox /\ \A i \in DOMAIN outbox : outbox'[i] =
            IF outbox[i].tx = a THEN [outbox[i] EXCEPT !.tx = Null] ELSE outbox[i]
      BY DEF Commit
    <2> QED
      BY <2>2, <2>3, <2>4
  <1>9. \A i \in DOMAIN outbox : outbox[i].tx = a => outbox[i].event = e
    BY DEF Inv, OpenRowsAreWorkedOn
  <1> HIDE DEF e, o, n
  <1>10. ASSUME NEW p \in Order
         PROVE  /\ outbox \in Seq(Row) /\ Lists(outbox, p, LastOf(orders[p]))
                /\ outbox' \in Seq(Row) /\ Lists(outbox', p, LastOf(orders'[p]))
    BY DEF Inv, Typed, CommittedAreListed, LastOf
  <1>11. EventsIn(outbox', o) = Append(EventsIn(outbox, o), e)
    <2>1. LastOf(orders'[o]) = n + 1
      BY <1>6, <1>7, NoOrderAssumption DEF LastOf
    <2>2. \A j \in DOMAIN outbox' : Of(outbox', o, j) =>
            \/ outbox'[j].event = e
            \/ \E i \in DOMAIN outbox : Of(outbox, o, i) /\ outbox[i].event = outbox'[j].event
      BY <1>8, <1>9 DEF Of
    <2>3. Lists(outbox, o, n) /\ Lists(outbox', o, n + 1)
      BY <1>2, <1>10, <2>1 DEF n
    <2>4. outbox \in Seq(Row) /\ outbox' \in Seq(Row)
      BY <1>2, <1>10
    <2> QED
      BY <1>2, <1>3, <2>2, <2>3, <2>4, OneMoreEvent
  <1>12. ASSUME NEW p \in Order, p # o
         PROVE  EventsIn(outbox', p) = EventsIn(outbox, p)
    <2>1. \A j \in DOMAIN outbox' : Of(outbox', p, j) =>
            \E i \in DOMAIN outbox : Of(outbox, p, i) /\ outbox[i].event = outbox'[j].event
      BY <1>8, <1>9, <1>12 DEF Of, o
    <2>2. Lists(outbox, p, LastOf(orders[p])) /\ Lists(outbox', p, LastOf(orders[p]))
      BY <1>7, <1>10, <1>12
    <2> QED
      BY <1>10, <2>1, <2>2, SameEvents
  <1>13. e.sequence_no = Len(EventsOf(o)) + 1
    BY <1>2, <1>3, EventsAreNumbered DEF n
  <1>14. PICK f \in Events, p \in Order : f = e /\ p = o
    BY <1>2
  <1>15. ASSUME NEW q
         PROVE  EventsOf(q) = EventsIn(outbox, q) /\ EventsOf(q)' = EventsIn(outbox', q)
    BY DEF EventsOf, EventsIn, IsRowOf, Of
  <1>16. EventsOf(p)' = Append(EventsOf(p), f)
    BY <1>11, <1>14, <1>15
  <1>17. \A q \in Order : q # p => EventsOf(q)' = EventsOf(q)
    BY <1>12, <1>14, <1>15
  <1>18. p = f.order_id
    BY <1>14 DEF o
  <1> QED
    BY <1>7, <1>13, <1>14, <1>16, <1>17, <1>18

\* The plan of the abstract specification is the same one.
LEMMA SamePlan ==
    \A order, event : Promise!PlanEffect(order, event) = PlanEffect(order, event)
  <1>1. \A event : Promise!InsertedOrder(event) = InsertedOrder(event)
    BY DEF Promise!InsertedOrder, InsertedOrder
  <1>2. \A order, event : Promise!Advanced(order, event) = Advanced(order, event)
    BY DEF Promise!Advanced, Advanced, Promise!OltpAfter, OltpAfter
  <1>3. \A lines : Promise!LineSum(lines) = LineSum(lines)
    BY DEF Promise!LineSum, LineSum
  <1>4. \A order : Promise!NetRecomputed(order) = NetRecomputed(order)
    BY <1>3 DEF Promise!NetRecomputed, NetRecomputed
  <1>5. \A lines : Promise!PickedLines(lines) = PickedLines(lines)
    BY DEF Promise!PickedLines, PickedLines, Promise!Relabelled, Relabelled
  <1>6. \A lines : Promise!ClosedLines(lines) = ClosedLines(lines)
    BY DEF Promise!ClosedLines, ClosedLines, Promise!Relabelled, Relabelled
  <1> QED
    BY <1>1, <1>2, <1>4, <1>5, <1>6 DEF Promise!PlanEffect, PlanEffect

\* Every step of the appliers is one event of one order, with what it does to
\* the order, or nothing that a reader sees: when they read the same log of an
\* order they show it event after event, whoever is killed or run twice.
THEOREM OutboxImplemented ==
    ASSUME SameLog
    PROVE  Spec => ImplementsOutbox
  <1>1. Init => Promise!Init
    <2> SUFFICES ASSUME Init
                 PROVE  Promise!Init
      OBVIOUS
    <2>1. Inv /\ orders = [o \in Order |-> Null]
      BY InitHolds DEF Init
    <2>2. ASSUME NEW o \in Order
          PROVE  EventsOf(o) = << >>
      <3>1. EventsOf(o) \in Seq(Events) /\ Len(EventsOf(o)) = 0
        BY <2>1, EventsAreNumbered DEF LastOf
      <3> QED
        BY <3>1
    <2> QED
      BY <2>1, <2>2 DEF Promise!Init
  <1>2. Inv /\ Inv' /\ [Next]_vars => [Promise!Next]_(Promise!vars)
    <2> SUFFICES ASSUME Inv, Inv', [Next]_vars
                 PROVE  Promise!Next \/ UNCHANGED Promise!vars
      OBVIOUS
    <2>1. CASE UNCHANGED vars
      BY <2>1 DEF vars, Promise!vars, EventsOf, IsRowOf
    <2>2. CASE Finished
      BY <2>2 DEF Finished, vars, Promise!vars, EventsOf, IsRowOf
    <2>3. ASSUME NEW a \in Applier, Apply(a) \/ Crash(a), ~Commit(a)
          PROVE  UNCHANGED Promise!vars
      <3>1. orders' = orders /\ \A o \in Order : EventsOf(o)' = EventsOf(o)
        BY <2>3, NothingSeen
      <3> QED
        BY <3>1 DEF Promise!vars
    <2>4. ASSUME NEW a \in Applier, Commit(a)
          PROVE  Promise!Next
      <3>1. PICK o \in Order, e \in Events :
              /\ o = e.order_id /\ e.sequence_no = Len(EventsOf(o)) + 1
              /\ orders' = [orders EXCEPT ![o] = PlanEffect(orders[o], e)]
              /\ EventsOf(o)' = Append(EventsOf(o), e)
              /\ \A p \in Order : p # o => EventsOf(p)' = EventsOf(p)
        BY <2>4, CommitSeen
      <3>2. /\ e.sequence_no \in 1 .. Len(LogOf(o)) /\ LogOf(o)[e.sequence_no] = e
            /\ \E m \in Nat : LogOf(o) = [n \in 1 .. m |-> LogOf(o)[n]]
        BY <3>1, LogHasEvents
      <3>3. Len(EventsOf(o)) \in Nat
        BY <3>1, EventsAreNumbered
      <3>4. Len(EventsOf(o)) < Len(LogOf(o)) /\ LogOf(o)[Len(EventsOf(o)) + 1] = e
        <4>1. Len(LogOf(o)) \in Nat
          BY <3>2
        <4> QED
          BY <3>1, <3>2, <3>3, <4>1
      <3> DEFINE shown == [p \in Order |-> EventsOf(p)]
      <3>5. shown' = [shown EXCEPT ![o] = Append(@, e)]
        <4>1. shown' = [p \in Order |-> EventsOf(p)']
          OBVIOUS
        <4> QED
          BY <3>1, <4>1
      <3>6. Promise!Emit(o)
        <4>1. shown[o] = EventsOf(o)
          BY <3>1
        <4> DEFINE log == [p \in Order |-> LogOf(p)]
        <4>2. log[o] = LogOf(o)
          BY <3>1
        <4> HIDE DEF shown, log
        <4>3. /\ Len(shown[o]) < Len(log[o]) /\ log[o][Len(shown[o]) + 1] = e
              /\ shown' = [shown EXCEPT ![o] = Append(@, e)]
              /\ orders' = [orders EXCEPT ![o] = PlanEffect(@, e)]
          BY <3>1, <3>4, <3>5, <4>1, <4>2
        <4> QED
          BY <4>3, SamePlan DEF Promise!Emit, shown, log
      <3> QED
        BY <3>1, <3>6 DEF Promise!Next
    <2> QED
      BY <2>1, <2>2, <2>3, <2>4 DEF Next, Apply
  <1> QED
    BY InvariantHolds, <1>1, <1>2, PTL DEF Spec, ImplementsOutbox, Promise!Spec

-----------------------------------------------------------------------------
(* Applying a log that the plan accepts.                                   *)

\* What the database has of an order is what a beginning of its log amounts
\* to, so the plan of the next event holds.
LEMMA NextPlanHolds ==
    ASSUME SameLog, LogIsAccepted, Inv, NEW a \in Applier, InTransaction(a)
    PROVE  PlanHolds(orders[EventOf(a).order_id], EventOf(a))
  <1> DEFINE e == EventOf(a)
             o == e.order_id
             n == LastOf(orders[o])
             begun == SubSeq(LogOf(o), 1, n)
  <1>1. next[a] \in DOMAIN File[a] /\ e = File[a][next[a]] /\ o \in Order
    BY OpenEvent DEF Inv
  <1>2. e.sequence_no = n + 1
    BY OpenEventIsNext DEF Inv
  <1>3. EventsOf(o) \in Seq(Events) /\ Len(EventsOf(o)) = n
    BY <1>1, EventsAreNumbered
  <1>4. n \in Nat
    BY <1>3
  <1>5. \A k \in 1 .. n : EventsOf(o)[k] = LogOf(o)[k]
    BY <1>1, CommittedIsOfLog
  <1>6. orders[o] = OrderAfter(EventsOf(o))
    BY <1>1, EventsOfIs DEF Inv, CommittedAreFolded
  <1>7. PlanHolds(OrderAfter(SubSeq(LogOf(o), 1, e.sequence_no - 1)), e)
    BY <1>1 DEF LogIsAccepted
  <1> HIDE DEF e, o, n
  <1>8. \A k \in 1 .. n : LogOf(o)[k] \in Events
    BY <1>3, <1>5
  <1>9. begun \in Seq(Events) /\ Len(begun) = n /\ \A k \in 1 .. n : begun[k] = LogOf(o)[k]
    <2>1. /\ begun \in Seq(Events)
          /\ Len(begun) = IF 1 <= n THEN n - 1 + 1 ELSE 0
          /\ \A k \in 1 .. n - 1 + 1 : begun[k] = LogOf(o)[1 + k - 1]
      BY <1>4, <1>8, SubSeqProperties
    <2> HIDE DEF begun
    <2> QED
      BY <1>4, <2>1
  <1> HIDE DEF begun
  <1>10. begun = EventsOf(o)
    BY <1>3, <1>5, <1>9, SeqEqual
  <1>11. e.sequence_no - 1 = n
    BY <1>2, <1>4
  <1>12. PlanHolds(orders[o], e)
    BY <1>6, <1>7, <1>10, <1>11 DEF begun
  <1> QED
    BY <1>12 DEF e, o

\* Applying one log that the plan accepts never raises, however often it is
\* begun and by however many: what one has committed the other skips, and what
\* it finds of an order is never ahead of nor behind the event it is at.
THEOREM NobodyRaises ==
    ASSUME SameLog, LogIsAccepted
    PROVE  Spec => []NeverRaises
  <1>1. Init => NeverRaises
    BY DEF Init, NeverRaises
  <1>2. Inv /\ NeverRaises /\ [Next]_vars => NeverRaises'
    <2> SUFFICES ASSUME Inv, NeverRaises, [Next]_vars
                 PROVE  NeverRaises'
      OBVIOUS
    <2>1. CASE UNCHANGED vars \/ Finished
      BY <2>1 DEF vars, Finished, NeverRaises
    <2>2. ASSUME NEW a \in Applier, Apply(a) \/ Crash(a)
          PROVE  NeverRaises'
      <3>1. ~PlanFails(a)
        BY NextPlanHolds DEF PlanFails, InTransaction
      <3>2. stage \in [Applier -> Stages]
        BY DEF Inv, Typed
      <3>3. \/ stage' = stage
            \/ stage' = [stage EXCEPT ![a] = "inserted"]
            \/ stage' = [stage EXCEPT ![a] = "planned"]
            \/ stage' = [stage EXCEPT ![a] = "begin"]
        BY <2>2, <3>1 DEF Apply, Skip, InsertOutbox, ExecutePlan, Commit, Crash
      <3> QED
        BY <3>2, <3>3 DEF NeverRaises
    <2> QED
      BY <2>1, <2>2 DEF Next
  <1> QED
    BY InvariantHolds, <1>1, <1>2, PTL DEF Spec

-----------------------------------------------------------------------------
(* The log of a day, rebuilt from the outbox.                              *)

\* Two appliers with an order in common apply the log of one day.
LEMMA OneLogIsSame ==
    OneLogOfADay => SameLog
  <1> SUFFICES ASSUME OneLogOfADay, NEW a \in Applier, NEW b \in Applier, NEW o \in Order,
                      LinesOf(a, o) # {}, LinesOf(b, o) # {}
               PROVE  {File[a][i] : i \in LinesOf(a, o)} = {File[b][i] : i \in LinesOf(b, o)}
    BY DEF SameLog
  <1>1. Day[o] = LogDay[a] /\ Day[o] = LogDay[b]
    BY CheckAssumption DEF LinesOf
  <1>2. File[a] = File[b]
    BY <1>1 DEF OneLogOfADay
  <1> QED
    BY <1>2 DEF LinesOf

\* An event of an order of the day is a line of its log.
LEMMA EventIsLine ==
    ASSUME OneLogOfADay, NEW a \in Applier, NEW e \in Events, Day[e.order_id] = LogDay[a]
    PROVE  \E i \in DOMAIN File[a] : File[a][i] = e
  <1>1. PICK b \in Applier : e \in Range(File[b])
    BY DEF Events
  <1>2. PICK i \in DOMAIN File[b] : File[b][i] = e
    BY <1>1 DEF Range
  <1>3. LogDay[b] = LogDay[a]
    BY <1>2, CheckAssumption
  <1> QED
    BY <1>2, <1>3 DEF OneLogOfADay

LEMMA LinesDiffer ==
    ASSUME NEW a \in Applier, NEW i \in DOMAIN File[a], NEW j \in DOMAIN File[a],
           SameEvent(File[a][i], File[a][j])
    PROVE  i = j
  <1> DEFINE o == File[a][i].order_id
  <1>1. o \in Order /\ i \in LinesOf(a, o) /\ j \in LinesOf(a, o)
    BY EventAt DEF LinesOf, SameEvent
  <1>2. /\ i < j => File[a][i].sequence_no < File[a][j].sequence_no
        /\ j < i => File[a][j].sequence_no < File[a][i].sequence_no
    BY <1>1, OltpAssumption
  <1>3. File[a][i].sequence_no \in Nat /\ File[a][j].sequence_no = File[a][i].sequence_no
    BY EventAt DEF SameEvent
  <1>4. i \in Nat /\ j \in Nat
    BY FileIsSequence
  <1> QED
    BY <1>2, <1>3, <1>4

\* The lines of a log stand in the order the outbox is sorted in.
LEMMA LinesAreSorted ==
    ASSUME NEW a \in Applier, NEW i \in DOMAIN File[a], NEW j \in DOMAIN File[a]
    PROVE  Precedes(File[a][i], File[a][j]) <=> i < j
  <1> DEFINE e == File[a][i]
             f == File[a][j]
  <1>1. i \in Nat /\ j \in Nat
    BY FileIsSequence
  <1>2. /\ i < j => Precedes(e, f)
        /\ j < i => Precedes(f, e)
    BY CheckAssumption
  <1>3. i = j => e = f
    OBVIOUS
  <1>4. At(e) \in Nat /\ At(f) \in Nat
    BY CheckAssumption
  <1>5. /\ e.order_id \in Order /\ f.order_id \in Order
        /\ e.sequence_no \in Nat /\ f.sequence_no \in Nat
    BY EventAt
  <1>6. /\ Before(e.order_id, f.order_id) => ~Before(f.order_id, e.order_id)
        /\ Before(e.order_id, e.order_id) => ~Before(e.order_id, e.order_id)
        /\ Before(f.order_id, f.order_id) => ~Before(f.order_id, f.order_id)
    BY <1>5, CheckAssumption
  <1> HIDE DEF e, f
  <1>7. ~Precedes(e, e)
    BY <1>4, <1>5, <1>6 DEF Precedes
  <1>8. Precedes(f, e) => ~Precedes(e, f)
    BY <1>4, <1>5, <1>6 DEF Precedes
  <1>9. Precedes(e, f) <=> i < j
    <2>1. CASE i < j
      BY <1>2, <2>1
    <2>2. CASE j < i
      BY <1>1, <1>2, <1>8, <2>2
    <2>3. CASE i = j
      BY <1>1, <1>3, <1>7, <2>3
    <2> QED
      BY <1>1, <2>1, <2>2, <2>3
  <1> QED
    BY <1>9 DEF e, f

\* A committed row is of an order the database has, so the join keeps it.
LEMMA CommittedRowIs ==
    ASSUME Inv, NEW k \in DOMAIN outbox, outbox[k].tx = Null
    PROVE  /\ outbox[k].event \in Events
           /\ outbox[k].event.order_id \in Order
           /\ orders[outbox[k].event.order_id] # Null
  <1> DEFINE o == outbox[k].event.order_id
  <1>1. outbox[k] \in Row
    BY DEF Inv, Typed
  <1>2. outbox[k].event \in Events
    BY <1>1 DEF Row
  <1>3. o \in Order
    <2>1. PICK a \in Applier : outbox[k].event \in Range(File[a])
      BY <1>2 DEF Events
    <2>2. PICK i \in DOMAIN File[a] : File[a][i] = outbox[k].event
      BY <2>1 DEF Range
    <2> QED
      BY <2>2, EventAt
  <1>4. Lists(outbox, o, LastOf(orders[o]))
    BY <1>3 DEF Inv, CommittedAreListed
  <1>5. outbox[k].event.sequence_no \in 1 .. LastOf(orders[o])
    BY <1>4 DEF Lists, Of
  <1>6. orders[o] = Null => LastOf(orders[o]) = 0
    BY DEF LastOf
  <1> QED
    BY <1>2, <1>3, <1>5, <1>6

LEMMA IntervalIs ==
    ASSUME NEW n \in Nat
    PROVE  IsFiniteSet(1 .. n) /\ Cardinality(1 .. n) = n
  <1>1. 1 \in Int /\ n \in Int
    OBVIOUS
  <1>2. IsFiniteSet(1 .. n) /\ Cardinality(1 .. n) = IF 1 > n THEN 0 ELSE n - 1 + 1
    BY ONLY <1>1, FS_Interval
  <1> QED
    BY <1>2

\* The lines of a log that have their committed row, and the row of each.
ListedLines(a) == {i \in DOMAIN File[a] : Committed(outbox, File[a][i])}

RowOfLine(a, i) ==
    CHOOSE k \in DOMAIN outbox : SameEvent(outbox[k].event, File[a][i]) /\ outbox[k].tx = Null

LEMMA RowOfLineIs ==
    ASSUME Inv, OneLogOfADay, NEW a \in Applier, NEW i \in ListedLines(a)
    PROVE  /\ RowOfLine(a, i) \in RowsOf(LogDay[a])
           /\ outbox[RowOfLine(a, i)].event = File[a][i]
  <1> DEFINE k == RowOfLine(a, i)
  <1>1. k \in DOMAIN outbox /\ SameEvent(outbox[k].event, File[a][i]) /\ outbox[k].tx = Null
    BY DEF ListedLines, Committed, RowOfLine
  <1> HIDE DEF k
  <1>2. /\ outbox[k].event \in Events
        /\ outbox[k].event.order_id \in Order
        /\ orders[outbox[k].event.order_id] # Null
    BY <1>1, CommittedRowIs
  <1>3. i \in DOMAIN File[a]
    BY DEF ListedLines
  <1>4. Day[outbox[k].event.order_id] = LogDay[a]
    BY <1>1, <1>3, CheckAssumption DEF SameEvent
  <1>5. PICK j \in DOMAIN File[a] : File[a][j] = outbox[k].event
    BY <1>2, <1>4, EventIsLine
  <1>6. i = j
    BY <1>1, <1>3, <1>5, LinesDiffer DEF SameEvent
  <1>7. k \in RowsOf(LogDay[a])
    BY <1>1, <1>2, <1>4 DEF RowsOf
  <1> QED
    BY <1>5, <1>6, <1>7 DEF k

LEMMA RowIsOfLine ==
    ASSUME Inv, OneLogOfADay, NEW a \in Applier, NEW k \in RowsOf(LogDay[a])
    PROVE  \E i \in ListedLines(a) : RowOfLine(a, i) = k
  <1>1. k \in DOMAIN outbox /\ outbox[k].tx = Null /\ Day[outbox[k].event.order_id] = LogDay[a]
    BY DEF RowsOf
  <1>2. PICK i \in DOMAIN File[a] : File[a][i] = outbox[k].event
    BY <1>1, CommittedRowIs, EventIsLine
  <1>3. i \in ListedLines(a)
    BY <1>1, <1>2 DEF ListedLines, Committed, SameEvent
  <1>4. RowOfLine(a, i) \in DOMAIN outbox /\ outbox[RowOfLine(a, i)].event = outbox[k].event
    BY <1>2, <1>3, RowOfLineIs DEF RowsOf
  <1>5. RowOfLine(a, i) = k
    BY <1>1, <1>4 DEF Inv, Unique, SameEvent
  <1> QED
    BY <1>3, <1>5

\* As many lines have their row as there are rows.
LEMMA AsManyLinesAsRows ==
    ASSUME Inv, OneLogOfADay, NEW a \in Applier
    PROVE  /\ IsFiniteSet(ListedLines(a))
           /\ Cardinality(RowsOf(LogDay[a])) = Cardinality(ListedLines(a))
  <1> DEFINE L == ListedLines(a)
             R == RowsOf(LogDay[a])
             f == [i \in L |-> RowOfLine(a, i)]
  <1>1. L \subseteq DOMAIN File[a]
    BY DEF ListedLines
  <1>2. IsFiniteSet(L)
    <2>1. IsFiniteSet(1 .. Len(File[a])) /\ L \subseteq 1 .. Len(File[a])
      BY <1>1, FileIsSequence, IntervalIs
    <2> QED
      BY <2>1, FS_Subset
  <1>3. \A i \in L : RowOfLine(a, i) \in R /\ outbox[RowOfLine(a, i)].event = File[a][i]
    BY RowOfLineIs
  <1>4. \A k \in R : \E i \in L : RowOfLine(a, i) = k
    BY RowIsOfLine
  <1>5. \A i, j \in L : RowOfLine(a, i) = RowOfLine(a, j) => i = j
    BY <1>1, <1>3, LinesDiffer DEF SameEvent
  <1> HIDE DEF L, R
  <1>6. f \in Bijection(L, R)
    BY <1>3, <1>4, <1>5, Fun_IsBij
  <1>7. ExistsBijection(L, R)
    BY <1>6 DEF ExistsBijection
  <1>8. Cardinality(R) = Cardinality(L)
    BY <1>2, <1>7, FS_Bijection
  <1> QED
    BY <1>2, <1>8 DEF L, R

\* When every line has its row, the row of a line has the rows of the lines in
\* front of it before it.
LEMMA PlaceIsLine ==
    ASSUME Inv, OneLogOfADay, NEW a \in Applier, ListedLines(a) = DOMAIN File[a],
           NEW n \in DOMAIN File[a]
    PROVE  Place(RowOfLine(a, n), RowsOf(LogDay[a])) = n
  <1> DEFINE R == RowsOf(LogDay[a])
             r == RowOfLine(a, n)
             front == {j \in R : Precedes(outbox[j].event, outbox[r].event)}
             f == [m \in 1 .. n - 1 |-> RowOfLine(a, m)]
  <1>1. n \in Nat \ {0} /\ 1 .. n - 1 \subseteq DOMAIN File[a]
    BY FileIsSequence
  <1>2. \A m \in DOMAIN File[a] :
          RowOfLine(a, m) \in R /\ outbox[RowOfLine(a, m)].event = File[a][m]
    BY RowOfLineIs
  <1>3. \A k \in R : \E m \in DOMAIN File[a] : RowOfLine(a, m) = k
    BY RowIsOfLine
  <1> HIDE DEF R
  <1>4. outbox[r].event = File[a][n]
    BY <1>2
  <1> HIDE DEF r
  <1>5. \A m \in 1 .. n - 1 : RowOfLine(a, m) \in front
    BY <1>1, <1>2, <1>4, LinesAreSorted
  <1>6. \A k \in front : \E m \in 1 .. n - 1 : RowOfLine(a, m) = k
    <2> SUFFICES ASSUME NEW k \in front
                 PROVE  \E m \in 1 .. n - 1 : RowOfLine(a, m) = k
      OBVIOUS
    <2>1. PICK m \in DOMAIN File[a] : RowOfLine(a, m) = k
      BY <1>3
    <2>2. Precedes(File[a][m], File[a][n])
      BY <1>2, <1>4, <2>1
    <2>3. m < n /\ m \in Nat \ {0}
      BY <2>2, LinesAreSorted, FileIsSequence
    <2> QED
      BY <1>1, <2>1, <2>3
  <1>7. \A l, m \in 1 .. n - 1 : RowOfLine(a, l) = RowOfLine(a, m) => l = m
    BY <1>1, <1>2, LinesDiffer DEF SameEvent
  <1>8. Place(r, R) = 1 + Cardinality(front)
    BY DEF Place
  <1> HIDE DEF front
  <1>9. f \in Bijection(1 .. n - 1, front)
    BY <1>5, <1>6, <1>7, Fun_IsBij
  <1>10. ExistsBijection(1 .. n - 1, front)
    BY <1>9 DEF ExistsBijection
  <1>11. IsFiniteSet(1 .. n - 1) /\ Cardinality(1 .. n - 1) = n - 1
    <2>1. n - 1 \in Nat
      BY <1>1
    <2> QED
      BY <2>1, IntervalIs
  <1>12. Cardinality(front) = n - 1
    BY <1>10, <1>11, FS_Bijection
  <1> QED
    BY <1>1, <1>8, <1>12 DEF r, R

\* The log comes out of the outbox when each of its lines has its row: the
\* rows of other days and other appliers between them do not matter.
LEMMA MatchesWhenListed ==
    ASSUME Inv, OneLogOfADay, NEW a \in Applier, ListedLines(a) = DOMAIN File[a]
    PROVE  Matches(a)
  <1> DEFINE R == RowsOf(LogDay[a])
             place == [i \in R |-> Place(i, R)]
             first(n) == CHOOSE i \in R : place[i] = n
  <1>1. Rebuilt(LogDay[a]) = [n \in 1 .. Cardinality(R) |-> outbox[first(n)].event]
    BY DEF Rebuilt
  <1>2. Len(File[a]) \in Nat /\ DOMAIN File[a] = 1 .. Len(File[a])
    BY FileIsSequence
  <1>3. Cardinality(R) = Len(File[a])
    <2>1. Cardinality(1 .. Len(File[a])) = Len(File[a])
      BY <1>2, IntervalIs
    <2> QED
      BY <1>2, <2>1, AsManyLinesAsRows
  <1>4. ASSUME NEW n \in DOMAIN File[a]
        PROVE  outbox[first(n)].event = File[a][n]
    <2>1. RowOfLine(a, n) \in R /\ outbox[RowOfLine(a, n)].event = File[a][n]
      BY RowOfLineIs
    <2>2. Place(RowOfLine(a, n), R) = n
      BY PlaceIsLine
    <2>3. ASSUME NEW k \in R, Place(k, R) = n
          PROVE  k = RowOfLine(a, n)
      <3>1. PICK m \in DOMAIN File[a] : RowOfLine(a, m) = k
        BY RowIsOfLine
      <3>2. Place(RowOfLine(a, m), R) = m
        BY PlaceIsLine
      <3> QED
        BY <2>3, <3>1, <3>2
    <2> HIDE DEF R
    <2>4. first(n) = RowOfLine(a, n)
      <3>1. place[RowOfLine(a, n)] = n
        BY <2>1, <2>2
      <3>2. \A k \in R : place[k] = n => k = RowOfLine(a, n)
        BY <2>3
      <3> HIDE DEF place
      <3> QED
        BY <2>1, <3>1, <3>2
    <2> HIDE DEF first
    <2> QED
      BY <2>1, <2>4
  <1> HIDE DEF R, first
  <1>5. [n \in 1 .. Cardinality(R) |-> outbox[first(n)].event]
        = [n \in DOMAIN File[a] |-> File[a][n]]
    BY <1>2, <1>3, <1>4
  <1>6. File[a] = [n \in DOMAIN File[a] |-> File[a][n]]
    <2>1. File[a] \in Seq(Range(File[a]))
      BY OltpAssumption
    <2> QED
      BY <2>1
  <1> QED
    BY <1>1, <1>5, <1>6 DEF Matches

\* A check that passes has counted the lines: each has its row.
LEMMA ListedWhenMatches ==
    ASSUME Inv, OneLogOfADay, NEW a \in Applier, Matches(a)
    PROVE  ListedLines(a) = DOMAIN File[a]
  <1> DEFINE R == RowsOf(LogDay[a])
             place == [i \in R |-> Place(i, R)]
             first(n) == CHOOSE i \in R : place[i] = n
             L == ListedLines(a)
  <1>1. Rebuilt(LogDay[a]) = [n \in 1 .. Cardinality(R) |-> outbox[first(n)].event]
    BY DEF Rebuilt
  <1>2. Len(File[a]) \in Nat /\ DOMAIN File[a] = 1 .. Len(File[a])
    BY FileIsSequence
  <1>3. IsFiniteSet(L) /\ Cardinality(R) = Cardinality(L) /\ L \subseteq DOMAIN File[a]
    BY AsManyLinesAsRows DEF ListedLines
  <1> HIDE DEF R, L, first
  <1>4. 1 .. Cardinality(R) = 1 .. Len(File[a])
    BY <1>1, <1>2 DEF Matches
  <1>5. Cardinality(L) \in Nat
    BY <1>3, FS_CardinalityType
  <1>6. Cardinality(L) = Len(File[a])
    BY <1>2, <1>3, <1>4, <1>5
  <1>7. IsFiniteSet(1 .. Len(File[a])) /\ Cardinality(1 .. Len(File[a])) = Len(File[a])
    BY <1>2, IntervalIs
  <1>8. L = 1 .. Len(File[a])
    BY <1>2, <1>3, <1>6, <1>7, FS_Subset
  <1> QED
    BY <1>2, <1>8 DEF L

\* When every line has its row, an order of the day has its part of the log in
\* the outbox and nothing else.
LEMMA LogIsInOutbox ==
    ASSUME Inv, OneLogOfADay, NEW a \in Applier, ListedLines(a) = DOMAIN File[a],
           NEW o \in Order, Day[o] = LogDay[a]
    PROVE  EventsIn(outbox, o) = LogIn(a, o)
  <1> DEFINE n == LastOf(orders[o])
             s == EventsIn(outbox, o)
             numbers == {File[a][i].sequence_no : i \in LinesOf(a, o)}
             line(k) == CHOOSE i \in LinesOf(a, o) : File[a][i].sequence_no = k
  <1>1. outbox \in Seq(Row) /\ Lists(outbox, o, n)
    BY DEF Inv, Typed, CommittedAreListed
  <1>2. /\ s \in Seq(Events) /\ Len(s) = n
        /\ \A i \in DOMAIN outbox : Of(outbox, o, i) =>
             s[outbox[i].event.sequence_no] = outbox[i].event
    BY <1>1, EventsAre
  <1>3. ASSUME NEW i \in LinesOf(a, o)
        PROVE  File[a][i].sequence_no \in 1 .. n /\ s[File[a][i].sequence_no] = File[a][i]
    <2>1. i \in ListedLines(a) /\ File[a][i].order_id = o
      BY DEF LinesOf
    <2>2. PICK k \in RowsOf(LogDay[a]) : outbox[k].event = File[a][i]
      BY <2>1, RowOfLineIs
    <2>3. k \in DOMAIN outbox /\ Of(outbox, o, k)
      BY <2>1, <2>2 DEF RowsOf, Of
    <2> QED
      BY <1>1, <1>2, <2>2, <2>3 DEF Lists
  <1>4. ASSUME NEW k \in 1 .. n
        PROVE  \E i \in LinesOf(a, o) : File[a][i].sequence_no = k
    <2>1. PICK j \in DOMAIN outbox : Of(outbox, o, j) /\ outbox[j].event.sequence_no = k
      BY <1>1 DEF Lists
    <2>2. outbox[j].event \in Events /\ outbox[j].event.order_id = o
      BY <2>1, CommittedRowIs DEF Of
    <2>3. PICK i \in DOMAIN File[a] : File[a][i] = outbox[j].event
      BY <2>2, EventIsLine
    <2> QED
      BY <2>1, <2>2, <2>3 DEF LinesOf
  <1>5. n \in Nat
    BY <1>1 DEF Lists
  <1>6. LogIn(a, o) = [k \in numbers |-> File[a][line(k)]]
    BY DEF LogIn
  <1> HIDE DEF s, n
  <1>7. numbers = 1 .. n
    BY <1>3, <1>4
  <1>8. ASSUME NEW k \in 1 .. n
        PROVE  File[a][line(k)] = s[k]
    <2>1. line(k) \in LinesOf(a, o) /\ File[a][line(k)].sequence_no = k
      BY <1>4
    <2> HIDE DEF line
    <2> QED
      BY <1>3, <2>1
  <1> HIDE DEF line, numbers
  <1>9. [k \in numbers |-> File[a][line(k)]] = [k \in 1 .. n |-> s[k]]
    BY <1>7, <1>8
  <1>10. s = [k \in 1 .. n |-> s[k]]
    BY <1>2, <1>5
  <1> QED
    BY <1>6, <1>9, <1>10 DEF s

\* verify_outbox, for any logs, appliers and kills: the log of a day comes out of
\* the outbox as it went in when some applier has come to its end, whatever logs
\* of other days lie between its rows; and when it does, every order of the day
\* is in the state the log leaves it in.
THEOREM OutboxIsAlwaysTheLog ==
    ASSUME OneLogOfADay, LogIsAccepted
    PROVE  Spec => []OutboxIsTheLog
  <1>1. Spec => []NeverRaises
    BY OneLogIsSame, NobodyRaises
  <1>2. Inv => AppliedIsVerified
    <2> SUFFICES ASSUME Inv, NEW a \in Applier, Done(a)
                 PROVE  Matches(a)
      BY DEF AppliedIsVerified
    <2>1. next[a] \in Nat /\ next[a] > Len(File[a])
      BY DEF Inv, Typed, Done
    <2>2. \A i \in DOMAIN File[a] : i \in 1 .. next[a] - 1
      BY <2>1, FileIsSequence
    <2>3. ListedLines(a) = DOMAIN File[a]
      BY <2>2 DEF Inv, PassedStays, ListedLines
    <2> QED
      BY <2>3, MatchesWhenListed
  <1>3. Inv => VerifiedIsApplied
    <2> SUFFICES ASSUME Inv, NEW a \in Applier, Matches(a), NEW o \in Order,
                        Day[o] = LogDay[a]
                 PROVE  orders[o] = OrderAfter(LogIn(a, o))
      BY DEF VerifiedIsApplied
    <2>1. EventsIn(outbox, o) = LogIn(a, o)
      BY ListedWhenMatches, LogIsInOutbox
    <2>2. orders[o] = OrderAfter(EventsIn(outbox, o))
      BY DEF Inv, CommittedAreFolded
    <2> QED
      BY <2>1, <2>2
  <1>4. Inv /\ NeverRaises => OutboxIsTheLog
    BY <1>2, <1>3 DEF OutboxIsTheLog
  <1> QED
    BY <1>1, <1>4, InvariantHolds, PTL
=============================================================================
