--------------------------- MODULE FoldAgreement ---------------------------
(***************************************************************************)
(* The three folds `reconcile` compares (orders_projection.py), side by    *)
(* side over the log of one order: the streaming fold, the OLTP plan and   *)
(* the Silver query.  One step applies the next event of the log to the    *)
(* two incremental folds; Silver is a query over the prefix read so far.   *)
(***************************************************************************)
EXTENDS OrderLog, OrderFolds, OltpFold

CONSTANT OrderId

\* The status of an order is never null.
ASSUME FoldAssumption == Null \notin States

VARIABLES
    foldLog,    \* the log the source wrote for the order
    foldRead,   \* how many of its events have been applied
    foldRow,    \* the streaming fold's row, Null before order_placed
    foldOrder   \* the OLTP's order, Null before order_placed

foldVars == << foldLog, foldRead, foldRow, foldOrder >>

Prefix == SubSeq(foldLog, 1, foldRead)

FoldsInit ==
    /\ \E fate \in Fates : foldLog = Lifecycle(OrderId, fate)
    /\ foldRead = 0
    /\ foldRow = Null
    /\ foldOrder = Null

\* Both consumers take the next event.  Neither step is taken when the code
\* would raise.
ApplyNext ==
    /\ foldRead < Len(foldLog)
    /\ LET event == foldLog[foldRead + 1]
       IN  /\ decide(foldRow, event) = "apply"
           /\ ~FoldRaises(foldRow, event)
           /\ PlanHolds(foldOrder, event)
           /\ foldRow'   = fold_event(foldRow, event)
           /\ foldOrder' = PlanEffect(foldOrder, event)
    /\ foldRead' = foldRead + 1
    /\ UNCHANGED foldLog

AllRead == foldRead = Len(foldLog) /\ UNCHANGED foldVars

FoldsNext == ApplyNext \/ AllRead

FoldsSpec == FoldsInit /\ [][FoldsNext]_foldVars

-----------------------------------------------------------------------------
\* The columns of _COMPARE.
Compared ==
    {"status", "last_sequence_no", "line_count", "picked_line_count",
     "gross_amount", "net_amount", "substituted_lines", "removed_lines"}

\* _rows_from_oltp: the columns of one order, the line counts by a join.
OltpRow(o) ==
    [status            |-> o.status,
     last_sequence_no  |-> o.last_sequence_no,
     line_count        |-> o.line_count,
     picked_line_count |-> o.picked_line_count,
     gross_amount      |-> o.gross_amount,
     net_amount        |-> o.net_amount,
     substituted_lines |-> Cardinality(InStatus(o.lines, "substituted")),
     removed_lines     |-> Cardinality(InStatus(o.lines, "removed"))]

\* The columns in which two rows differ.
Divergences(left, right) == {c \in Compared : left[c] # right[c]}

-----------------------------------------------------------------------------
FoldTypeOK ==
    /\ foldRead \in 0 .. Len(foldLog)
    /\ \A i \in DOMAIN foldLog : foldLog[i].event_type \in EventTypes
    /\ foldRow # Null => foldRow.status \in States /\ foldRow.events_applied \in Nat
    /\ foldOrder # Null =>
         /\ foldOrder.status \in States
         /\ \A l \in DOMAIN foldOrder.lines : foldOrder.lines[l].status \in LineStatuses

\* The streaming fold, one event at a time, gives after every event the row
\* the Silver query computes over the events read so far.
StreamFoldIsSilver == foldRow = SilverOrder(Prefix)

\* No log the source writes is ever refused half-way: every event is legal for
\* the source's own state machine, is the next one for `decide`, is one
\* fold_event knows how to fold, and its OLTP plan affects the rows and reads
\* the totals it expects (picked_amount and picked_line_count included).
NothingRaises ==
    foldRead < Len(foldLog) =>
        LET event == foldLog[foldRead + 1]
            state == IF foldOrder = Null THEN Null ELSE foldOrder.status
        IN  /\ TransitionAllowed(state, event.event_type)
            /\ decide(foldRow, event) = "apply"
            /\ ~FoldRaises(foldRow, event)
            /\ PlanHolds(foldOrder, event)

\* `reconcile` finds nothing to report on an order outside picking, and at
\* most the net amount of an order that is being picked.
FoldsAgree ==
    foldOrder # Null =>
        Divergences(OltpRow(foldOrder), foldRow) \subseteq
            (IF foldOrder.status = "PICKING" THEN {"net_amount"} ELSE {})

\* The money of an order closes on its lines: once picked, net_amount is what
\* the lines add up to and a return takes back no more than that; an order
\* that can no longer be picked leaves no line undecided and, if it died
\* before picking, no amount on any line.
AmountsCloseOnLines ==
    foldOrder # Null =>
        /\ foldOrder.picked_line_count # Null =>
             /\ foldOrder.net_amount = LineSum(foldOrder.lines)
             /\ foldOrder.returned_amount <= foldOrder.net_amount
        /\ foldOrder.status \notin {"PLACED", "CONFIRMED", "PICKING"} =>
             InStatus(foldOrder.lines, "placed") = {}
        /\ foldOrder.status \in {"PAYMENT_FAILED", "CANCELLED"} =>
             foldOrder.net_amount = Null /\ LineSum(foldOrder.lines) = 0

\* orders_oltp.py says that net_amount answers "how much was actually picked"
\* and is null until that is determined, as picked_line_count is.
NetAmountIsWhatWasPicked ==
    foldOrder # Null => (foldOrder.net_amount # Null => foldOrder.picked_line_count # Null)

\* After every event of every lifecycle the three folds written apart (fold_event,
\* the plan of apply_event, silver_order) accept it and give one order.
ThreeFoldsAgree ==
    /\ FoldTypeOK
    /\ StreamFoldIsSilver
    /\ NothingRaises
    /\ FoldsAgree
    /\ AmountsCloseOnLines
=============================================================================
