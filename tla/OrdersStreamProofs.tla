------------------------- MODULE OrdersStreamProofs -------------------------
(***************************************************************************)
(* For any number of orders, partitions, publishers, batch sizes, faults   *)
(* and any logs: every row of live_order_state is always the Silver fold   *)
(* of a committed prefix of its order's log, rows never go back, and       *)
(* fold_event never raises.  Nothing is assumed of the order in which      *)
(* messages arrive.                                                        *)
(*                                                                         *)
(* First, why the two folds agree on every log: the Silver row of n + 1    *)
(* events is the fold of the Silver row of n events and the event that     *)
(* follows (FoldStep).  The query computes counts, maxima and a newest     *)
(* event over the whole log, so there is one lemma per such thing, saying  *)
(* what one more event does to it.                                         *)
(*                                                                         *)
(* Last, for an order of any lines, prices and fate: the three folds that  *)
(* `reconcile` compares agree after every event the source writes          *)
(* (FoldsAlwaysAgree).  What the sums of SumOver and LineSum are; what     *)
(* each event of a lifecycle is, by its position (Tells); what the plan    *)
(* makes of the lines, stage by stage (Staged); and the two rows side by   *)
(* side (Agree).                                                           *)
(***************************************************************************)
EXTENDS OrdersStream, FoldAgreement, WellFoundedInduction, FiniteSetTheorems,
        FunctionTheorems, SequenceTheorems, TLAPS

-----------------------------------------------------------------------------
(* The fold of one log.                                                    *)

\* The events of a log, and its prefixes.
LEMMA PrefixFacts ==
    ASSUME NEW log, IsOrderLog(log), NEW n \in 0 .. Len(log)
    PROVE  /\ Len(log) \in Nat
           /\ DOMAIN log = 1 .. Len(log)
           /\ DOMAIN SubSeq(log, 1, n) = 1 .. n
           /\ \A i \in 1 .. n : SubSeq(log, 1, n)[i] = log[i]
  BY DEF IsOrderLog

\* The numbering of a log is its order.
LEMMA Numbered ==
    ASSUME NEW log, IsOrderLog(log), NEW i \in 1 .. Len(log)
    PROVE  log[i].sequence_no = i
  BY PrefixFacts DEF IsOrderLog

-----------------------------------------------------------------------------
\* The positions of the events of one kind among the first n.
Seen(log, n, kind) == OfType(SubSeq(log, 1, n), kind)

\* The newest event of a prefix is its last one.
LEMMA NewestOfPrefix ==
    ASSUME NEW log, IsOrderLog(log), NEW n \in 1 .. Len(log)
    PROVE  Newest(SubSeq(log, 1, n)) = log[n]
  <1> DEFINE p == SubSeq(log, 1, n)
  <1>1. n \in Nat \ {0} /\ n \in 0 .. Len(log)
    BY PrefixFacts
  <1>2. DOMAIN p = 1 .. n /\ \A i \in 1 .. n : p[i] = log[i] /\ p[i].sequence_no = i
    BY <1>1, PrefixFacts, Numbered
  <1> HIDE DEF p
  <1>3. \A i \in DOMAIN p :
          (\A j \in DOMAIN p : p[j].sequence_no <= p[i].sequence_no) <=> i = n
    <2>1. TAKE i \in DOMAIN p
    <2>2. CASE i = n
      BY <1>1, <1>2, <2>2
    <2>3. CASE i # n
      <3>1. n \in DOMAIN p /\ ~ (p[n].sequence_no <= p[i].sequence_no)
        BY <1>1, <1>2, <2>1, <2>3
      <3> QED
        BY <2>3, <3>1
    <2> QED
      BY <2>2, <2>3
  <1>4. (CHOOSE i \in DOMAIN p :
           \A j \in DOMAIN p : p[j].sequence_no <= p[i].sequence_no) = n
    BY <1>1, <1>2, <1>3
  <1>5. Newest(p) = p[n]
    BY <1>4 DEF Newest
  <1> QED
    BY <1>1, <1>2, <1>5 DEF p

\* A further event adds its position to those of its type, and to no other.
LEMMA OfTypeStep ==
    ASSUME NEW log, IsOrderLog(log), NEW n \in 0 .. Len(log) - 1, NEW kind
    PROVE  OfType(SubSeq(log, 1, n + 1), kind)
             = OfType(SubSeq(log, 1, n), kind)
                 \union (IF log[n + 1].event_type = kind THEN {n + 1} ELSE {})
  <1>1. n \in 0 .. Len(log) /\ n + 1 \in 0 .. Len(log)
    BY PrefixFacts
  <1>2. /\ DOMAIN SubSeq(log, 1, n) = 1 .. n
        /\ \A i \in 1 .. n : SubSeq(log, 1, n)[i] = log[i]
        /\ DOMAIN SubSeq(log, 1, n + 1) = 1 .. n + 1
        /\ \A i \in 1 .. n + 1 : SubSeq(log, 1, n + 1)[i] = log[i]
    BY <1>1, PrefixFacts
  <1> QED
    BY <1>2 DEF OfType

\* What OfType collects are positions of the prefix.
LEMMA OfTypeFinite ==
    ASSUME NEW log, IsOrderLog(log), NEW n \in 0 .. Len(log), NEW kind
    PROVE  /\ OfType(SubSeq(log, 1, n), kind) \subseteq 1 .. n
           /\ IsFiniteSet(OfType(SubSeq(log, 1, n), kind))
           /\ \A i \in OfType(SubSeq(log, 1, n), kind) :
                i \in OfType(log, kind) /\ SubSeq(log, 1, n)[i] = log[i]
  <1>1. n \in Int /\ n \in Nat
    BY PrefixFacts
  <1>2. /\ OfType(SubSeq(log, 1, n), kind) \subseteq 1 .. n
        /\ \A i \in OfType(SubSeq(log, 1, n), kind) :
             i \in OfType(log, kind) /\ SubSeq(log, 1, n)[i] = log[i]
    <2>1. 1 .. n \subseteq DOMAIN log
      BY <1>1, PrefixFacts
    <2> QED
      BY <2>1, PrefixFacts DEF OfType
  <1>3. IsFiniteSet(1 .. n)
    BY <1>1, FS_Interval
  <1>4. IsFiniteSet(OfType(SubSeq(log, 1, n), kind))
    BY <1>2, <1>3, FS_Subset
  <1> QED
    BY <1>2, <1>4

\* sum(case when event_type = kind then 1 else 0 end), one event later.
LEMMA CountStep ==
    ASSUME NEW log, IsOrderLog(log), NEW n \in 0 .. Len(log) - 1, NEW kind
    PROVE  Cardinality(OfType(SubSeq(log, 1, n + 1), kind))
             = Cardinality(OfType(SubSeq(log, 1, n), kind))
                 + (IF log[n + 1].event_type = kind THEN 1 ELSE 0)
  <1> DEFINE S == OfType(SubSeq(log, 1, n), kind)
  <1>1. n \in 0 .. Len(log) /\ n \in Nat
    BY PrefixFacts
  <1>2. IsFiniteSet(S) /\ S \subseteq 1 .. n
    BY <1>1, OfTypeFinite
  <1>3. Cardinality(S) \in Nat
    BY <1>2, FS_CardinalityType
  <1>4. n + 1 \notin S
    BY <1>1, <1>2
  <1>5. Cardinality(S \union {n + 1}) = Cardinality(S) + 1
    BY <1>2, <1>4, FS_AddElement
  <1>6. OfType(SubSeq(log, 1, n + 1), kind)
          = S \union (IF log[n + 1].event_type = kind THEN {n + 1} ELSE {})
    BY OfTypeStep
  <1> HIDE DEF S
  <1>7. CASE log[n + 1].event_type = kind
    BY <1>5, <1>6, <1>7 DEF S
  <1>8. CASE log[n + 1].event_type # kind
    <2>1. OfType(SubSeq(log, 1, n + 1), kind) = S
      BY <1>6, <1>8
    <2>2. Cardinality(S) = Cardinality(S) + 0
      BY <1>3
    <2> QED
      BY <1>8, <2>1, <2>2 DEF S
  <1> QED
    BY <1>7, <1>8

\* count(*), the column events_applied.
LEMMA CountOfPrefix ==
    ASSUME NEW log, IsOrderLog(log), NEW n \in 0 .. Len(log)
    PROVE  Cardinality(DOMAIN SubSeq(log, 1, n)) = n
  BY PrefixFacts, FS_Interval

-----------------------------------------------------------------------------
\* A log that is not empty is opened by order_placed, and only once: the inner
\* join with `colocacao` finds exactly its first event.
LEMMA PlacedOfPrefix ==
    ASSUME NEW log, IsOrderLog(log), NEW n \in 0 .. Len(log)
    PROVE  OfType(SubSeq(log, 1, n), "order_placed") = IF n = 0 THEN {} ELSE {1}
  BY PrefixFacts DEF OfType, IsOrderLog

\* max(case when event_type = kind then amount end), of an event of which a
\* log has at most one.
LEMMA MaxOfOne ==
    ASSUME NEW a \in Nat
    PROVE  MaxOrNull({a}) = a
  BY DEF MaxOrNull, Max

\* max(case when ... then amount end) over the events at the positions S.
MaxOver(amount, S) == MaxOrNull({amount[i] : i \in S})

\* A column silver_order takes from an event of a kind of which the log has at
\* most one: null before that event, its amount from it on.
LEMMA MaxStep ==
    ASSUME NEW log, IsOrderLog(log), NEW n \in 0 .. Len(log) - 1,
           NEW kind \in {"order_picked", "order_returned"},
           NEW amount \in [OfType(log, kind) -> Nat]
    PROVE  MaxOver(amount, Seen(log, n + 1, kind))
             = IF log[n + 1].event_type = kind THEN amount[n + 1]
               ELSE MaxOver(amount, Seen(log, n, kind))
  <1> DEFINE S == Seen(log, n, kind)
             T == Seen(log, n + 1, kind)
  <1>1. /\ n \in Nat /\ n + 1 \in DOMAIN log
        /\ n \in 0 .. Len(log) /\ n + 1 \in 0 .. Len(log)
    <2>1. Len(log) \in Nat /\ DOMAIN log = 1 .. Len(log)
      BY DEF IsOrderLog
    <2> QED
      BY <2>1
  <1>2. T = S \union (IF log[n + 1].event_type = kind THEN {n + 1} ELSE {})
    BY OfTypeStep DEF Seen
  <1>3. CASE log[n + 1].event_type = kind
    <2>1. n + 1 \in OfType(log, kind)
      BY <1>1, <1>3 DEF OfType
    <2>2. S \subseteq 1 .. n /\ S \subseteq OfType(log, kind)
      BY <1>1, OfTypeFinite DEF Seen
    <2>3. S = {}
      BY <1>1, <2>1, <2>2 DEF IsOrderLog
    <2>4. {amount[i] : i \in T} = {amount[n + 1]}
      BY <1>2, <1>3, <2>3
    <2> QED
      BY <1>3, <2>1, <2>4, MaxOfOne DEF MaxOver
  <1>4. CASE log[n + 1].event_type # kind
    <2>1. T = S
      BY <1>2, <1>4
    <2> QED
      BY <1>4, <2>1
  <1> QED
    BY <1>3, <1>4

-----------------------------------------------------------------------------
\* What the events of one kind carry.
PickedCounts(log) ==
    [i \in OfType(log, "order_picked") |-> log[i].payload.picked_line_count]
PickedAmount(log) ==
    [i \in OfType(log, "order_picked") |-> log[i].payload.picked_amount]
ReturnedAmount(log) ==
    [i \in OfType(log, "order_returned") |-> log[i].payload.returned_amount]

\* The row of the first n events, column by column.
Columns(log, n) ==
    [status            |-> SourceAfter[log[n].event_type],
     last_sequence_no  |-> n,
     events_applied    |-> n,
     line_count        |-> log[1].payload.line_count,
     gross_amount      |-> log[1].payload.gross_amount,
     substituted_lines |-> Cardinality(Seen(log, n, "order_line_substituted")),
     removed_lines     |-> Cardinality(Seen(log, n, "order_line_removed")),
     picked_line_count |->
        MaxOver(PickedCounts(log), Seen(log, n, "order_picked")),
     net_amount        |->
        MaxOver(PickedAmount(log), Seen(log, n, "order_picked")),
     returned_amount   |->
        MaxOver(ReturnedAmount(log), Seen(log, n, "order_returned"))]

\* Each clause of the query is that column.
LEMMA PrefixRowIs ==
    ASSUME NEW log, IsOrderLog(log), NEW n \in 1 .. Len(log)
    PROVE  PrefixRow(log, n) = Columns(log, n)
  <1> DEFINE p        == SubSeq(log, 1, n)
             placed   == OfType(p, "order_placed")
             picked   == OfType(p, "order_picked")
             returned == OfType(p, "order_returned")
  <1>1. n \in Nat \ {0} /\ n \in 0 .. Len(log)
    BY PrefixFacts
  <1>2. placed = {1} /\ p[1] = log[1]
    BY <1>1, PlacedOfPrefix, PrefixFacts
  <1>3. p[CHOOSE i \in placed : TRUE] = log[1]
    BY <1>2
  <1>4. Newest(p) = log[n] /\ log[n].sequence_no = n
    BY NewestOfPrefix, Numbered
  <1>5. Cardinality(DOMAIN p) = n
    BY <1>1, CountOfPrefix
  <1>6. /\ \A i \in picked : i \in OfType(log, "order_picked") /\ p[i] = log[i]
        /\ \A i \in returned : i \in OfType(log, "order_returned") /\ p[i] = log[i]
    BY <1>1, OfTypeFinite
  <1>7. /\ {p[i].payload.picked_line_count : i \in picked}
             = {PickedCounts(log)[i] : i \in picked}
        /\ {p[i].payload.picked_amount : i \in picked}
             = {PickedAmount(log)[i] : i \in picked}
        /\ {p[i].payload.returned_amount : i \in returned}
             = {ReturnedAmount(log)[i] : i \in returned}
    BY <1>6 DEF PickedCounts, PickedAmount, ReturnedAmount
  <1>8. PrefixRow(log, n) = SilverOrder(p) /\ placed # {}
    BY <1>2 DEF PrefixRow
  <1> HIDE DEF p
  <1> QED
    BY <1>3, <1>4, <1>5, <1>7, <1>8 DEF SilverOrder, Columns, Seen, MaxOver, p

\* They are columns of a row, whatever the log.
LEMMA ColumnsType ==
    ASSUME NEW log, IsOrderLog(log), NEW n \in 1 .. Len(log)
    PROVE  Columns(log, n) \in Row
  <1>1. n \in Nat /\ n \in 0 .. Len(log) /\ n \in DOMAIN log /\ 1 \in DOMAIN log
    BY PrefixFacts
  <1>2. SourceAfter[log[n].event_type] \in States
    <2>1. log[n].event_type \in EventTypes
      BY <1>1 DEF IsOrderLog
    <2>2. \A kind \in EventTypes : SourceAfter[kind] \in States
      BY DEF EventTypes, LineEvents, SourceAfter, States
    <2> QED
      BY <2>1, <2>2
  <1>3. {log[1].payload.line_count, log[1].payload.gross_amount} \subseteq Nat
    BY <1>1 DEF IsOrderLog
  <1>4. \A kind : Cardinality(Seen(log, n, kind)) \in Nat
    BY <1>1, OfTypeFinite, FS_CardinalityType DEF Seen
  <1>5. ASSUME NEW kind \in {"order_picked", "order_returned"},
               NEW amount \in [OfType(log, kind) -> Nat]
        PROVE  MaxOver(amount, Seen(log, n, kind)) \in NatOrNull
    <2>1. Seen(log, n, kind) \subseteq OfType(log, kind)
      BY <1>1, OfTypeFinite DEF Seen
    <2>2. CASE Seen(log, n, kind) = {}
      BY <2>2 DEF MaxOver, MaxOrNull, NatOrNull
    <2>3. CASE Seen(log, n, kind) # {}
      <3>1. PICK i : Seen(log, n, kind) = {i} /\ i \in OfType(log, kind)
        BY <2>1, <2>3 DEF IsOrderLog
      <3>2. {amount[j] : j \in Seen(log, n, kind)} = {amount[i]}
        BY <3>1
      <3> QED
        BY <3>1, <3>2, MaxOfOne DEF MaxOver, NatOrNull
    <2> QED
      BY <2>2, <2>3
  <1>6. /\ PickedAmount(log) \in [OfType(log, "order_picked") -> Nat]
        /\ PickedCounts(log) \in [OfType(log, "order_picked") -> Nat]
        /\ ReturnedAmount(log) \in [OfType(log, "order_returned") -> Nat]
    BY DEF IsOrderLog, OfType, PickedAmount, PickedCounts, ReturnedAmount
  <1>7. /\ MaxOver(PickedCounts(log), Seen(log, n, "order_picked")) \in NatOrNull
        /\ MaxOver(PickedAmount(log), Seen(log, n, "order_picked")) \in NatOrNull
        /\ MaxOver(ReturnedAmount(log), Seen(log, n, "order_returned"))
             \in NatOrNull
    BY <1>5, <1>6
  <1> QED
    BY <1>1, <1>2, <1>3, <1>4, <1>7 DEF Columns, Row

\* An order of which no event is in the log has no row.
LEMMA NoRowAtZero ==
    ASSUME NEW log, IsOrderLog(log)
    PROVE  PrefixRow(log, 0) = Null
  <1>1. 0 \in 0 .. Len(log)
    BY DEF IsOrderLog
  <1>2. OfType(SubSeq(log, 1, 0), "order_placed") = {}
    BY <1>1, PlacedOfPrefix
  <1> QED
    BY <1>2 DEF PrefixRow, SilverOrder

-----------------------------------------------------------------------------
\* What fold_event does to each column of a row that exists.
LEMMA FoldColumns ==
    ASSUME NEW row \in Row, NEW event, event.event_type # "order_placed"
    PROVE  LET kind == event.event_type
           IN  fold_event(row, event)
                 = [status            |-> StateAfter[kind],
                    last_sequence_no  |-> event.sequence_no,
                    events_applied    |-> row.events_applied + 1,
                    line_count        |-> row.line_count,
                    gross_amount      |-> row.gross_amount,
                    substituted_lines |-> IF kind = "order_line_substituted"
                                          THEN row.substituted_lines + 1 ELSE row.substituted_lines,
                    removed_lines     |-> IF kind = "order_line_removed"
                                          THEN row.removed_lines + 1 ELSE row.removed_lines,
                    picked_line_count |-> IF kind = "order_picked"
                                          THEN event.payload.picked_line_count ELSE row.picked_line_count,
                    net_amount        |-> IF kind = "order_picked"
                                          THEN event.payload.picked_amount ELSE row.net_amount,
                    returned_amount   |-> IF kind = "order_returned"
                                          THEN event.payload.returned_amount ELSE row.returned_amount]
  <1>1. CASE event.event_type = "order_line_substituted"
    BY <1>1 DEF fold_event, Row
  <1>2. CASE event.event_type = "order_line_removed"
    BY <1>2 DEF fold_event, Row
  <1>3. CASE event.event_type = "order_picked"
    BY <1>3 DEF fold_event, Row
  <1>4. CASE event.event_type = "order_returned"
    BY <1>4 DEF fold_event, Row
  <1>5. CASE event.event_type \notin {"order_line_substituted", "order_line_removed",
                                      "order_picked", "order_returned"}
    BY <1>5 DEF fold_event, Row
  <1> QED
    BY <1>1, <1>2, <1>3, <1>4, <1>5

\* The streaming fold of the first event of a log is the Silver row of it.
LEMMA FoldFirst ==
    ASSUME NEW log, IsOrderLog(log), Len(log) > 0
    PROVE  fold_event(PrefixRow(log, 0), log[1]) = PrefixRow(log, 1)
  <1>1. 0 \in 0 .. Len(log) - 1 /\ 1 \in 1 .. Len(log)
    BY DEF IsOrderLog
  <1>2. log[1].event_type = "order_placed" /\ log[1].sequence_no = 1
    BY <1>1, PrefixFacts DEF IsOrderLog
  <1> DEFINE p == SubSeq(log, 1, 1)
  <1>3. \A kind : OfType(p, kind) = IF kind = "order_placed" THEN {1} ELSE {}
    BY <1>1, <1>2, PrefixFacts DEF OfType
  <1>4. \A kind : kind # "order_placed" => OfType(p, kind) = {} /\ Cardinality(OfType(p, kind)) = 0
    BY <1>3, FS_EmptySet
  <1>5. \A f : MaxOver(f, {}) = Null
    BY DEF MaxOver, MaxOrNull
  <1>6. SourceAfter["order_placed"] = "PLACED"
    BY DEF SourceAfter
  <1>7. Columns(log, 1) = PlacedRow(log[1])
    BY <1>1, <1>2, <1>4, <1>5, <1>6 DEF PlacedRow, Columns, Seen
  <1>8. PrefixRow(log, 1) = PlacedRow(log[1])
    BY <1>1, <1>7, PrefixRowIs
  <1> QED
    BY <1>2, <1>8 DEF fold_event

\* The streaming fold of a Silver row and the next event of the log is the
\* Silver row of one event more.
THEOREM FoldStep ==
    ASSUME NEW log, IsOrderLog(log), NEW n \in 0 .. Len(log) - 1
    PROVE  fold_event(PrefixRow(log, n), log[n + 1]) = PrefixRow(log, n + 1)
  <1>1. /\ n \in Nat
        /\ n \in 0 .. Len(log)
        /\ n + 1 \in 1 .. Len(log)
        /\ DOMAIN log = 1 .. Len(log)
    BY PrefixFacts
  <1>2. CASE n = 0
    BY <1>1, <1>2, FoldFirst
  <1>3. CASE n # 0
    <2> DEFINE kind  == log[n + 1].event_type
               net   == PickedAmount(log)
               lines == PickedCounts(log)
               back  == ReturnedAmount(log)
    <2>1. kind # "order_placed" /\ log[n + 1].sequence_no = n + 1
      BY <1>1, <1>3 DEF IsOrderLog
    <2>2. StateAfter[kind] = SourceAfter[kind]
      BY DEF StateAfter, SourceAfter
    <2>3. \A k : Cardinality(Seen(log, n + 1, k))
                   = IF kind = k THEN Cardinality(Seen(log, n, k)) + 1
                     ELSE Cardinality(Seen(log, n, k))
      <3>1. \A k : Cardinality(Seen(log, n, k)) \in Nat
        BY <1>1, OfTypeFinite, FS_CardinalityType DEF Seen
      <3> QED
        BY <3>1, CountStep DEF Seen
    <2>4. /\ net \in [OfType(log, "order_picked") -> Nat]
          /\ lines \in [OfType(log, "order_picked") -> Nat]
          /\ back \in [OfType(log, "order_returned") -> Nat]
      BY DEF IsOrderLog, OfType, PickedAmount, PickedCounts, ReturnedAmount
    <2>5. \A k : kind = k => n + 1 \in OfType(log, k)
      BY <1>1 DEF OfType
    <2>6. MaxOver(net, Seen(log, n + 1, "order_picked"))
            = IF kind = "order_picked" THEN log[n + 1].payload.picked_amount
              ELSE MaxOver(net, Seen(log, n, "order_picked"))
      <3>1. kind = "order_picked" => net[n + 1] = log[n + 1].payload.picked_amount
        BY <2>5 DEF PickedAmount
      <3> HIDE DEF net
      <3> QED
        BY <2>4, <3>1, MaxStep
    <2>7. MaxOver(lines, Seen(log, n + 1, "order_picked"))
            = IF kind = "order_picked" THEN log[n + 1].payload.picked_line_count
              ELSE MaxOver(lines, Seen(log, n, "order_picked"))
      <3>1. kind = "order_picked" => lines[n + 1] = log[n + 1].payload.picked_line_count
        BY <2>5 DEF PickedCounts
      <3> HIDE DEF lines
      <3> QED
        BY <2>4, <3>1, MaxStep
    <2>8. MaxOver(back, Seen(log, n + 1, "order_returned"))
            = IF kind = "order_returned" THEN log[n + 1].payload.returned_amount
              ELSE MaxOver(back, Seen(log, n, "order_returned"))
      <3>1. kind = "order_returned" => back[n + 1] = log[n + 1].payload.returned_amount
        BY <2>5 DEF ReturnedAmount
      <3> HIDE DEF back
      <3> QED
        BY <2>4, <3>1, MaxStep
    <2>9. n \in 1 .. Len(log)
      BY <1>1, <1>3
    <2>10. Columns(log, n) \in Row
      BY <2>9, ColumnsType
    <2>11. fold_event(Columns(log, n), log[n + 1]) = Columns(log, n + 1)
      BY <2>1, <2>2, <2>3, <2>6, <2>7, <2>8, <2>10, FoldColumns DEF Columns
    <2> QED
      BY <1>1, <2>9, <2>11, PrefixRowIs
  <1> QED
    BY <1>2, <1>3

\* LastSeq of a Silver row is the length of the prefix, so a row tells of
\* itself which prefix it is; it exists from the first event on.
LEMMA LastSeqOfPrefix ==
    ASSUME NEW log, IsOrderLog(log), NEW n \in 0 .. Len(log)
    PROVE  /\ LastSeq(PrefixRow(log, n)) = n
           /\ PrefixRow(log, n) = Null <=> n = 0
           /\ PrefixRow(log, n) \in Row \union {Null}
  <1>1. CASE n = 0
    BY <1>1, NoRowAtZero DEF LastSeq
  <1>2. CASE n # 0
    <2>1. n \in 1 .. Len(log)
      BY <1>2, PrefixFacts
    <2>2. PrefixRow(log, n) \in Row /\ PrefixRow(log, n).last_sequence_no = n
      <3>1. PrefixRow(log, n) = Columns(log, n)
        BY <2>1, PrefixRowIs
      <3>2. Columns(log, n) \in Row
        BY <2>1, ColumnsType
      <3>3. Columns(log, n).last_sequence_no = n
        BY DEF Columns
      <3> QED
        BY <3>1, <3>2, <3>3
    <2>3. PrefixRow(log, n) # Null
      BY <2>2, NullAssumption
    <2> QED
      BY <1>2, <2>2, <2>3 DEF LastSeq
  <1> QED
    BY <1>1, <1>2

\* A fold that does not raise yields a row, whatever row it starts from.
LEMMA FoldType ==
    ASSUME NEW log, IsOrderLog(log), NEW n \in 1 .. Len(log),
           NEW row \in Row \union {Null}, ~FoldRaises(row, log[n])
    PROVE  fold_event(row, log[n]) \in Row
  <1> DEFINE event == log[n]
             kind == event.event_type
  <1>1. n \in DOMAIN log
    BY PrefixFacts DEF IsOrderLog
  <1>2. kind \in EventTypes /\ event.sequence_no \in Nat
    BY <1>1, Numbered, PrefixFacts DEF IsOrderLog
  <1>3. CASE kind = "order_placed"
    <2>1. {event.payload.line_count, event.payload.gross_amount} \subseteq Nat
      BY <1>1, <1>3 DEF IsOrderLog
    <2>2. fold_event(row, event) = PlacedRow(event)
      BY <1>3 DEF fold_event
    <2> QED
      BY <1>2, <2>1, <2>2 DEF PlacedRow, Row, States, NatOrNull
  <1>4. CASE kind # "order_placed"
    <2>1. row \in Row
      BY <1>4 DEF FoldRaises
    <2>2. StateAfter[kind] \in States
      <3>1. \A k \in EventTypes : StateAfter[k] \in States
        BY DEF EventTypes, LineEvents, StateAfter, States
      <3> QED
        BY <1>2, <3>1
    <2>3. /\ kind = "order_picked" => /\ event.payload.picked_line_count \in Nat
                                      /\ event.payload.picked_amount \in Nat
          /\ kind = "order_returned" => event.payload.returned_amount \in Nat
      BY <1>1 DEF IsOrderLog
    <2>4. /\ row.events_applied + 1 \in Nat
          /\ row.line_count \in Nat
          /\ row.gross_amount \in Nat
          /\ {row.substituted_lines, row.substituted_lines + 1} \subseteq Nat
          /\ {row.removed_lines, row.removed_lines + 1} \subseteq Nat
          /\ {row.picked_line_count, row.net_amount, row.returned_amount} \subseteq NatOrNull
      BY <2>1 DEF Row
    <2>5. /\ kind = "order_picked" => /\ event.payload.picked_line_count \in NatOrNull
                                      /\ event.payload.picked_amount \in NatOrNull
          /\ kind = "order_returned" => event.payload.returned_amount \in NatOrNull
      BY <2>3 DEF NatOrNull
    <2>6. fold_event(row, event) \in Row
      <3> HIDE DEF event
      <3>1. /\ (IF kind = "order_line_substituted" THEN row.substituted_lines + 1
                ELSE row.substituted_lines) \in Nat
            /\ (IF kind = "order_line_removed" THEN row.removed_lines + 1
                ELSE row.removed_lines) \in Nat
            /\ (IF kind = "order_picked" THEN event.payload.picked_line_count
                ELSE row.picked_line_count) \in NatOrNull
            /\ (IF kind = "order_picked" THEN event.payload.picked_amount
                ELSE row.net_amount) \in NatOrNull
            /\ (IF kind = "order_returned" THEN event.payload.returned_amount
                ELSE row.returned_amount) \in NatOrNull
        BY <2>4, <2>5
      <3>2. /\ StateAfter[kind] \in States
            /\ {event.sequence_no, row.events_applied + 1, row.line_count,
                row.gross_amount} \subseteq Nat
        BY <1>2, <2>2, <2>4
      <3> QED
        BY <1>4, <2>1, <3>1, <3>2, FoldColumns DEF Row
    <2> QED
      BY <2>6
  <1> QED
    BY <1>3, <1>4

\* fold_event never raises on the next event of a log.
LEMMA NextNeverRaises ==
    ASSUME NEW log, IsOrderLog(log), NEW n \in 0 .. Len(log) - 1
    PROVE  ~FoldRaises(PrefixRow(log, n), log[n + 1])
  <1>1. n \in 0 .. Len(log) /\ n + 1 \in DOMAIN log /\ n \in Nat
    BY PrefixFacts
  <1>2. PrefixRow(log, n) = Null <=> n = 0
    BY <1>1, LastSeqOfPrefix
  <1>3. log[n + 1].event_type \in EventTypes
        /\ (log[n + 1].event_type = "order_placed" <=> n = 0)
    BY <1>1 DEF IsOrderLog
  <1>4. EventTypes = DOMAIN StateAfter
    BY DEF EventTypes, LineEvents, StateAfter
  <1> QED
    BY <1>2, <1>3, <1>4 DEF FoldRaises

-----------------------------------------------------------------------------
(* The stream.                                                             *)

\* A message is the event of its order that its sequence_no says.
LEMMA EventFacts ==
    ASSUME NEW event \in Event
    PROVE  /\ event.order_id \in Order
           /\ IsOrderLog(Log[event.order_id])
           /\ event.sequence_no \in 1 .. Len(Log[event.order_id])
           /\ event.sequence_no \in Nat \ {0}
           /\ event = Log[event.order_id][event.sequence_no]
  <1>1. PICK o \in Order : \E i \in DOMAIN Log[o] : event = Log[o][i]
    BY DEF Event, Range
  <1> PICK i \in DOMAIN Log[o] : event = Log[o][i]
    BY <1>1
  <1>2. IsOrderLog(Log[o]) /\ Log[o][i].order_id = o
    BY StreamAssumption
  <1>3. DOMAIN Log[o] = 1 .. Len(Log[o]) /\ Len(Log[o]) \in Nat
    BY <1>2 DEF IsOrderLog
  <1>4. event.sequence_no = i /\ event.order_id = o
    BY <1>1, <1>2 DEF IsOrderLog
  <1>5. i \in 1 .. Len(Log[o]) /\ i \in Nat \ {0}
    BY <1>3
  <1> QED
    BY <1>1, <1>2, <1>4, <1>5

\* What AppendOutbox appends.
LEMMA NextOfLog ==
    ASSUME NEW o \in Order, NEW n \in Nat, n < Len(Log[o])
    PROVE  /\ Log[o][n + 1] \in Event
           /\ Log[o][n + 1].order_id = o
           /\ Log[o][n + 1].sequence_no = n + 1
  <1>1. IsOrderLog(Log[o])
    BY StreamAssumption
  <1>2. n + 1 \in DOMAIN Log[o]
    BY <1>1, PrefixFacts DEF IsOrderLog
  <1>3. Log[o][n + 1] \in Range(Log[o])
    BY <1>2 DEF Range
  <1>4. Log[o][n + 1] \in Event
    BY <1>3 DEF Event
  <1>5. Log[o][n + 1].sequence_no = n + 1
    BY <1>1, <1>2 DEF IsOrderLog
  <1> QED
    BY <1>2, <1>4, <1>5, StreamAssumption

-----------------------------------------------------------------------------
\* The initial state is well typed.
LEMMA InitTypeOK == Init => TypeOK
  <1> SUFFICES ASSUME Init
               PROVE  TypeOK
    OBVIOUS
  <1>1. << >> \in Seq(Event)
    OBVIOUS
  <1>2. /\ topic \in [Partition -> Seq(Event)]
        /\ faults \in [crash : 0 .. MaxCrash, reject : 0 .. MaxReject,
                       replay : 0 .. MaxReplay]
    BY <1>1, StreamAssumption DEF Init
  <1>3. /\ batch \in [Publisher -> SUBSET (DOMAIN outbox)]
        /\ sent \in [Publisher -> SUBSET (DOMAIN outbox)]
        /\ failed \in [Publisher -> BOOLEAN]
        /\ published \subseteq DOMAIN outbox
    BY DEF Init
  <1>4. /\ oltp_sequence \in [Order -> Nat]
        /\ committed \in [Partition -> Nat]
        /\ position \in [Partition -> Nat]
        /\ current \in [Order -> Row \union {Null}]
        /\ live \in [Order -> Row \union {Null}]
        /\ phase \in Phases
    BY DEF Init, Origin, NoRows, Phases
  <1> QED
    BY <1>1, <1>2, <1>3, <1>4 DEF Init, TypeOK

\* The process that is gone leaves well-typed state.
LEMMA StopAtType ==
    ASSUME NEW offsets \in [Partition -> Nat], StopAt(offsets)
    PROVE  /\ phase' \in Phases
           /\ position' \in [Partition -> Nat]
           /\ pending' \in Seq(Event)
           /\ current' \in [Order -> Row \union {Null}]
           /\ touched' \subseteq Order
           /\ refused' \in BOOLEAN
  <1>1. << >> \in Seq(Event)
    OBVIOUS
  <1>2. NoRows \in [Order -> Row \union {Null}]
    BY DEF NoRows
  <1> QED
    BY <1>1, <1>2 DEF StopAt, Phases

\* Ending a publisher's transaction leaves its batch empty.
LEMMA ReleaseType ==
    ASSUME TypeOK, NEW p \in Publisher, Release(p)
    PROVE  /\ batch' \in [Publisher -> SUBSET (DOMAIN outbox)]
           /\ sent' \in [Publisher -> SUBSET (DOMAIN outbox)]
           /\ failed' \in [Publisher -> BOOLEAN]
  BY DEF Release, TypeOK

\* The counters of faults stay within their bounds.
LEMMA FaultsType ==
    ASSUME TypeOK
    PROVE  LET Faults == [crash : 0 .. MaxCrash, reject : 0 .. MaxReject,
                          replay : 0 .. MaxReplay]
           IN  /\ faults.crash < MaxCrash => [faults EXCEPT !.crash = @ + 1] \in Faults
               /\ faults.reject < MaxReject => [faults EXCEPT !.reject = @ + 1] \in Faults
               /\ faults.replay < MaxReplay => [faults EXCEPT !.replay = @ + 1] \in Faults
  <1>1. /\ MaxCrash \in Nat /\ MaxReject \in Nat /\ MaxReplay \in Nat
        /\ faults \in [crash : 0 .. MaxCrash, reject : 0 .. MaxReject,
                       replay : 0 .. MaxReplay]
    BY StreamAssumption DEF TypeOK
  <1> QED
    BY <1>1

\* A row of the outbox goes to a partition as a message.
LEMMA AppendedType ==
    ASSUME TypeOK, NEW i \in DOMAIN outbox
    PROVE  Appended(i) \in [Partition -> Seq(Event)]
  <1>1. outbox[i] \in Event
    BY DEF TypeOK
  <1>2. PartitionOfRow(i) \in Partition
    BY <1>1, EventFacts, StreamAssumption DEF PartitionOfRow
  <1> QED
    BY <1>1, <1>2 DEF Appended, TypeOK

\* One turn of project_batch's loop, the only action that computes rows.
LEMMA FoldNextType ==
    ASSUME TypeOK, FoldNext
    PROVE  TypeOK'
  <1> DEFINE event == Head(pending)
             o == event.order_id
  <1>1. event \in Event /\ Tail(pending) \in Seq(Event)
    BY DEF TypeOK, FoldNext
  <1>2. o \in Order /\ event = Log[o][event.sequence_no] /\ IsOrderLog(Log[o])
        /\ event.sequence_no \in 1 .. Len(Log[o])
    BY <1>1, EventFacts
  <1>3. ~FoldRaises(current[o], event) => fold_event(current[o], event) \in Row
    BY <1>2, FoldType DEF TypeOK
  <1>4. /\ current' \in [Order -> Row \union {Null}]
        /\ touched' \subseteq Order
        /\ refused' \in BOOLEAN
    BY <1>2, <1>3 DEF TypeOK, FoldNext
  <1> QED
    BY <1>1, <1>4 DEF TypeOK, FoldNext, oltp, publisher, broker

\* Every action keeps every type.
LEMMA TypeStep == TypeOK /\ [Next]_vars => TypeOK'
  <1> SUFFICES ASSUME TypeOK, [Next]_vars
               PROVE  TypeOK'
    OBVIOUS
  <1> USE DEF oltp, publisher, broker, projector
  <1>1. ASSUME NEW o \in Order, AppendOutbox(o)
        PROVE  TypeOK'
    <2>1. Log[o][oltp_sequence[o] + 1] \in Event
      BY <1>1, NextOfLog DEF TypeOK, AppendOutbox
    <2>2. outbox' \in Seq(Event) /\ DOMAIN outbox \subseteq DOMAIN outbox'
      BY <1>1, <2>1 DEF TypeOK, AppendOutbox
    <2> QED
      BY <1>1, <2>2 DEF TypeOK, AppendOutbox
  <1>2. ASSUME NEW p \in Publisher, TakeBatch(p)
        PROVE  TypeOK'
    <2>1. FirstOf(Takeable, BatchSize) \subseteq DOMAIN outbox
      BY DEF FirstOf, Takeable
    <2> QED
      BY <1>2, <2>1 DEF TypeOK, TakeBatch
  <1>3. ASSUME NEW p \in Publisher, NEW i \in batch[p], Accept(p, i)
        PROVE  TypeOK'
    <2>1. i \in DOMAIN outbox
      BY DEF TypeOK
    <2>2. topic' \in [Partition -> Seq(Event)]
      BY <1>3, <2>1, AppendedType DEF Accept
    <2> QED
      BY <1>3, <2>1, <2>2 DEF TypeOK, Accept
  <1>4. ASSUME NEW p \in Publisher, MarkPublished(p)
        PROVE  TypeOK'
    BY <1>4, ReleaseType DEF TypeOK, MarkPublished
  <1>5. ASSUME NEW p \in Publisher, FailBatch(p)
        PROVE  TypeOK'
    BY <1>5, ReleaseType DEF TypeOK, FailBatch
  <1>6. ASSUME StartProjector
        PROVE  TypeOK'
    BY <1>6 DEF TypeOK, StartProjector, Phases
  <1>7. ASSUME NEW q \in Partition, Poll(q)
        PROVE  TypeOK'
    <2>1. topic[q][position[q] + 1] \in Event
      BY <1>7 DEF TypeOK, Poll
    <2> QED
      BY <1>7, <2>1 DEF TypeOK, Poll
  <1>8. ASSUME BeginFlush
        PROVE  TypeOK'
    BY <1>8 DEF TypeOK, BeginFlush, Phases
  <1>9. ASSUME FoldNext
        PROVE  TypeOK'
    BY <1>9, FoldNextType
  <1>10. ASSUME SaveAndCommit
         PROVE  TypeOK'
    BY <1>10 DEF TypeOK, SaveAndCommit, Phases, NoRows
  <1>11. ASSUME CommitOffset
         PROVE  TypeOK'
    BY <1>11, StopAtType DEF TypeOK, CommitOffset, Phases
  <1>12. ASSUME IdleExit
         PROVE  TypeOK'
    BY <1>12, StopAtType DEF TypeOK, IdleExit
  <1>13. ASSUME NEW p \in Publisher, CrashPublisher(p)
         PROVE  TypeOK'
    BY <1>13, ReleaseType, FaultsType DEF TypeOK, CrashPublisher
  <1>14. ASSUME NEW p \in Publisher, NEW i \in batch[p], Reject(p, i)
         PROVE  TypeOK'
    <2>1. i \in DOMAIN outbox
      BY DEF TypeOK
    <2>2. topic' \in [Partition -> Seq(Event)]
      BY <1>14, <2>1, AppendedType DEF Reject, TypeOK
    <2> QED
      BY <1>14, <2>1, <2>2, FaultsType DEF TypeOK, Reject
  <1>15. ASSUME CrashProjector
         PROVE  TypeOK'
    BY <1>15, StopAtType, FaultsType DEF TypeOK, CrashProjector
  <1>16. ASSUME Replay
         PROVE  TypeOK'
    BY <1>16, FaultsType DEF TypeOK, Replay, Origin
  <1>17. CASE UNCHANGED vars
    BY <1>17 DEF TypeOK, vars
  <1> QED
    BY <1>1, <1>2, <1>3, <1>4, <1>5, <1>6, <1>7, <1>8, <1>9, <1>10, <1>11, <1>12,
       <1>13, <1>14, <1>15, <1>16, <1>17
       DEF Next, Publish, Projection, Fault

\* Every variable keeps its type, the rows of the read model in particular.
THEOREM TypeCorrect == Spec => []TypeOK
  BY InitTypeOK, TypeStep, PTL DEF Spec
-----------------------------------------------------------------------------
(* The rows.                                                               *)

\* The strengthening: RowsAreSilverPrefixes alone says nothing of the rows a
\* projector holds between two commits, and those are the ones it will save.
Invariant == TypeOK /\ RowsAreSilverPrefixes /\ ProjectorInvariant

\* No row anywhere is the fold of no events.
LEMMA InitInvariant == Init => Invariant
  <1> SUFFICES ASSUME Init
               PROVE  Invariant
    OBVIOUS
  <1>1. \A o \in Order : Null = PrefixRow(Log[o], 0) /\ LastSeq(Null) = 0
    BY NoRowAtZero, StreamAssumption DEF LastSeq
  <1>2. RowsAreSilverPrefixes
    BY <1>1 DEF Init, NoRows, RowsAreSilverPrefixes
  <1>3. ProjectorInvariant
    BY DEF Init, NoRows, Origin, ProjectorInvariant, LoadedRowsAreSilverPrefixes,
           LoadedAsStored, EventsAreCommitted
  <1> QED
    BY <1>2, <1>3, InitTypeOK DEF Invariant

\* A row of the model: which prefix it is, and what the next event does to it.
LEMMA RowFacts ==
    ASSUME NEW o \in Order, NEW n \in 0 .. Len(Log[o])
    PROVE  /\ LastSeq(PrefixRow(Log[o], n)) = n
           /\ PrefixRow(Log[o], n) = Null <=> n = 0
           /\ n < Len(Log[o]) =>
                /\ fold_event(PrefixRow(Log[o], n), Log[o][n + 1])
                     = PrefixRow(Log[o], n + 1)
                /\ ~FoldRaises(PrefixRow(Log[o], n), Log[o][n + 1])
  <1> IsOrderLog(Log[o])
    BY StreamAssumption
  <1>1. Len(Log[o]) \in Nat
    BY DEF IsOrderLog
  <1>2. n < Len(Log[o]) => n \in 0 .. Len(Log[o]) - 1
    BY <1>1
  <1> QED
    BY <1>1, <1>2, LastSeqOfPrefix, FoldStep, NextNeverRaises

LEMMA LastSeqType ==
    ASSUME NEW row \in Row \union {Null}
    PROVE  /\ LastSeq(row) \in Nat
           /\ row = Null => LastSeq(row) = 0
  BY DEF LastSeq, Row

\* What one turn of project_batch's loop does to the row of its event.
LEMMA Turn ==
    ASSUME Invariant, phase = "folding", pending # << >>,
           decide(current[Head(pending).order_id], Head(pending)) = "apply"
    PROVE  LET event == Head(pending)
               o     == event.order_id
               n     == LastSeq(current[o])
           IN  /\ o \in Order
               /\ ~FoldRaises(current[o], event)
               /\ fold_event(current[o], event) = PrefixRow(Log[o], n + 1)
               /\ fold_event(current[o], event) # Null
               /\ LastSeq(fold_event(current[o], event)) = n + 1
               /\ n + 1 <= oltp_sequence[o]
               /\ LastSeq(live[o]) <= n + 1
  <1> DEFINE event == Head(pending)
             o     == event.order_id
             n     == LastSeq(current[o])
  <1>1. event \in Event /\ event = pending[1] /\ 1 \in DOMAIN pending
    BY DEF Invariant, TypeOK
  <1>2. /\ o \in Order
        /\ event.sequence_no \in 1 .. Len(Log[o])
        /\ event.sequence_no \in Nat
        /\ event = Log[o][event.sequence_no]
    BY <1>1, EventFacts
  <1>3. n \in Nat /\ current[o] \in Row \union {Null} /\ Len(Log[o]) \in Nat
    <2>1. current[o] \in Row \union {Null}
      BY <1>2 DEF Invariant, TypeOK
    <2>2. n \in Nat
      BY <2>1, LastSeqType
    <2>3. Len(Log[o]) \in Nat
      BY <1>2, StreamAssumption DEF IsOrderLog
    <2> QED
      BY <2>1, <2>2, <2>3
  <1>4. event.sequence_no = n + 1
    BY <1>2, <1>3 DEF decide
  <1>5. n \in 0 .. Len(Log[o]) /\ n < Len(Log[o]) /\ n + 1 \in 0 .. Len(Log[o])
    BY <1>2, <1>3, <1>4
  <1>6. current[o] = PrefixRow(Log[o], n)
    <2>1. CASE current[o] = Null
      BY <1>2, <2>1, NoRowAtZero, LastSeqType, StreamAssumption
    <2>2. CASE current[o] # Null
      BY <1>2, <2>2
         DEF Invariant, ProjectorInvariant, LoadedRowsAreSilverPrefixes
    <2> QED
      BY <2>1, <2>2
  <1>7. /\ fold_event(current[o], event) = PrefixRow(Log[o], n + 1)
        /\ ~FoldRaises(current[o], event)
    BY <1>2, <1>4, <1>5, <1>6, RowFacts
  <1>8. LastSeq(PrefixRow(Log[o], n + 1)) = n + 1 /\ PrefixRow(Log[o], n + 1) # Null
    BY <1>2, <1>3, <1>5, RowFacts
  <1>9. n + 1 <= oltp_sequence[o]
    BY <1>1, <1>4 DEF Invariant, ProjectorInvariant, EventsAreCommitted, IsCommitted
  <1>10. LastSeq(live[o]) <= n + 1
    <2>1. CASE current[o] = Null
      <3>1. live[o] = Null
        BY <1>1, <2>1 DEF Invariant, ProjectorInvariant, LoadedAsStored
      <3> QED
        BY <1>3, <3>1 DEF LastSeq
    <2>2. CASE current[o] # Null
      <3>1. LastSeq(live[o]) <= n /\ LastSeq(live[o]) \in Nat
        BY <1>2, <2>2, LastSeqType
           DEF Invariant, TypeOK, ProjectorInvariant, LoadedRowsAreSilverPrefixes
      <3> QED
        BY <1>3, <3>1
    <2> QED
      BY <2>1, <2>2
  <1> QED
    BY <1>2, <1>7, <1>8, <1>9, <1>10

\* fold_event never raises on an event that `decide` lets through, so a turn of
\* the loop is always possible: no batch is ever lost to an exception.
LEMMA NoRaise == Invariant => FoldNeverRaises
  BY Turn DEF FoldNeverRaises

-----------------------------------------------------------------------------
\* One lemma per kind of step.  First the steps that touch neither the rows nor
\* what is in hand.
LEMMA QuietStep ==
    ASSUME Invariant, TypeOK', UNCHANGED << oltp_sequence, outbox, topic, pending,
                                            current, touched, phase, live >>
    PROVE  Invariant'
  BY DEF Invariant, RowsAreSilverPrefixes, ProjectorInvariant,
         LoadedRowsAreSilverPrefixes, LoadedAsStored, EventsAreCommitted, IsCommitted

\* The projector stops, or is between batches: it holds no rows.
LEMMA StoppedStep ==
    ASSUME Invariant, TypeOK',
           UNCHANGED << oltp_sequence, outbox, topic, live >>,
           pending' = << >> \/ pending' = pending,
           current' = NoRows, touched' = {}, phase' # "folding"
    PROVE  Invariant'
  <1>1. RowsAreSilverPrefixes'
    BY DEF Invariant, RowsAreSilverPrefixes
  <1>2. (LoadedRowsAreSilverPrefixes /\ LoadedAsStored)'
    BY DEF LoadedRowsAreSilverPrefixes, LoadedAsStored, NoRows
  <1>3. EventsAreCommitted'
    BY DEF Invariant, ProjectorInvariant, EventsAreCommitted, IsCommitted
  <1> QED
    BY <1>1, <1>2, <1>3 DEF Invariant, ProjectorInvariant

\* A committed event makes room for longer prefixes and shortens none.
LEMMA AppendOutboxStep ==
    ASSUME Invariant, TypeOK', NEW o \in Order, AppendOutbox(o)
    PROVE  Invariant'
  <1> DEFINE event == Log[o][oltp_sequence[o] + 1]
  <1>1. /\ event.order_id = o /\ event.sequence_no = oltp_sequence[o] + 1
        /\ event \in Event
    BY NextOfLog DEF AppendOutbox, Invariant, TypeOK
  <1>2. \A x \in Order : oltp_sequence[x] \in Nat /\ oltp_sequence[x] <= oltp_sequence'[x]
    BY DEF AppendOutbox, Invariant, TypeOK
  <1>3. \A e \in Event : IsCommitted(e) => e.sequence_no <= oltp_sequence'[e.order_id]
    <2>1. TAKE e \in Event
    <2>2. e.order_id \in Order /\ e.sequence_no \in Nat
      BY EventFacts
    <2>3. oltp_sequence'[e.order_id] \in Nat
      BY <2>2 DEF TypeOK
    <2> QED
      BY <1>2, <2>2, <2>3 DEF IsCommitted
  <1>4. event.sequence_no <= oltp_sequence'[event.order_id]
    <2>1. oltp_sequence'[o] = oltp_sequence[o] + 1 /\ oltp_sequence[o] \in Nat
      BY DEF AppendOutbox, Invariant, TypeOK
    <2> QED
      BY <1>1, <2>1
  <1>5. EventsAreCommitted'
    <2> HIDE DEF event
    <2>1. \A i \in DOMAIN outbox' : outbox'[i] = event \/ (i \in DOMAIN outbox /\ outbox'[i] = outbox[i])
      BY <1>1 DEF AppendOutbox, Invariant, TypeOK, event
    <2>2. \A i \in DOMAIN outbox' :
            outbox'[i].sequence_no <= oltp_sequence'[outbox'[i].order_id]
      <3>1. \A i \in DOMAIN outbox : outbox[i] \in Event /\ IsCommitted(outbox[i])
        BY DEF Invariant, TypeOK, ProjectorInvariant, EventsAreCommitted
      <3> QED
        BY <1>3, <1>4, <2>1, <3>1
    <2>3. \A q \in Partition : \A i \in DOMAIN topic[q] :
            topic[q][i].sequence_no <= oltp_sequence'[topic[q][i].order_id]
      <3>1. \A q \in Partition : \A i \in DOMAIN topic[q] :
              topic[q][i] \in Event /\ IsCommitted(topic[q][i])
        BY DEF Invariant, TypeOK, ProjectorInvariant, EventsAreCommitted
      <3> QED
        BY <1>3, <3>1
    <2>4. \A i \in DOMAIN pending :
            pending[i].sequence_no <= oltp_sequence'[pending[i].order_id]
      <3>1. \A i \in DOMAIN pending : pending[i] \in Event /\ IsCommitted(pending[i])
        BY DEF Invariant, TypeOK, ProjectorInvariant, EventsAreCommitted
      <3> QED
        BY <1>3, <3>1
    <2>5. UNCHANGED << topic, pending >>
      BY DEF AppendOutbox, broker, projector
    <2> QED
      BY <2>2, <2>3, <2>4, <2>5 DEF EventsAreCommitted, IsCommitted
  <1>6. UNCHANGED << current, touched, phase, pending, live >>
    BY DEF AppendOutbox, projector
  <1>7. \A x \in Order : LastSeq(live[x]) \in Nat /\ LastSeq(current[x]) \in Nat
    BY LastSeqType DEF Invariant, TypeOK
  <1>8. RowsAreSilverPrefixes'
    BY <1>2, <1>6, <1>7 DEF Invariant, TypeOK, RowsAreSilverPrefixes
  <1>9. LoadedRowsAreSilverPrefixes'
    BY <1>2, <1>6, <1>7
       DEF Invariant, TypeOK, ProjectorInvariant, LoadedRowsAreSilverPrefixes
  <1>10. LoadedAsStored'
    BY <1>6 DEF Invariant, ProjectorInvariant, LoadedAsStored
  <1> QED
    BY <1>5, <1>8, <1>9, <1>10 DEF Invariant, ProjectorInvariant

\* A message taken by the broker is a row of the outbox.
LEMMA TopicStep ==
    ASSUME Invariant, TypeOK', NEW i \in DOMAIN outbox,
           topic' = Appended(i) \/ topic' = topic,
           UNCHANGED << oltp_sequence, outbox, pending, current, touched, phase, live >>
    PROVE  Invariant'
  <1>1. PartitionOfRow(i) \in Partition /\ outbox[i] \in Event
    BY EventFacts, StreamAssumption DEF PartitionOfRow, Invariant, TypeOK
  <1>2. \A q \in Partition : \A j \in DOMAIN topic'[q] :
          topic'[q][j] = outbox[i] \/ (j \in DOMAIN topic[q] /\ topic'[q][j] = topic[q][j])
    <2>1. TAKE q \in Partition
    <2>2. topic[q] \in Seq(Event)
      BY DEF Invariant, TypeOK
    <2>3. topic'[q] = topic[q] \/ topic'[q] = Append(topic[q], outbox[i])
      BY <1>1, <2>1 DEF Appended, Invariant, TypeOK
    <2>4. CASE topic'[q] = topic[q]
      BY <2>4
    <2>5. CASE topic'[q] = Append(topic[q], outbox[i])
      BY <1>1, <2>2, <2>5, AppendProperties
    <2> QED
      BY <2>3, <2>4, <2>5
  <1>3. \A q \in Partition : \A j \in DOMAIN topic'[q] : IsCommitted(topic'[q][j])
    BY <1>2 DEF Invariant, ProjectorInvariant, EventsAreCommitted
  <1>4. EventsAreCommitted'
    BY <1>3 DEF Invariant, ProjectorInvariant, EventsAreCommitted, IsCommitted
  <1> QED
    BY <1>4 DEF Invariant, RowsAreSilverPrefixes, ProjectorInvariant,
                LoadedRowsAreSilverPrefixes, LoadedAsStored

\* A polled message was in the topic.
LEMMA PollStep ==
    ASSUME Invariant, TypeOK', NEW q \in Partition, Poll(q)
    PROVE  Invariant'
  <1> DEFINE event == topic[q][position[q] + 1]
  <1>1. event \in Event /\ IsCommitted(event)
    <2>1. position[q] + 1 \in DOMAIN topic[q]
      BY DEF Poll, Invariant, TypeOK
    <2> QED
      BY <2>1 DEF Invariant, TypeOK, ProjectorInvariant, EventsAreCommitted
  <1> HIDE DEF event
  <1>2. \A i \in DOMAIN pending' :
          pending'[i] = event \/ (i \in DOMAIN pending /\ pending'[i] = pending[i])
    BY <1>1 DEF Poll, Invariant, TypeOK, event
  <1>3. \A i \in DOMAIN pending' : IsCommitted(pending'[i])
    BY <1>1, <1>2 DEF Invariant, ProjectorInvariant, EventsAreCommitted
  <1>4. UNCHANGED << oltp_sequence, outbox, topic, current, touched, phase, live >>
        /\ phase = "polling"
    BY DEF Poll, oltp, broker
  <1>5. EventsAreCommitted'
    BY <1>3, <1>4 DEF Invariant, ProjectorInvariant, EventsAreCommitted, IsCommitted
  <1> QED
    BY <1>4, <1>5 DEF Invariant, RowsAreSilverPrefixes, ProjectorInvariant,
                      LoadedRowsAreSilverPrefixes, LoadedAsStored

\* A loaded row is the stored one.
LEMMA BeginFlushStep ==
    ASSUME Invariant, TypeOK', BeginFlush
    PROVE  Invariant'
  <1>1. UNCHANGED << oltp_sequence, outbox, topic, pending, touched, live >>
        /\ phase = "polling"
    BY DEF BeginFlush, oltp, broker
  <1>2. \A o \in Order : current'[o] = Null \/ current'[o] = live[o]
    BY DEF BeginFlush
  <1>3. RowsAreSilverPrefixes' /\ EventsAreCommitted'
    BY <1>1 DEF Invariant, RowsAreSilverPrefixes, ProjectorInvariant, EventsAreCommitted,
                IsCommitted
  <1>4. LoadedRowsAreSilverPrefixes'
    <2>1. \A o \in Order : LastSeq(live[o]) \in Nat
      BY LastSeqType DEF Invariant, TypeOK
    <2> QED
      BY <1>1, <1>2, <2>1
         DEF Invariant, RowsAreSilverPrefixes, LoadedRowsAreSilverPrefixes
  <1>5. LoadedAsStored'
    <2>1. touched = {}
      BY <1>1 DEF Invariant, ProjectorInvariant, LoadedAsStored
    <2>2. \A i \in DOMAIN pending : pending[i].order_id \in Order
      BY EventFacts DEF Invariant, TypeOK
    <2>3. \A i \in DOMAIN pending :
            current'[pending[i].order_id] = live[pending[i].order_id]
      BY <2>2 DEF BeginFlush
    <2>4. phase' = "folding"
      BY DEF BeginFlush
    <2> QED
      BY <1>1, <2>1, <2>3, <2>4 DEF LoadedAsStored
  <1> QED
    BY <1>3, <1>4, <1>5 DEF Invariant, ProjectorInvariant

\* A folded row is the Silver row of one event more; the others stay.
LEMMA FoldNextStep ==
    ASSUME Invariant, TypeOK', FoldNext
    PROVE  Invariant'
  <1> DEFINE event == Head(pending)
             o     == event.order_id
  <1>1. /\ UNCHANGED << oltp_sequence, outbox, topic, phase, live >>
        /\ phase = "folding" /\ pending # << >> /\ pending' = Tail(pending)
    BY DEF FoldNext, oltp, publisher, broker
  <1>2. \A i \in DOMAIN pending' : i + 1 \in DOMAIN pending /\ pending'[i] = pending[i + 1]
    BY <1>1 DEF Invariant, TypeOK
  <1>3. RowsAreSilverPrefixes' /\ EventsAreCommitted'
    BY <1>1, <1>2
       DEF Invariant, RowsAreSilverPrefixes, ProjectorInvariant, EventsAreCommitted, IsCommitted
  <1>4. CASE decide(current[o], event) = "apply"
    <2>1. /\ current' = [current EXCEPT ![o] = fold_event(current[o], event)]
          /\ touched' = touched \union {o}
      BY <1>4 DEF FoldNext
    <2> DEFINE row == fold_event(current[o], event)
               n   == LastSeq(current[o])
    <2>2. /\ o \in Order
          /\ row = PrefixRow(Log[o], n + 1)
          /\ row # Null
          /\ LastSeq(row) = n + 1
          /\ n + 1 <= oltp_sequence[o]
          /\ LastSeq(live[o]) <= n + 1
      BY <1>1, <1>4, Turn
    <2> HIDE DEF row, n
    <2>3. \A x \in Order : current'[x] = IF x = o THEN row ELSE current[x]
      BY <2>1 DEF Invariant, TypeOK, row
    <2>4. LoadedRowsAreSilverPrefixes'
      BY <1>1, <2>2, <2>3 DEF Invariant, ProjectorInvariant, LoadedRowsAreSilverPrefixes
    <2>5. \A i \in DOMAIN pending' : pending'[i].order_id \in Order
      BY EventFacts DEF TypeOK
    <2>6. touched \subseteq Order
      BY DEF Invariant, TypeOK
    <2>7. LoadedAsStored'
      BY <1>1, <1>2, <2>1, <2>2, <2>3, <2>5, <2>6
         DEF Invariant, ProjectorInvariant, LoadedAsStored
    <2> QED
      BY <1>3, <2>4, <2>7 DEF Invariant, ProjectorInvariant
  <1>5. CASE decide(current[o], event) # "apply"
    <2>1. UNCHANGED << current, touched >>
      BY <1>5 DEF FoldNext
    <2>2. LoadedRowsAreSilverPrefixes'
      BY <1>1, <2>1 DEF Invariant, ProjectorInvariant, LoadedRowsAreSilverPrefixes
    <2>3. LoadedAsStored'
      BY <1>1, <1>2, <2>1 DEF Invariant, ProjectorInvariant, LoadedAsStored
    <2> QED
      BY <1>3, <2>2, <2>3 DEF Invariant, ProjectorInvariant
  <1> QED
    BY <1>4, <1>5

\* The saved rows are the ones in hand.
LEMMA SaveStep ==
    ASSUME Invariant, TypeOK', SaveAndCommit
    PROVE  Invariant'
  <1>1. /\ UNCHANGED << oltp_sequence, outbox, topic, pending >>
        /\ current' = NoRows /\ touched' = {} /\ phase' = "written"
    BY DEF SaveAndCommit, oltp, broker
  <1>2. \A o \in Order : live'[o] = IF o \in touched THEN current[o] ELSE live[o]
    BY DEF SaveAndCommit
  <1>3. \A o \in touched : current[o] # Null
    BY DEF Invariant, ProjectorInvariant, LoadedAsStored
  <1>4. RowsAreSilverPrefixes'
    BY <1>1, <1>2, <1>3 DEF Invariant, RowsAreSilverPrefixes, ProjectorInvariant,
                            LoadedRowsAreSilverPrefixes
  <1>5. (LoadedRowsAreSilverPrefixes /\ LoadedAsStored)'
    BY <1>1 DEF LoadedRowsAreSilverPrefixes, LoadedAsStored, NoRows
  <1>6. EventsAreCommitted'
    BY <1>1 DEF Invariant, ProjectorInvariant, EventsAreCommitted, IsCommitted
  <1> QED
    BY <1>4, <1>5, <1>6 DEF Invariant, ProjectorInvariant

\* Every action keeps the invariant.
LEMMA InvariantStep == Invariant /\ [Next]_vars => Invariant'
  <1> SUFFICES ASSUME Invariant, [Next]_vars
               PROVE  Invariant'
    OBVIOUS
  <1>0. TypeOK'
    BY TypeStep DEF Invariant
  <1> USE DEF oltp, publisher, broker, projector
  <1>1. ASSUME NEW o \in Order, AppendOutbox(o)
        PROVE  Invariant'
    BY <1>0, <1>1, AppendOutboxStep
  <1>2. ASSUME NEW p \in Publisher, TakeBatch(p)
        PROVE  Invariant'
    BY <1>0, <1>2, QuietStep DEF TakeBatch
  <1>3. ASSUME NEW p \in Publisher, NEW i \in batch[p], Accept(p, i) \/ Reject(p, i)
        PROVE  Invariant'
    <2>1. i \in DOMAIN outbox
      BY DEF Invariant, TypeOK
    <2>2. topic' = Appended(i) \/ topic' = topic
      BY <1>3 DEF Accept, Reject
    <2>3. UNCHANGED << oltp_sequence, outbox, pending, current, touched, phase, live >>
      BY <1>3 DEF Accept, Reject
    <2> QED
      BY <1>0, <2>1, <2>2, <2>3, TopicStep
  <1>4. ASSUME NEW p \in Publisher,
               MarkPublished(p) \/ FailBatch(p) \/ CrashPublisher(p)
        PROVE  Invariant'
    BY <1>0, <1>4, QuietStep DEF MarkPublished, FailBatch, CrashPublisher
  <1>5. ASSUME StartProjector
        PROVE  Invariant'
    <2>1. current = current' /\ touched' = touched
      BY <1>5 DEF StartProjector
    <2> QED
      BY <1>0, <1>5 DEF StartProjector, Invariant, RowsAreSilverPrefixes, ProjectorInvariant,
         LoadedRowsAreSilverPrefixes, LoadedAsStored, EventsAreCommitted, IsCommitted
  <1>6. ASSUME NEW q \in Partition, Poll(q)
        PROVE  Invariant'
    BY <1>0, <1>6, PollStep
  <1>7. ASSUME BeginFlush
        PROVE  Invariant'
    BY <1>0, <1>7, BeginFlushStep
  <1>8. ASSUME FoldNext
        PROVE  Invariant'
    BY <1>0, <1>8, FoldNextStep
  <1>9. ASSUME SaveAndCommit
        PROVE  Invariant'
    BY <1>0, <1>9, SaveStep
  <1>10. ASSUME CommitOffset
         PROVE  Invariant'
    <2>1. CASE refused /\ Strict
      BY <1>0, <1>10, <2>1, StoppedStep DEF CommitOffset, StopAt
    <2>2. CASE ~(refused /\ Strict)
      <3>1. /\ UNCHANGED << oltp_sequence, outbox, topic, pending, current, touched, live >>
            /\ phase = "written" /\ phase' = "polling"
        BY <1>10, <2>2 DEF CommitOffset
      <3> QED
        BY <1>0, <3>1 DEF Invariant, RowsAreSilverPrefixes, ProjectorInvariant,
           LoadedRowsAreSilverPrefixes, LoadedAsStored, EventsAreCommitted, IsCommitted
    <2> QED
      BY <2>1, <2>2
  <1>11. ASSUME IdleExit \/ CrashProjector
         PROVE  Invariant'
    BY <1>0, <1>11, StoppedStep DEF IdleExit, CrashProjector, StopAt
  <1>12. ASSUME Replay
         PROVE  Invariant'
    BY <1>0, <1>12, QuietStep DEF Replay
  <1>13. CASE UNCHANGED vars
    BY <1>0, <1>13, QuietStep DEF vars
  <1> QED
    BY <1>1, <1>2, <1>3, <1>4, <1>5, <1>6, <1>7, <1>8, <1>9, <1>10, <1>11, <1>12, <1>13
       DEF Next, Publish, Projection, Fault

\* The inductive invariant holds of every behaviour.
THEOREM InvariantHolds == Spec => []Invariant
  BY InitInvariant, InvariantStep, PTL DEF Spec

\* Every row of live_order_state is the Silver fold of a committed prefix of
\* its order's log.
THEOREM RowsCorrect == Spec => []RowsAreSilverPrefixes
  <1>1. Invariant => RowsAreSilverPrefixes
    BY DEF Invariant
  <1> QED
    BY <1>1, InvariantHolds, PTL

\* What the projector holds in hand is as right as what it has stored.
THEOREM ProjectorCorrect == Spec => []ProjectorInvariant
  <1>1. Invariant => ProjectorInvariant
    BY DEF Invariant
  <1> QED
    BY <1>1, InvariantHolds, PTL

\* fold_event never raises: redelivery, gaps and replays included.
THEOREM NeverRaises == Spec => []FoldNeverRaises
  BY InvariantHolds, NoRaise, PTL

-----------------------------------------------------------------------------
(* A step of the system is a step of the read model or leaves it alone.    *)

\* Only the save touches the rows.
LEMMA OnlySaveMovesRows ==
    [Next]_vars => SaveAndCommit \/ live' = live
  BY DEF Next, Publish, Projection, Fault, vars, oltp, publisher, broker, projector,
         AppendOutbox, TakeBatch, Accept, MarkPublished, FailBatch, StartProjector, Poll,
         BeginFlush, FoldNext, CommitOffset, IdleExit, CrashPublisher, Reject,
         CrashProjector, Replay

\* A saved row is not older than the one it replaces.
LEMMA SavedRows ==
    ASSUME Invariant, SaveAndCommit, NEW o \in Order
    PROVE  /\ LastSeq(live[o]) \in Nat
           /\ LastSeq(live'[o]) \in LastSeq(live[o]) .. oltp_sequence[o]
           /\ live'[o] = PrefixRow(Log[o], LastSeq(live'[o]))
  <1>1. /\ LastSeq(live[o]) \in Nat /\ LastSeq(current[o]) \in Nat
        /\ oltp_sequence[o] \in Nat
    BY LastSeqType DEF Invariant, TypeOK
  <1>2. live'[o] = IF o \in touched THEN current[o] ELSE live[o]
    BY DEF SaveAndCommit
  <1>3. o \in touched => current[o] # Null
    BY DEF Invariant, ProjectorInvariant, LoadedAsStored
  <1> QED
    BY <1>1, <1>2, <1>3 DEF Invariant, RowsAreSilverPrefixes, ProjectorInvariant,
                            LoadedRowsAreSilverPrefixes

\* A row never goes back, although the upsert compares nothing.
THEOREM NeverBack == Spec => RowsNeverGoBack
  <1>1. Invariant /\ [Next]_vars
          => [\A o \in Order : LastSeq(live'[o]) >= LastSeq(live[o])]_vars
    <2> SUFFICES ASSUME Invariant, [Next]_vars, NEW o \in Order
                 PROVE  LastSeq(live'[o]) >= LastSeq(live[o])
      OBVIOUS
    <2>1. LastSeq(live[o]) \in Nat
      BY LastSeqType DEF Invariant, TypeOK
    <2>2. CASE SaveAndCommit
      BY <2>1, <2>2, SavedRows DEF Invariant, TypeOK
    <2>3. CASE live' = live
      BY <2>1, <2>3
    <2> QED
      BY <2>2, <2>3, OnlySaveMovesRows
  <1> QED
    BY <1>1, InvariantHolds, PTL DEF Spec, RowsNeverGoBack

\* An instance has definitions of its own: they are the same ones.
LEMMA SameRows == \A o, n : ReadModel!RowAt(o, n) = PrefixRow(Log[o], n)
  <1>1. \A log, kind : ReadModel!OfType(log, kind) = OfType(log, kind)
    BY DEF ReadModel!OfType, OfType
  <1>2. \A log : ReadModel!Newest(log) = Newest(log)
    BY DEF ReadModel!Newest, Newest
  <1>3. \A S : ReadModel!MaxOrNull(S) = MaxOrNull(S)
    BY DEF ReadModel!MaxOrNull, MaxOrNull, ReadModel!Max, Max
  <1>4. \A S : ReadModel!Cardinality(S) = Cardinality(S)
    BY DEF ReadModel!Cardinality, Cardinality
  <1>5. ReadModel!SourceAfter = SourceAfter
    BY DEF ReadModel!SourceAfter, SourceAfter
  <1>6. \A log : ReadModel!SilverOrder(log) = SilverOrder(log)
    BY <1>1, <1>2, <1>3, <1>4, <1>5 DEF ReadModel!SilverOrder, SilverOrder
  <1> QED
    BY <1>6 DEF ReadModel!RowAt, ReadModel!PrefixRow, PrefixRow

\* The same of last_sequence_no.
LEMMA SameLastSeq == \A row : ReadModel!LastSeq(row) = LastSeq(row)
  BY DEF ReadModel!LastSeq, LastSeq

\* The OLTP's half of a step: at most one order goes on by one event.
LEMMA OnlyAppendEmits ==
    [Next]_vars => (\E o \in Order : AppendOutbox(o)) \/ oltp_sequence' = oltp_sequence
  BY DEF Next, Publish, Projection, Fault, vars, oltp, publisher, broker, projector,
         TakeBatch, Accept, MarkPublished, FailBatch, StartProjector, Poll,
         BeginFlush, FoldNext, SaveAndCommit, CommitOffset, IdleExit, CrashPublisher,
         Reject, CrashProjector, Replay

\* The streaming path implements what LiveOrderState promises of a read model.
THEOREM StreamImplementsReadModel == Spec => ImplementsReadModel
  <1>1. Init => ReadModel!Init
    BY DEF Init, ReadModel!Init, NoRows
  <1>2. Invariant /\ [Next]_vars => [ReadModel!Next]_(ReadModel!vars)
    <2> SUFFICES ASSUME Invariant, [Next]_vars
                 PROVE  ReadModel!Next \/ UNCHANGED ReadModel!vars
      OBVIOUS
    <2>1. ASSUME NEW o \in Order, AppendOutbox(o)
          PROVE  ReadModel!Next
      <3>1. ReadModel!Emit(o)
        BY <2>1 DEF AppendOutbox, ReadModel!Emit
      <3> QED
        BY <3>1 DEF ReadModel!Next
    <2>2. CASE SaveAndCommit
      <3>1. \A o \in Order :
              \E n \in ReadModel!LastSeq(live[o]) .. oltp_sequence[o] :
                 live'[o] = ReadModel!RowAt(o, n)
        BY <2>2, SavedRows, SameRows, SameLastSeq
      <3>2. live' = [o \in Order |-> live'[o]] /\ oltp_sequence' = oltp_sequence
        BY <2>2 DEF SaveAndCommit, oltp
      <3>3. ReadModel!Project
        BY <3>1, <3>2 DEF ReadModel!Project
      <3> QED
        BY <3>3 DEF ReadModel!Next
    <2>3. CASE live' = live /\ oltp_sequence' = oltp_sequence
      BY <2>3 DEF ReadModel!vars
    <2> QED
      BY <2>1, <2>2, <2>3, OnlySaveMovesRows, OnlyAppendEmits
  <1> QED
    BY <1>1, <1>2, InvariantHolds, PTL DEF Spec, ImplementsReadModel, ReadModel!Spec

-----------------------------------------------------------------------------
(***************************************************************************)
(* What the streaming path promises when one process runs orders-publish,  *)
(* for any number of orders and partitions, any logs, batch sizes, crashes *)
(* and replays:                                                            *)
(*   - what is marked published can be rebuilt from the topic, whatever    *)
(*     messages the broker refused;                                        *)
(*   - as long as it refused none, keys arrive in order, decide never      *)
(*     meets a gap, and no offset is committed before its row.             *)
(* With two publishers they are false: two_publishers_lose_an_event.       *)
(***************************************************************************)
(* The inductive invariant.                                                *)

SameOrder(i, j) == outbox[i].order_id = outbox[j].order_id

\* The outbox has the events of an order in their order, and all of them.
OutboxIsTheLog ==
    /\ \A i, j \in DOMAIN outbox :
         SameOrder(i, j) /\ i < j => outbox[i].sequence_no < outbox[j].sequence_no
    /\ \A o \in Order : \A n \in 1 .. oltp_sequence[o] :
         \E i \in DOMAIN outbox : outbox[i].order_id = o /\ outbox[i].sequence_no = n

\* With one publisher, what comes before a published row is published, what
\* comes before a row of the batch is published or in the batch, and within a
\* partition the batch is sent from its first row on.
PublishedFromTheStart ==
    /\ \A i \in published : \A j \in DOMAIN outbox : j < i => j \in published
    /\ \A p \in Publisher :
         /\ \A i \in batch[p] : \A j \in DOMAIN outbox :
              j < i => j \in published \union batch[p]
         /\ sent[p] \subseteq batch[p]
         /\ \A i \in sent[p] : \A j \in batch[p] :
              j < i /\ PartitionOfRow(j) = PartitionOfRow(i) => j \in sent[p]

\* Nothing the broker acknowledged is lost: the rows of a batch with a refused
\* message apart, which is going to be sent again.
AcknowledgedIsRecoverable ==
    /\ \A i \in published : Recoverable(outbox[i].order_id, outbox[i].sequence_no)
    /\ \A p \in Publisher : ~failed[p] =>
         \A i \in sent[p] : Recoverable(outbox[i].order_id, outbox[i].sequence_no)

InTheTopic(i) ==
    \E j \in DOMAIN topic[PartitionOfRow(i)] :
        IsEventAt(PartitionOfRow(i), j, outbox[i].order_id, outbox[i].sequence_no)

AcknowledgedIsInTheTopic ==
    /\ \A i \in published : InTheTopic(i)
    /\ \A p \in Publisher : \A i \in sent[p] : InTheTopic(i)

\* The projector knows event n of order o: it is in the read model, or in a row
\* that will be.
Folded(o, n) ==
    \/ n <= LastSeq(live[o])
    \/ phase = "folding" /\ n <= LastSeq(current[o])

InPending(k, o, n) == pending[k].order_id = o /\ pending[k].sequence_no = n

\* Between the offsets and the read model nothing falls: what was polled is
\* folded or pending, what is pending follows on what is folded.
NothingFallsBetween ==
    /\ \A q \in Partition :
         /\ committed[q] \in 0 .. Len(topic[q])
         /\ position[q] \in 0 .. Len(topic[q])
         /\ \A i \in 1 .. position[q] :
              \/ Folded(topic[q][i].order_id, topic[q][i].sequence_no)
              \/ \E k \in DOMAIN pending :
                    InPending(k, topic[q][i].order_id, topic[q][i].sequence_no)
    /\ \A k \in DOMAIN pending : \A n \in 1 .. pending[k].sequence_no - 1 :
         \/ Folded(pending[k].order_id, n)
         \/ \E l \in 1 .. k - 1 : InPending(l, pending[k].order_id, n)
    /\ phase \in {"stopped", "written"} => pending = << >>
    /\ phase = "folding" =>
         \A o \in Order : o \notin touched => current[o] \in {Null, live[o]}

PublisherInvariant ==
    /\ OutboxIsTheLog
    /\ PublishedFromTheStart
    /\ AcknowledgedIsRecoverable

InOrderOnTheTopic == AcknowledgedIsInTheTopic /\ KeysArriveInOrder

InOrderToTheRows == NothingFallsBetween /\ CommittedIsWritten /\ NeverRefused

\* What holds as long as the broker has refused nothing.
DeliveryInvariant == faults.reject = 0 => InOrderOnTheTopic /\ InOrderToTheRows

-----------------------------------------------------------------------------
(* The topic.                                                              *)

\* A topic only grows: what is in it stays at its place.
LEMMA TopicGrows ==
    ASSUME TypeOK, NEW i \in DOMAIN outbox, topic' = topic \/ topic' = Appended(i),
           NEW q \in Partition
    PROVE  /\ Len(topic[q]) \in Nat /\ Len(topic'[q]) \in Nat
           /\ Len(topic[q]) <= Len(topic'[q])
           /\ DOMAIN topic[q] = 1 .. Len(topic[q])
           /\ DOMAIN topic'[q] = 1 .. Len(topic'[q])
           /\ \A j \in DOMAIN topic[q] : topic'[q][j] = topic[q][j]
           /\ topic' = Appended(i) /\ q = PartitionOfRow(i) =>
                /\ Len(topic'[q]) = Len(topic[q]) + 1
                /\ topic'[q][Len(topic[q]) + 1] = outbox[i]
           /\ topic' = topic \/ q # PartitionOfRow(i) => topic'[q] = topic[q]
  <1>1. topic[q] \in Seq(Event) /\ outbox[i] \in Event
    BY DEF TypeOK
  <1>2. topic' = Appended(i) =>
          topic'[q] = IF q = PartitionOfRow(i) THEN Append(topic[q], outbox[i]) ELSE topic[q]
    BY DEF Appended, TypeOK
  <1>3. CASE topic' = Appended(i) /\ q = PartitionOfRow(i)
    <2>1. topic'[q] = Append(topic[q], outbox[i])
      BY <1>2, <1>3
    <2> QED
      BY <1>1, <1>3, <2>1, AppendProperties
  <1>4. CASE ~(topic' = Appended(i) /\ q = PartitionOfRow(i))
    <2>1. topic'[q] = topic[q]
      BY <1>2, <1>4
    <2> QED
      BY <1>1, <1>4, <2>1
  <1> QED
    BY <1>3, <1>4

\* What could be rebuilt still can.
LEMMA RecoverableStays ==
    ASSUME TypeOK, NEW i \in DOMAIN outbox, topic' = topic \/ topic' = Appended(i),
           NEW o \in Order, NEW n, Recoverable(o, n)
    PROVE  Recoverable(o, n)'
  <1> DEFINE q == PartitionOf[o]
  <1>1. q \in Partition
    BY StreamAssumption
  <1>2. PICK at \in [1 .. n -> DOMAIN topic[q]] :
          \A k \in 1 .. n : /\ IsEventAt(q, at[k], o, k)
                            /\ \A l \in 1 .. k - 1 : at[l] < at[k]
    BY DEF Recoverable
  <1>3. /\ DOMAIN topic[q] \subseteq DOMAIN topic'[q]
        /\ \A j \in DOMAIN topic[q] : topic'[q][j] = topic[q][j]
    BY <1>1, TopicGrows
  <1>4. at \in [1 .. n -> DOMAIN topic'[q]]
    BY <1>3
  <1>5. \A k \in 1 .. n : IsEventAt(q, at[k], o, k)'
    BY <1>2, <1>3 DEF IsEventAt
  <1> HIDE DEF q
  <1> QED
    BY <1>2, <1>4, <1>5 DEF Recoverable, q

\* The same of a row of the outbox.
LEMMA RowStaysRecoverable ==
    ASSUME TypeOK, topic' = topic \/ \E i \in DOMAIN outbox : topic' = Appended(i),
           NEW j \in DOMAIN outbox, outbox'[j] = outbox[j],
           Recoverable(outbox[j].order_id, outbox[j].sequence_no)
    PROVE  Recoverable(outbox[j].order_id, outbox[j].sequence_no)'
  <1>1. PICK i \in DOMAIN outbox : topic' = topic \/ topic' = Appended(i)
    OBVIOUS
  <1>2. outbox[j].order_id \in Order
    BY EventFacts DEF TypeOK
  <1>3. ASSUME NEW o \in Order, NEW n, o = outbox[j].order_id, n = outbox[j].sequence_no
        PROVE  Recoverable(o, n)'
    BY <1>1, <1>3, RecoverableStays
  <1> QED
    BY <1>2, <1>3

\* The next event of an order, put after those that can be rebuilt.
LEMMA RecoverableNext ==
    ASSUME TypeOK, NEW i \in DOMAIN outbox, topic' = Appended(i),
           NEW o \in Order, NEW n \in Nat,
           outbox[i].order_id = o, outbox[i].sequence_no = n + 1,
           n # 0 => Recoverable(o, n)
    PROVE  Recoverable(o, n + 1)'
  <1> DEFINE q == PartitionOf[o]
             N == Len(topic[q])
  <1>1. q \in Partition /\ q = PartitionOfRow(i)
    BY StreamAssumption DEF PartitionOfRow
  <1>2. \E at \in [1 .. n -> 1 .. N] :
          \A k \in 1 .. n : /\ IsEventAt(q, at[k], o, k)
                            /\ \A l \in 1 .. k - 1 : at[l] < at[k]
    <2>1. DOMAIN topic[q] = 1 .. N
      BY <1>1, TopicGrows
    <2>2. CASE n # 0
      BY <2>1, <2>2 DEF Recoverable
    <2>3. CASE n = 0
      <3>1. 1 .. n = {}
        BY <2>3
      <3>2. [k \in 1 .. n |-> 1] \in [1 .. n -> 1 .. N]
        BY <3>1
      <3> QED
        BY <3>1, <3>2, Zenon
    <2> QED
      BY <2>2, <2>3
  <1>3. PICK at \in [1 .. n -> 1 .. N] :
          \A k \in 1 .. n : /\ IsEventAt(q, at[k], o, k)
                            /\ \A l \in 1 .. k - 1 : at[l] < at[k]
    BY <1>2
  <1>4. /\ N \in Nat
        /\ DOMAIN topic[q] = 1 .. N
        /\ DOMAIN topic'[q] = 1 .. N + 1
        /\ \A j \in 1 .. N : topic'[q][j] = topic[q][j]
        /\ topic'[q][N + 1] = outbox[i]
    BY <1>1, TopicGrows
  <1> DEFINE next == [k \in 1 .. n + 1 |-> IF k = n + 1 THEN N + 1 ELSE at[k]]
  <1> HIDE DEF N
  <1>5. next \in [1 .. n + 1 -> 1 .. N + 1]
    BY <1>4
  <1>6. \A k \in 1 .. n : next[k] = at[k] /\ at[k] \in 1 .. N
    OBVIOUS
  <1>7. next[n + 1] = N + 1
    OBVIOUS
  <1> HIDE DEF next
  <1>8. ASSUME NEW k \in 1 .. n + 1
        PROVE  /\ topic'[q][next[k]].order_id = o
               /\ topic'[q][next[k]].sequence_no = k
               /\ \A l \in 1 .. k - 1 : next[l] < next[k]
    <2>1. CASE k = n + 1
      BY <1>4, <1>6, <1>7, <2>1
    <2>2. CASE k \in 1 .. n
      <3>1. \A l \in 1 .. k - 1 : l \in 1 .. n
        BY <2>2
      <3>2. next[k] = at[k] /\ at[k] \in 1 .. N /\ topic'[q][at[k]] = topic[q][at[k]]
        BY <1>4, <1>6, <2>2
      <3>3. /\ topic[q][at[k]].order_id = o
            /\ topic[q][at[k]].sequence_no = k
            /\ \A l \in 1 .. k - 1 : at[l] < at[k]
        BY <1>3, <2>2 DEF IsEventAt
      <3>4. \A l \in 1 .. k - 1 : next[l] = at[l]
        BY <1>6, <3>1
      <3> QED
        BY <3>2, <3>3, <3>4
    <2> QED
      BY <2>1, <2>2
  <1>9. \E a \in [1 .. n + 1 -> DOMAIN topic'[q]] :
          \A k \in 1 .. n + 1 : /\ topic'[q][a[k]].order_id = o
                                /\ topic'[q][a[k]].sequence_no = k
                                /\ \A l \in 1 .. k - 1 : a[l] < a[k]
    <2>1. next \in [1 .. n + 1 -> DOMAIN topic'[q]]
      BY <1>4, <1>5
    <2> QED
      BY <1>8, <2>1, Zenon
  <1> QED
    BY <1>9 DEF Recoverable, IsEventAt

-----------------------------------------------------------------------------
(* The outbox and its publisher.                                           *)

\* The rows of the outbox.
LEMMA OutboxFacts ==
    ASSUME TypeOK
    PROVE  /\ Len(outbox) \in Nat
           /\ DOMAIN outbox = 1 .. Len(outbox)
           /\ \A i \in DOMAIN outbox :
                /\ i \in Nat
                /\ outbox[i] \in Event
                /\ outbox[i].order_id \in Order
                /\ outbox[i].sequence_no \in Nat \ {0}
                /\ PartitionOfRow(i) \in Partition
  <1>1. outbox \in Seq(Event)
    BY DEF TypeOK
  <1>2. \A i \in DOMAIN outbox : outbox[i] \in Event
    BY <1>1
  <1>3. \A i \in DOMAIN outbox : outbox[i].order_id \in Order
                                 /\ outbox[i].sequence_no \in Nat \ {0}
    BY <1>2, EventFacts
  <1>4. \A i \in DOMAIN outbox : PartitionOfRow(i) \in Partition
    BY <1>3, StreamAssumption DEF PartitionOfRow
  <1> QED
    BY <1>1, <1>2, <1>3, <1>4

\* `order by outbox_id limit n` takes the rows from the first one on.
LEMMA FirstOfIsInitial ==
    ASSUME TypeOK, NEW ids \in SUBSET (DOMAIN outbox), NEW n \in Nat,
           NEW i \in FirstOf(ids, n), NEW j \in ids, j < i
    PROVE  j \in FirstOf(ids, n)
  <1> DEFINE Upto(k) == {m \in ids : m <= k}
  <1>1. ids \subseteq 1 .. Len(outbox) /\ Len(outbox) \in Nat
    BY OutboxFacts
  <1>2. IsFiniteSet(ids)
    BY <1>1, FS_Interval, FS_Subset
  <1>3. i \in ids /\ Cardinality(Upto(i)) <= n
    BY DEF FirstOf
  <1>4. Upto(j) \in SUBSET Upto(i) /\ Upto(i) \in SUBSET ids
    BY <1>1, <1>3
  <1>5. IsFiniteSet(Upto(i))
    BY <1>2, <1>4, FS_Subset
  <1> HIDE DEF Upto
  <1>6. /\ Cardinality(Upto(j)) \in Nat /\ Cardinality(Upto(i)) \in Nat
        /\ Cardinality(Upto(j)) <= Cardinality(Upto(i))
    BY <1>4, <1>5, FS_Subset, FS_CardinalityType
  <1>7. Cardinality(Upto(j)) <= n
    BY <1>3, <1>6
  <1> QED
    BY <1>7 DEF FirstOf, Upto

\* What is before a row in its order has been acknowledged when it is sent.
LEMMA EarlierIsSent ==
    ASSUME TypeOK, EventsAreCommitted, PublisherInvariant,
           NEW p \in Publisher, NEW i \in batch[p], NextToSend(p, i),
           NEW n \in 1 .. outbox[i].sequence_no - 1
    PROVE  \E j \in published \union sent[p] :
              outbox[j].order_id = outbox[i].order_id /\ outbox[j].sequence_no = n
  <1>1. i \in DOMAIN outbox /\ batch[p] \subseteq DOMAIN outbox
    BY DEF TypeOK
  <1>2. /\ outbox[i].order_id \in Order
        /\ outbox[i].sequence_no \in Nat
        /\ outbox[i].sequence_no <= oltp_sequence[outbox[i].order_id]
        /\ oltp_sequence[outbox[i].order_id] \in Nat
    BY <1>1, OutboxFacts DEF EventsAreCommitted, IsCommitted, TypeOK
  <1>3. PICK j \in DOMAIN outbox :
          outbox[j].order_id = outbox[i].order_id /\ outbox[j].sequence_no = n
    <2>1. n \in 1 .. oltp_sequence[outbox[i].order_id]
      BY <1>2
    <2> QED
      BY <1>2, <2>1 DEF PublisherInvariant, OutboxIsTheLog
  <1>4. i \in Nat /\ j \in Nat
    BY <1>1, OutboxFacts
  <1>5. j < i
    <2>1. ~(i < j)
      BY <1>1, <1>2, <1>3 DEF PublisherInvariant, OutboxIsTheLog, SameOrder
    <2>2. i # j
      BY <1>2, <1>3
    <2> QED
      BY <1>4, <2>1, <2>2
  <1>6. j \in published \union batch[p]
    BY <1>1, <1>5 DEF PublisherInvariant, PublishedFromTheStart
  <1>7. j \in batch[p] => j \in sent[p]
    BY <1>3, <1>4, <1>5 DEF NextToSend, PartitionOfRow
  <1> QED
    BY <1>3, <1>6, <1>7

\* Steps that leave the database, the publisher and the topic alone.
LEMMA PublisherQuiet ==
    ASSUME PublisherInvariant, UNCHANGED << oltp, publisher, topic >>
    PROVE  PublisherInvariant'
  BY DEF PublisherInvariant, OutboxIsTheLog, SameOrder, PublishedFromTheStart,
         AcknowledgedIsRecoverable, Recoverable, IsEventAt, PartitionOfRow, oltp, publisher

\* A new row comes behind all the others.
LEMMA PublisherAppend ==
    ASSUME TypeOK, EventsAreCommitted, PublisherInvariant,
           NEW o \in Order, AppendOutbox(o)
    PROVE  PublisherInvariant'
  <1> DEFINE N == Len(outbox)
             s == oltp_sequence[o]
  <1>1. /\ s \in Nat /\ s < Len(Log[o])
        /\ outbox' = Append(outbox, Log[o][s + 1])
        /\ oltp_sequence' = [oltp_sequence EXCEPT ![o] = s + 1]
        /\ UNCHANGED << published, batch, sent, failed, topic >>
    BY DEF AppendOutbox, TypeOK, publisher, broker
  <1>2. /\ Log[o][s + 1] \in Event
        /\ Log[o][s + 1].order_id = o
        /\ Log[o][s + 1].sequence_no = s + 1
    BY <1>1, NextOfLog
  <1>3. /\ N \in Nat
        /\ DOMAIN outbox = 1 .. N
        /\ DOMAIN outbox' = 1 .. N + 1
        /\ \A i \in 1 .. N : outbox'[i] = outbox[i]
        /\ outbox'[N + 1] = Log[o][s + 1]
    BY <1>1, <1>2, OutboxFacts, AppendProperties DEF TypeOK
  <1>4. \A i \in 1 .. N :
          /\ outbox[i].sequence_no \in Nat
          /\ outbox[i].order_id = o => outbox[i].sequence_no <= s
    BY <1>3, OutboxFacts DEF EventsAreCommitted, IsCommitted
  <1> HIDE DEF N, s
  <1>5. OutboxIsTheLog'
    <2>1. ASSUME NEW i \in 1 .. N + 1, NEW j \in 1 .. N + 1,
                 outbox'[i].order_id = outbox'[j].order_id, i < j
          PROVE  outbox'[i].sequence_no < outbox'[j].sequence_no
      <3>1. i \in 1 .. N
        BY <1>3, <2>1
      <3>2. CASE j = N + 1
        BY <1>1, <1>2, <1>3, <1>4, <2>1, <3>1, <3>2
      <3>3. CASE j \in 1 .. N
        BY <1>3, <2>1, <3>1, <3>3 DEF PublisherInvariant, OutboxIsTheLog, SameOrder
      <3> QED
        BY <1>3, <3>2, <3>3
    <2>2. ASSUME NEW x \in Order, NEW n \in 1 .. oltp_sequence'[x]
          PROVE  \E i \in 1 .. N + 1 : outbox'[i].order_id = x /\ outbox'[i].sequence_no = n
      <3>1. CASE x = o /\ n = s + 1
        BY <1>2, <1>3, <3>1
      <3>2. CASE ~(x = o /\ n = s + 1)
        <4>1. n \in 1 .. oltp_sequence[x]
          BY <1>1, <2>2, <3>2 DEF TypeOK, s
        <4>2. PICK i \in 1 .. N : outbox[i].order_id = x /\ outbox[i].sequence_no = n
          BY <1>3, <4>1 DEF PublisherInvariant, OutboxIsTheLog
        <4> QED
          BY <1>3, <4>2
      <3> QED
        BY <3>1, <3>2
    <2> QED
      BY <1>3, <2>1, <2>2 DEF OutboxIsTheLog, SameOrder
  <1>6. /\ published \subseteq 1 .. N
        /\ \A p \in Publisher : batch[p] \subseteq 1 .. N /\ sent[p] \subseteq 1 .. N
    BY <1>3 DEF TypeOK
  <1>7. PublishedFromTheStart'
    <2>1. \A i \in 1 .. N : \A j \in 1 .. N + 1 : j < i => j \in 1 .. N
      BY <1>3
    <2>2. \A i \in 1 .. N : PartitionOfRow(i)' = PartitionOfRow(i)
      BY <1>3 DEF PartitionOfRow
    <2>3. \A i \in published' : \A j \in DOMAIN outbox' : j < i => j \in published'
      BY <1>1, <1>3, <1>6, <2>1 DEF PublisherInvariant, PublishedFromTheStart
    <2>4. ASSUME NEW p \in Publisher
          PROVE  /\ \A i \in batch'[p] : \A j \in DOMAIN outbox' :
                      j < i => j \in published' \union batch'[p]
                 /\ sent'[p] \subseteq batch'[p]
                 /\ \A i \in sent'[p] : \A j \in batch'[p] :
                      j < i /\ PartitionOfRow(j)' = PartitionOfRow(i)' => j \in sent'[p]
      BY <1>1, <1>3, <1>6, <2>1, <2>2 DEF PublisherInvariant, PublishedFromTheStart
    <2> QED
      BY <2>3, <2>4 DEF PublishedFromTheStart
  <1>8. AcknowledgedIsRecoverable'
    <2>1. \A i \in DOMAIN outbox : outbox'[i] = outbox[i]
      BY <1>3
    <2> QED
      BY <1>1, <1>3, <1>6, <2>1, RowStaysRecoverable DEF PublisherInvariant, AcknowledgedIsRecoverable
  <1> QED
    BY <1>5, <1>7, <1>8 DEF PublisherInvariant

\* One publisher takes the rows from the first unpublished one on.
LEMMA PublisherTake ==
    ASSUME \E x : Publisher = {x}, TypeOK, PublisherInvariant,
           NEW p \in Publisher, TakeBatch(p)
    PROVE  PublisherInvariant'
  <1> DEFINE taken == FirstOf(Takeable, BatchSize)
  <1>1. /\ batch[p] = {}
        /\ batch' = [batch EXCEPT ![p] = taken]
        /\ UNCHANGED << oltp_sequence, outbox, published, sent, failed, topic >>
    BY DEF TakeBatch, oltp, broker
  <1>2. Publisher = {p}
    OBVIOUS
  <1>3. Takeable = DOMAIN outbox \ published
    BY <1>1, <1>2 DEF Takeable, Locked
  <1>4. taken \subseteq DOMAIN outbox
    BY <1>3 DEF FirstOf
  <1>5. \A i \in taken : \A j \in DOMAIN outbox : j < i => j \in published \union taken
    BY <1>3, FirstOfIsInitial, StreamAssumption
  <1> HIDE DEF taken
  <1>6. sent[p] = {}
    BY <1>1 DEF PublisherInvariant, PublishedFromTheStart
  <1>7. batch'[p] = taken
    BY <1>1 DEF TypeOK
  <1>8. PublishedFromTheStart'
    BY <1>1, <1>2, <1>5, <1>6, <1>7 DEF PublisherInvariant, PublishedFromTheStart
  <1>9. OutboxIsTheLog'
    BY <1>1 DEF PublisherInvariant, OutboxIsTheLog, SameOrder
  <1>10. AcknowledgedIsRecoverable'
    BY <1>1, RowStaysRecoverable DEF TypeOK, PublisherInvariant, AcknowledgedIsRecoverable
  <1> QED
    BY <1>8, <1>9, <1>10 DEF PublisherInvariant

\* The broker answers for the next row: either it has it, or the batch has failed.
LEMMA PublisherSend ==
    ASSUME TypeOK, EventsAreCommitted, PublisherInvariant,
           NEW p \in Publisher, NEW i \in batch[p], Accept(p, i) \/ Reject(p, i)
    PROVE  PublisherInvariant'
  <1>1. /\ NextToSend(p, i)
        /\ sent' = [sent EXCEPT ![p] = sent[p] \union {i}]
        /\ UNCHANGED << oltp_sequence, outbox, published, batch >>
        /\ topic' = topic \/ topic' = Appended(i)
        /\ \/ topic' = Appended(i) /\ failed' = failed
           \/ failed' = [failed EXCEPT ![p] = TRUE]
    BY DEF Accept, Reject, oltp
  <1>2. i \in DOMAIN outbox /\ published \subseteq DOMAIN outbox
        /\ \A x \in Publisher : batch[x] \subseteq DOMAIN outbox /\ sent[x] \subseteq DOMAIN outbox
    BY DEF TypeOK
  <1>3. \A x \in Publisher : sent'[x] = IF x = p THEN sent[p] \union {i} ELSE sent[x]
    BY <1>1 DEF TypeOK
  <1>4. OutboxIsTheLog'
    BY <1>1 DEF PublisherInvariant, OutboxIsTheLog, SameOrder
  <1>5. PublishedFromTheStart'
    <2>1. \A j : PartitionOfRow(j)' = PartitionOfRow(j)
      BY <1>1 DEF PartitionOfRow
    <2>2. \A j \in batch[p] : j < i /\ PartitionOfRow(j) = PartitionOfRow(i) => j \in sent[p]
      <3> SUFFICES ASSUME NEW j \in batch[p] \ sent[p], j < i,
                          PartitionOfRow(j) = PartitionOfRow(i)
                   PROVE  FALSE
        OBVIOUS
      <3>1. i <= j /\ i \in Nat /\ j \in Nat
        BY <1>1, <1>2, OutboxFacts DEF NextToSend
      <3> QED
        BY <3>1
    <2> QED
      BY <1>1, <1>3, <2>1, <2>2 DEF PublisherInvariant, PublishedFromTheStart
  <1>6. AcknowledgedIsRecoverable'
    <2>1. \A j \in DOMAIN outbox :
            Recoverable(outbox[j].order_id, outbox[j].sequence_no)
              => Recoverable(outbox[j].order_id, outbox[j].sequence_no)'
      BY <1>1, <1>2, RowStaysRecoverable
    <2>2. ~failed'[p] => Recoverable(outbox[i].order_id, outbox[i].sequence_no)'
      <3> SUFFICES ASSUME ~failed'[p], NEW o \in Order, NEW n \in Nat,
                          o = outbox[i].order_id, n + 1 = outbox[i].sequence_no
                   PROVE  Recoverable(o, n + 1)'
        <4>1. outbox[i].order_id \in Order /\ outbox[i].sequence_no \in Nat \ {0}
          BY <1>2, OutboxFacts
        <4>2. \E n \in Nat : n + 1 = outbox[i].sequence_no
          <5>1. outbox[i].sequence_no - 1 \in Nat
            BY <4>1
          <5> QED
            BY <4>1, <5>1
        <4> QED
          BY <1>1, <4>1, <4>2
      <3>1. topic' = Appended(i) /\ ~failed[p]
        BY <1>1 DEF TypeOK
      <3>2. ASSUME n # 0
            PROVE  Recoverable(o, n)
        <4>1. n \in 1 .. outbox[i].sequence_no - 1
          BY <3>2
        <4>2. PICK j \in published \union sent[p] :
                outbox[j].order_id = o /\ outbox[j].sequence_no = n
          BY <1>1, <4>1, EarlierIsSent
        <4> QED
          BY <3>1, <4>2 DEF PublisherInvariant, AcknowledgedIsRecoverable
      <3> QED
        BY <1>2, <3>1, <3>2, RecoverableNext
    <2>3. \A x \in Publisher : ~failed'[x] => ~failed[x]
      BY <1>1 DEF TypeOK
    <2>4. outbox' = outbox /\ published' = published
      BY <1>1
    <2>5. \A j \in published' : Recoverable(outbox[j].order_id, outbox[j].sequence_no)'
      BY <1>2, <2>1, <2>4 DEF PublisherInvariant, AcknowledgedIsRecoverable
    <2>6. ASSUME NEW x \in Publisher, ~failed'[x], NEW j \in sent'[x]
          PROVE  Recoverable(outbox[j].order_id, outbox[j].sequence_no)'
      <3>1. CASE j \in sent[x]
        BY <1>2, <2>1, <2>3, <2>6, <3>1 DEF PublisherInvariant, AcknowledgedIsRecoverable
      <3>2. CASE j \notin sent[x]
        BY <1>3, <2>2, <2>6, <3>2
      <3> QED
        BY <3>1, <3>2
    <2> QED
      BY <2>5, <2>6 DEF AcknowledgedIsRecoverable
  <1> QED
    BY <1>4, <1>5, <1>6 DEF PublisherInvariant

\* The transaction ends: what it sent is published as a whole, or forgotten.
LEMMA PublisherEnds ==
    ASSUME \E x : Publisher = {x}, TypeOK, PublisherInvariant, NEW p \in Publisher,
           MarkPublished(p) \/ FailBatch(p) \/ CrashPublisher(p)
    PROVE  PublisherInvariant'
  <1>1. Publisher = {p}
    OBVIOUS
  <1>2. /\ batch'[p] = {} /\ sent'[p] = {}
        /\ UNCHANGED << oltp_sequence, outbox, topic >>
        /\ \/ published' = published
           \/ /\ published' = published \union batch[p]
              /\ sent[p] = batch[p] /\ ~failed[p]
    BY DEF MarkPublished, FailBatch, CrashPublisher, Release, TypeOK, oltp, broker
  <1>3. published \subseteq DOMAIN outbox /\ batch[p] \subseteq DOMAIN outbox
    BY DEF TypeOK
  <1>4. OutboxIsTheLog'
    BY <1>2 DEF PublisherInvariant, OutboxIsTheLog, SameOrder
  <1>5. PublishedFromTheStart'
    BY <1>1, <1>2 DEF PublisherInvariant, PublishedFromTheStart
  <1>6. AcknowledgedIsRecoverable'
    BY <1>1, <1>2, <1>3, RowStaysRecoverable
       DEF PublisherInvariant, AcknowledgedIsRecoverable
  <1> QED
    BY <1>4, <1>5, <1>6 DEF PublisherInvariant

\* Every step of the system keeps the publisher's invariant.
LEMMA PublisherStep ==
    ASSUME \E x : Publisher = {x}
    PROVE  Invariant /\ PublisherInvariant /\ [Next]_vars => PublisherInvariant'
  <1> SUFFICES ASSUME Invariant, PublisherInvariant, [Next]_vars
               PROVE  PublisherInvariant'
    OBVIOUS
  <1>0. TypeOK /\ EventsAreCommitted
    BY DEF Invariant, ProjectorInvariant
  <1>1. ASSUME NEW o \in Order, AppendOutbox(o)
        PROVE  PublisherInvariant'
    BY <1>0, <1>1, PublisherAppend
  <1>2. ASSUME NEW p \in Publisher, TakeBatch(p)
        PROVE  PublisherInvariant'
    BY <1>0, <1>2, PublisherTake
  <1>3. ASSUME NEW p \in Publisher, NEW i \in batch[p], Accept(p, i) \/ Reject(p, i)
        PROVE  PublisherInvariant'
    BY <1>0, <1>3, PublisherSend
  <1>4. ASSUME NEW p \in Publisher,
               MarkPublished(p) \/ FailBatch(p) \/ CrashPublisher(p)
        PROVE  PublisherInvariant'
    BY <1>0, <1>4, PublisherEnds
  <1>5. CASE Projection \/ IdleExit \/ CrashProjector \/ Replay \/ UNCHANGED vars
    <2>1. UNCHANGED << oltp, publisher, topic >>
      BY <1>5 DEF Projection, IdleExit, CrashProjector, Replay, vars, oltp, publisher, broker,
                  StartProjector, Poll, BeginFlush, FoldNext, SaveAndCommit, CommitOffset
    <2> QED
      BY <2>1, PublisherQuiet
  <1> QED
    BY <1>1, <1>2, <1>3, <1>4, <1>5 DEF Next, Publish, Fault

\* Nothing is in the outbox at first.
LEMMA PublisherInit == Init => PublisherInvariant
  BY DEF Init, PublisherInvariant, OutboxIsTheLog, PublishedFromTheStart,
         AcknowledgedIsRecoverable

\* With one process running orders-publish, every event marked published can be
\* read back from its partition in the order of its log, through publishers
\* that die half way and messages the broker refuses or swallows.
THEOREM PublishedIsNeverLost ==
    ASSUME \E x : Publisher = {x}
    PROVE  Spec => []PublishedIsRecoverable
  <1>1. PublisherInvariant => PublishedIsRecoverable
    BY DEF PublisherInvariant, AcknowledgedIsRecoverable, PublishedIsRecoverable
  <1> QED
    BY <1>1, PublisherInit, PublisherStep, InvariantHolds, PTL DEF Spec

-----------------------------------------------------------------------------
(* As long as the broker refuses nothing: the topic.                       *)

\* An event that is in a partition stays there.
LEMMA InTheTopicStays ==
    ASSUME TypeOK, topic' = topic \/ \E i \in DOMAIN outbox : topic' = Appended(i),
           NEW j \in DOMAIN outbox, outbox'[j] = outbox[j], InTheTopic(j)
    PROVE  InTheTopic(j)'
  <1> DEFINE q == PartitionOfRow(j)
  <1>1. q \in Partition /\ q' = q
    BY OutboxFacts DEF PartitionOfRow
  <1>2. PICK k \in DOMAIN topic[q] :
          /\ topic[q][k].order_id = outbox[j].order_id
          /\ topic[q][k].sequence_no = outbox[j].sequence_no
    BY DEF InTheTopic, IsEventAt
  <1>3. k \in DOMAIN topic'[q] /\ topic'[q][k] = topic[q][k]
    BY <1>1, <1>2, TopicGrows
  <1> QED
    BY <1>1, <1>2, <1>3 DEF InTheTopic, IsEventAt

\* Messages that are in order remain so when a message is put behind them
\* whose predecessors are all there.
LEMMA KeysStayInOrder ==
    ASSUME TypeOK, KeysArriveInOrder, NEW i \in DOMAIN outbox, topic' = Appended(i),
           \A n \in 1 .. outbox[i].sequence_no - 1 :
              \E j \in DOMAIN topic[PartitionOfRow(i)] :
                 IsEventAt(PartitionOfRow(i), j, outbox[i].order_id, n)
    PROVE  KeysArriveInOrder'
  <1> SUFFICES ASSUME NEW q \in Partition, NEW m \in DOMAIN topic'[q],
                      NEW n \in 1 .. topic'[q][m].sequence_no
               PROVE  \E j \in 1 .. m : /\ topic'[q][j].order_id = topic'[q][m].order_id
                                        /\ topic'[q][j].sequence_no = n
    BY DEF KeysArriveInOrder, IsEventAt
  <1> DEFINE N == Len(topic[q])
  <1>1. /\ N \in Nat
        /\ DOMAIN topic[q] = 1 .. N
        /\ \A j \in 1 .. N : topic'[q][j] = topic[q][j]
        /\ q # PartitionOfRow(i) => topic'[q] = topic[q]
        /\ q = PartitionOfRow(i) => /\ DOMAIN topic'[q] = 1 .. N + 1
                                    /\ topic'[q][N + 1] = outbox[i]
    BY TopicGrows
  <1> HIDE DEF N
  <1>2. CASE m \in 1 .. N
    <2>1. PICK j \in 1 .. m : IsEventAt(q, j, topic[q][m].order_id, n)
      BY <1>1, <1>2 DEF KeysArriveInOrder
    <2>2. j \in 1 .. N
      BY <1>1, <1>2
    <2> QED
      BY <1>1, <1>2, <2>1, <2>2 DEF IsEventAt
  <1>3. CASE q = PartitionOfRow(i) /\ m = N + 1
    <2>1. CASE n = outbox[i].sequence_no
      <3>1. m \in 1 .. m
        BY <1>1, <1>3
      <3> QED
        BY <1>1, <1>3, <2>1, <3>1
    <2>2. CASE n # outbox[i].sequence_no
      <3>1. n \in 1 .. outbox[i].sequence_no - 1
        BY <1>1, <1>3, <2>2, OutboxFacts
      <3>2. PICK j \in 1 .. N : IsEventAt(q, j, outbox[i].order_id, n)
        BY <1>1, <1>3, <3>1
      <3>3. j \in 1 .. m
        BY <1>1, <1>3
      <3> QED
        BY <1>1, <1>3, <3>2, <3>3 DEF IsEventAt
    <2> QED
      BY <2>1, <2>2
  <1> QED
    BY <1>1, <1>2, <1>3

\* The steps of the database and of the publisher.
LEMMA TopicStaysInOrder ==
    ASSUME TypeOK, EventsAreCommitted, PublisherInvariant, InOrderOnTheTopic,
           [Next]_vars, faults'.reject = 0, faults.reject = 0
    PROVE  InOrderOnTheTopic'
  <1>1. CASE \E p \in Publisher : \E i \in batch[p] : Accept(p, i)
    <2> PICK p \in Publisher : \E i \in batch[p] : Accept(p, i)
      BY <1>1
    <2> PICK i \in batch[p] : Accept(p, i)
      OBVIOUS
    <2>1. /\ i \in DOMAIN outbox
          /\ published \subseteq DOMAIN outbox
          /\ \A x \in Publisher : sent[x] \subseteq DOMAIN outbox
      BY DEF TypeOK
    <2>2. /\ NextToSend(p, i) /\ topic' = Appended(i)
          /\ sent' = [sent EXCEPT ![p] = sent[p] \union {i}]
          /\ UNCHANGED << outbox, published >>
      BY DEF Accept, oltp
    <2>3. \A n \in 1 .. outbox[i].sequence_no - 1 :
            \E j \in DOMAIN topic[PartitionOfRow(i)] :
               IsEventAt(PartitionOfRow(i), j, outbox[i].order_id, n)
      <3> TAKE n \in 1 .. outbox[i].sequence_no - 1
      <3>1. PICK j \in published \union sent[p] :
              outbox[j].order_id = outbox[i].order_id /\ outbox[j].sequence_no = n
        BY <2>2, EarlierIsSent
      <3>2. InTheTopic(j)
        BY <3>1 DEF InOrderOnTheTopic, AcknowledgedIsInTheTopic
      <3> QED
        BY <3>1, <3>2 DEF InTheTopic, PartitionOfRow
    <2>4. KeysArriveInOrder'
      BY <2>1, <2>2, <2>3, KeysStayInOrder DEF InOrderOnTheTopic
    <2>5. InTheTopic(i)'
      <3> DEFINE q == PartitionOfRow(i)
      <3>1. /\ q' = q /\ q \in Partition
            /\ Len(topic[q]) + 1 \in DOMAIN topic'[q]
            /\ topic'[q][Len(topic[q]) + 1] = outbox'[i]
        BY <2>1, <2>2, OutboxFacts, TopicGrows DEF PartitionOfRow
      <3> QED
        BY <3>1 DEF InTheTopic, IsEventAt
    <2>6. \A j \in DOMAIN outbox : InTheTopic(j) => InTheTopic(j)'
      BY <2>1, <2>2, InTheTopicStays
    <2>7. AcknowledgedIsInTheTopic'
      BY <2>1, <2>2, <2>5, <2>6 DEF InOrderOnTheTopic, AcknowledgedIsInTheTopic, TypeOK
    <2> QED
      BY <2>4, <2>7 DEF InOrderOnTheTopic
  <1>2. CASE topic' = topic /\ \A p \in Publisher : sent'[p] \subseteq sent[p]
    <2>1. KeysArriveInOrder'
      BY <1>2 DEF InOrderOnTheTopic, KeysArriveInOrder, IsEventAt
    <2>2. \A i \in published' : i \in published \/ \E p \in Publisher : i \in sent[p]
      BY DEF Next, Publish, Projection, Fault, vars, oltp, publisher, broker,
             AppendOutbox, TakeBatch, Accept, MarkPublished, FailBatch, StartProjector, Poll,
             BeginFlush, FoldNext, SaveAndCommit, CommitOffset, IdleExit, CrashPublisher,
             Reject, CrashProjector, Replay
    <2>3. outbox' = outbox \/ \E o \in Order : AppendOutbox(o)
      BY DEF Next, Publish, Projection, Fault, vars, oltp, publisher, broker,
             TakeBatch, Accept, MarkPublished, FailBatch, StartProjector, Poll,
             BeginFlush, FoldNext, SaveAndCommit, CommitOffset, IdleExit, CrashPublisher,
             Reject, CrashProjector, Replay
    <2>4. \A i \in DOMAIN outbox : outbox'[i] = outbox[i]
      <3>1. ASSUME NEW o \in Order, AppendOutbox(o)
            PROVE  \A i \in DOMAIN outbox : outbox'[i] = outbox[i]
        <4>1. Log[o][oltp_sequence[o] + 1] \in Event /\ outbox \in Seq(Event)
          BY <3>1, NextOfLog DEF TypeOK, AppendOutbox
        <4> QED
          BY <3>1, <4>1, AppendProperties DEF AppendOutbox
      <3> QED
        BY <2>3, <3>1
    <2>5. \A i \in DOMAIN outbox : InTheTopic(i) => InTheTopic(i)'
      BY <1>2, <2>4, InTheTopicStays
    <2>6. AcknowledgedIsInTheTopic'
      <3>1. \A p \in Publisher : \A i \in sent[p] : i \in DOMAIN outbox /\ InTheTopic(i)
        BY DEF InOrderOnTheTopic, AcknowledgedIsInTheTopic, TypeOK
      <3>2. \A i \in published : i \in DOMAIN outbox /\ InTheTopic(i)
        BY DEF InOrderOnTheTopic, AcknowledgedIsInTheTopic, TypeOK
      <3> QED
        BY <1>2, <2>2, <2>5, <3>1, <3>2 DEF AcknowledgedIsInTheTopic
    <2> QED
      BY <2>1, <2>6 DEF InOrderOnTheTopic
  <1>3. ASSUME NEW p \in Publisher, NEW i \in batch[p], Reject(p, i)
        PROVE  FALSE
    <2>1. faults'.reject = faults.reject + 1
      BY <1>3 DEF Reject, TypeOK
    <2> QED
      BY <2>1
  <1>4. ASSUME NEW p \in Publisher, MarkPublished(p) \/ FailBatch(p) \/ CrashPublisher(p)
        PROVE  topic' = topic /\ \A x \in Publisher : sent'[x] \subseteq sent[x]
    BY <1>4 DEF MarkPublished, FailBatch, CrashPublisher, Release, TypeOK, broker
  <1> QED
    BY <1>1, <1>2, <1>3, <1>4
       DEF Next, Publish, Projection, Fault, vars, publisher, broker,
           AppendOutbox, TakeBatch, StartProjector, Poll, BeginFlush, FoldNext,
           SaveAndCommit, CommitOffset, IdleExit, CrashProjector, Replay

-----------------------------------------------------------------------------
(* As long as the broker refuses nothing: from the topic to the rows.      *)

\* Messages and rows, and the numbers they carry.
LEMMA ReaderFacts ==
    ASSUME TypeOK
    PROVE  /\ \A q \in Partition :
                /\ Len(topic[q]) \in Nat
                /\ DOMAIN topic[q] = 1 .. Len(topic[q])
                /\ \A i \in DOMAIN topic[q] : /\ topic[q][i] \in Event
                                              /\ topic[q][i].order_id \in Order
                                              /\ topic[q][i].sequence_no \in Nat \ {0}
           /\ Len(pending) \in Nat
           /\ DOMAIN pending = 1 .. Len(pending)
           /\ \A k \in DOMAIN pending : /\ pending[k] \in Event
                                        /\ pending[k].order_id \in Order
                                        /\ pending[k].sequence_no \in Nat \ {0}
           /\ \A o \in Order : LastSeq(live[o]) \in Nat /\ LastSeq(current[o]) \in Nat
  <1>1. \A q \in Partition : topic[q] \in Seq(Event)
    BY DEF TypeOK
  <1>2. \A o \in Order : LastSeq(live[o]) \in Nat /\ LastSeq(current[o]) \in Nat
    BY LastSeqType DEF TypeOK
  <1>3. pending \in Seq(Event)
    BY DEF TypeOK
  <1>4. \A q \in Partition : /\ Len(topic[q]) \in Nat
                             /\ DOMAIN topic[q] = 1 .. Len(topic[q])
                             /\ \A i \in DOMAIN topic[q] : topic[q][i] \in Event
    BY <1>1
  <1>5. /\ Len(pending) \in Nat
        /\ DOMAIN pending = 1 .. Len(pending)
        /\ \A k \in DOMAIN pending : pending[k] \in Event
    BY <1>3
  <1> QED
    BY <1>2, <1>4, <1>5, EventFacts

\* A message more in the topic is a message nobody has polled.
LEMMA ReaderQuiet ==
    ASSUME TypeOK, InOrderToTheRows,
           topic' = topic \/ \E i \in DOMAIN outbox : topic' = Appended(i),
           UNCHANGED << committed, projector, live >>
    PROVE  InOrderToTheRows'
  <1>1. \A q \in Partition :
          /\ Len(topic[q]) \in Nat /\ Len(topic'[q]) \in Nat
          /\ Len(topic[q]) <= Len(topic'[q])
          /\ \A j \in 1 .. Len(topic[q]) : topic'[q][j] = topic[q][j]
    <2>1. CASE topic' = topic
      BY <2>1, ReaderFacts
    <2>2. CASE \E i \in DOMAIN outbox : topic' = Appended(i)
      BY <2>2, TopicGrows
    <2> QED
      BY <2>1, <2>2
  <1>2. \A q \in Partition : /\ committed[q] \in 0 .. Len(topic[q])
                             /\ position[q] \in 0 .. Len(topic[q])
    BY DEF InOrderToTheRows, NothingFallsBetween
  <1>3. \A q \in Partition : \A j \in 1 .. committed[q] : j \in 1 .. Len(topic[q])
    BY <1>1, <1>2
  <1>4. \A q \in Partition : \A j \in 1 .. position[q] : j \in 1 .. Len(topic[q])
    BY <1>1, <1>2
  <1>5. CommittedIsWritten'
    BY <1>1, <1>3 DEF InOrderToTheRows, CommittedIsWritten
  <1>6. \A o, n : Folded(o, n)' <=> Folded(o, n)
    BY DEF Folded, projector
  <1>7. \A k, o, n : InPending(k, o, n)' <=> InPending(k, o, n)
    BY DEF InPending, projector
  <1>8. \A q \in Partition :
          /\ committed'[q] \in 0 .. Len(topic'[q])
          /\ position'[q] \in 0 .. Len(topic'[q])
    BY <1>1, <1>2 DEF projector
  <1>9. \A q \in Partition : \A i \in 1 .. position[q] :
          topic'[q][i] = topic[q][i]
    BY <1>1, <1>4
  <1>10. NothingFallsBetween'
    BY <1>8, <1>9 DEF InOrderToTheRows, NothingFallsBetween, projector, Folded, InPending
  <1> QED
    BY <1>5, <1>10 DEF InOrderToTheRows, NeverRefused, projector

\* A process that is gone, or one that comes: from here on the next message is
\* the first one that was not committed.
LEMMA ReaderRestarts ==
    ASSUME TypeOK, InOrderToTheRows,
           UNCHANGED << topic, live >>, pending' = << >>, refused' = FALSE,
           phase' # "folding", position' = committed',
           committed' = committed \/ committed' = Origin
    PROVE  InOrderToTheRows'
  <1>1. \A q \in Partition : committed'[q] \in 0 .. Len(topic[q])
    BY ReaderFacts DEF InOrderToTheRows, NothingFallsBetween, Origin
  <1>2. CommittedIsWritten'
    BY DEF InOrderToTheRows, CommittedIsWritten, Origin
  <1>3. NothingFallsBetween'
    BY <1>1, <1>2 DEF CommittedIsWritten, NothingFallsBetween, Folded
  <1> QED
    BY <1>2, <1>3 DEF InOrderToTheRows, NeverRefused

\* What is polled follows on what was polled before it.
LEMMA ReaderPolls ==
    ASSUME TypeOK, KeysArriveInOrder, InOrderToTheRows, NEW q \in Partition, Poll(q)
    PROVE  InOrderToTheRows'
  <1> DEFINE at    == position[q] + 1
             event == topic[q][at]
             L     == Len(pending)
  <1>1. /\ phase = "polling"
        /\ pending' = Append(pending, event)
        /\ position' = [position EXCEPT ![q] = at]
        /\ UNCHANGED << topic, committed, phase, current, touched, refused, live >>
    BY DEF Poll, broker
  <1>2. at \in DOMAIN topic[q] /\ event \in Event
        /\ position[q] \in Nat /\ event.sequence_no \in Nat \ {0}
    <2>1. at \in DOMAIN topic[q] /\ position[q] \in Nat
      BY ReaderFacts DEF Poll, TypeOK
    <2> QED
      BY <2>1, ReaderFacts
  <1>3. /\ L \in Nat
        /\ DOMAIN pending = 1 .. L
        /\ DOMAIN pending' = 1 .. L + 1
        /\ \A k \in 1 .. L : pending'[k] = pending[k]
        /\ pending'[L + 1] = event
    BY <1>1, <1>2, ReaderFacts, AppendProperties DEF TypeOK
  <1> HIDE DEF L, event
  <1>4. \A x, n : Folded(x, n)' <=> Folded(x, n)
    BY <1>1 DEF Folded
  <1>5. ASSUME NEW r \in Partition, NEW i \in 1 .. position'[r]
        PROVE  \/ Folded(topic[r][i].order_id, topic[r][i].sequence_no)
               \/ \E k \in 1 .. L + 1 : /\ pending'[k].order_id = topic[r][i].order_id
                                        /\ pending'[k].sequence_no = topic[r][i].sequence_no
    <2>1. CASE r = q /\ i = at
      <3>1. L + 1 \in 1 .. L + 1
        BY <1>3
      <3> QED
        BY <1>3, <2>1, <3>1 DEF event
    <2>2. CASE i \in 1 .. position[r]
      <3>1. \/ Folded(topic[r][i].order_id, topic[r][i].sequence_no)
            \/ \E k \in DOMAIN pending :
                  InPending(k, topic[r][i].order_id, topic[r][i].sequence_no)
        BY <2>2 DEF InOrderToTheRows, NothingFallsBetween
      <3>2. \A k \in 1 .. L : k \in 1 .. L + 1
        BY <1>3
      <3> QED
        BY <1>3, <3>1, <3>2, Zenon DEF InPending
    <2>3. (r = q /\ i = at) \/ i \in 1 .. position[r]
      BY <1>1, <1>2, <1>5 DEF TypeOK
    <2> QED
      BY <2>1, <2>2, <2>3
  <1>6. ASSUME NEW k \in 1 .. L + 1, NEW n \in 1 .. pending'[k].sequence_no - 1
        PROVE  \/ Folded(pending'[k].order_id, n)
               \/ \E l \in 1 .. k - 1 : /\ pending'[l].order_id = pending'[k].order_id
                                        /\ pending'[l].sequence_no = n
    <2>1. CASE k \in 1 .. L
      <3>1. \A l \in 1 .. k - 1 : l \in 1 .. L
        BY <1>3, <2>1
      <3>2. /\ pending'[k] = pending[k]
            /\ \A l \in 1 .. k - 1 : pending'[l] = pending[l]
        BY <1>3, <2>1, <3>1
      <3>3. n \in 1 .. pending[k].sequence_no - 1
        BY <1>6, <3>2
      <3>4. \/ Folded(pending[k].order_id, n)
            \/ \E l \in 1 .. k - 1 : /\ pending[l].order_id = pending[k].order_id
                                     /\ pending[l].sequence_no = n
        BY <1>3, <2>1, <3>3 DEF InOrderToTheRows, NothingFallsBetween, InPending
      <3> QED
        BY <3>2, <3>4, Zenon
    <2>2. CASE k = L + 1
      <3>1. n \in 1 .. event.sequence_no - 1
        BY <1>3, <1>6, <2>2
      <3>2. n \in 1 .. event.sequence_no /\ n # event.sequence_no
        BY <1>2, <3>1
      <3>3. PICK j \in 1 .. at : IsEventAt(q, j, event.order_id, n)
        BY <1>2, <3>2 DEF KeysArriveInOrder, event
      <3>4. j \in 1 .. position[q]
        BY <1>2, <3>2, <3>3 DEF IsEventAt, event
      <3>5. \/ Folded(event.order_id, n)
            \/ \E l \in DOMAIN pending : InPending(l, event.order_id, n)
        BY <3>3, <3>4 DEF InOrderToTheRows, NothingFallsBetween, IsEventAt
      <3>6. \A l \in 1 .. L : l \in 1 .. k - 1
        BY <1>3, <2>2
      <3> QED
        BY <1>3, <2>2, <3>5, <3>6 DEF InPending
    <2> QED
      BY <1>3, <2>1, <2>2
  <1>7. \A r \in Partition : position'[r] \in 0 .. Len(topic[r])
    BY <1>1, <1>2, ReaderFacts DEF InOrderToTheRows, NothingFallsBetween, TypeOK
  <1>8. NothingFallsBetween'
    <2>1. \A r \in Partition : committed'[r] \in 0 .. Len(topic'[r])
      BY <1>1 DEF InOrderToTheRows, NothingFallsBetween
    <2>2. phase' \notin {"stopped", "written", "folding"}
      BY <1>1
    <2> DEFINE Known(o, n) == \/ n <= LastSeq(live'[o])
                              \/ phase' = "folding" /\ n <= LastSeq(current'[o])
    <2>3. \A o, n : Folded(o, n) => Known(o, n)
      BY <1>1 DEF Folded
    <2> HIDE DEF Known
    <2>4. \A r \in Partition : \A i \in 1 .. position'[r] :
            \/ Known(topic'[r][i].order_id, topic'[r][i].sequence_no)
            \/ \E k \in DOMAIN pending' :
                  /\ pending'[k].order_id = topic'[r][i].order_id
                  /\ pending'[k].sequence_no = topic'[r][i].sequence_no
      BY <1>1, <1>3, <1>5, <2>3
    <2>5. \A k \in DOMAIN pending' : \A n \in 1 .. pending'[k].sequence_no - 1 :
            \/ Known(pending'[k].order_id, n)
            \/ \E l \in 1 .. k - 1 : /\ pending'[l].order_id = pending'[k].order_id
                                     /\ pending'[l].sequence_no = n
      BY <1>3, <1>6, <2>3
    <2> QED
      BY <1>1, <1>7, <2>1, <2>2, <2>4, <2>5
         DEF NothingFallsBetween, Folded, InPending, Known
  <1> QED
    BY <1>1, <1>8 DEF InOrderToTheRows, CommittedIsWritten, NeverRefused

\* Loading the rows of a batch loses nothing.
LEMMA ReaderLoads ==
    ASSUME TypeOK, InOrderToTheRows, BeginFlush
    PROVE  InOrderToTheRows'
  <1>1. /\ phase = "polling" /\ phase' = "folding"
        /\ UNCHANGED << topic, committed, position, pending, touched, refused, live >>
        /\ \A o \in Order : current'[o] \in {Null, live[o]}
    BY DEF BeginFlush, broker
  <1>2. \A o, n : Folded(o, n) => n <= LastSeq(live[o])
    BY <1>1 DEF Folded
  <1>3. NothingFallsBetween'
    BY <1>1, <1>2 DEF InOrderToTheRows, NothingFallsBetween, Folded, InPending
  <1> QED
    BY <1>1, <1>3 DEF InOrderToTheRows, CommittedIsWritten, NeverRefused

\* One turn of the loop: no gap, and afterwards the event is in a row.
LEMMA NoGapInTurn ==
    ASSUME Invariant, InOrderToTheRows, FoldNext
    PROVE  /\ \A x \in Order : LastSeq(current'[x]) >= LastSeq(current[x])
           /\ LastSeq(current'[Head(pending).order_id]) >= Head(pending).sequence_no
           /\ refused' = FALSE
           /\ \A x \in Order : x \notin touched' => x \notin touched /\ current'[x] = current[x]
  <1> DEFINE event == Head(pending)
             o     == event.order_id
             n     == event.sequence_no
             held  == LastSeq(current[o])
  <1>0. TypeOK
    BY DEF Invariant
  <1>1. /\ phase = "folding" /\ pending # << >>
        /\ 1 \in DOMAIN pending /\ event = pending[1]
        /\ o \in Order /\ n \in Nat \ {0} /\ held \in Nat
        /\ LastSeq(live[o]) \in Nat
    BY <1>0, ReaderFacts DEF FoldNext, TypeOK
  <1>2. LastSeq(live[o]) <= held
    <2>1. CASE current[o] = Null
      BY <1>1, <2>1 DEF Invariant, ProjectorInvariant, LoadedAsStored, LastSeq
    <2>2. CASE current[o] # Null
      BY <1>1, <2>2 DEF Invariant, ProjectorInvariant, LoadedRowsAreSilverPrefixes
    <2> QED
      BY <2>1, <2>2
  <1>3. n <= held + 1
    <2>1. CASE n = 1
      BY <1>1, <2>1
    <2>2. CASE n # 1
      <3>1. n - 1 \in 1 .. n - 1
        BY <1>1, <2>2
      <3>2. \/ Folded(o, n - 1)
            \/ \E l \in 1 .. 1 - 1 : InPending(l, o, n - 1)
        BY <1>1, <3>1 DEF InOrderToTheRows, NothingFallsBetween
      <3>3. Folded(o, n - 1)
        BY <3>2
      <3> QED
        BY <1>1, <1>2, <3>3 DEF Folded
    <2> QED
      BY <2>1, <2>2
  <1>4. refused = FALSE
    BY <1>0 DEF InOrderToTheRows, NeverRefused, TypeOK
  <1>5. CASE n = held + 1
    <2>1. decide(current[o], event) = "apply"
      BY <1>1, <1>5 DEF decide
    <2>2. /\ current' = [current EXCEPT ![o] = fold_event(current[o], event)]
          /\ touched' = touched \union {o} /\ refused' = refused
      BY <2>1 DEF FoldNext
    <2>3. LastSeq(fold_event(current[o], event)) = held + 1
      BY <1>1, <2>1, Turn
    <2> HIDE DEF held, n
    <2>4. \A x \in Order : current'[x] = IF x = o THEN fold_event(current[o], event)
                                                  ELSE current[x]
      BY <1>0, <2>2 DEF TypeOK
    <2>5. \A x \in Order : LastSeq(current[x]) \in Nat
      BY <1>0, ReaderFacts
    <2>6. LastSeq(current'[o]) = n /\ LastSeq(current[o]) = held
      BY <1>1, <1>5, <2>3, <2>4 DEF held
    <2>7. \A x \in Order : LastSeq(current'[x]) >= LastSeq(current[x])
      <3> TAKE x \in Order
      <3>1. CASE x = o
        BY <1>1, <1>5, <2>6, <3>1
      <3>2. CASE x # o
        BY <2>4, <2>5, <3>2
      <3> QED
        BY <3>1, <3>2
    <2>8. LastSeq(current'[o]) >= n
      BY <1>1, <2>6
    <2>9. \A x \in Order : x \notin touched' => x \notin touched /\ current'[x] = current[x]
      BY <2>2, <2>4
    <2> QED
      BY <1>4, <2>2, <2>7, <2>8, <2>9 DEF n
  <1>6. CASE n <= held
    <2>1. decide(current[o], event) = "duplicate"
      BY <1>1, <1>6 DEF decide
    <2>2. UNCHANGED << current, touched, refused >>
      BY <2>1 DEF FoldNext
    <2>3. \A x \in Order : LastSeq(current[x]) \in Nat
      BY <1>0, ReaderFacts
    <2> QED
      BY <1>1, <1>4, <1>6, <2>2, <2>3
  <1>7. n = held + 1 \/ n <= held
    BY <1>1, <1>3
  <1> QED
    BY <1>5, <1>6, <1>7, Zenon

\* The batch is one message shorter, and that message is in a row.
LEMMA ReaderFolds ==
    ASSUME Invariant, InOrderToTheRows, FoldNext
    PROVE  InOrderToTheRows'
  <1> DEFINE L == Len(pending)
             Known(o, n) == \/ n <= LastSeq(live'[o])
                            \/ phase' = "folding" /\ n <= LastSeq(current'[o])
  <1>0. TypeOK /\ TypeOK'
    BY FoldNextType DEF Invariant
  <1>1. /\ phase = "folding" /\ pending' = Tail(pending)
        /\ UNCHANGED << topic, committed, position, phase, live >>
    BY DEF FoldNext, broker
  <1>2. /\ L \in Nat \ {0}
        /\ DOMAIN pending = 1 .. L
        /\ DOMAIN pending' = 1 .. L - 1
        /\ \A k \in 1 .. L - 1 : pending'[k] = pending[k + 1]
        /\ Head(pending) = pending[1]
    BY <1>0, <1>1 DEF FoldNext, TypeOK
  <1> HIDE DEF L
  <1>3. /\ \A k \in 1 .. L : pending[k].order_id \in Order
                             /\ pending[k].sequence_no \in Nat
        /\ \A x \in Order : LastSeq(current[x]) \in Nat /\ LastSeq(current'[x]) \in Nat
        /\ \A q \in Partition : Len(topic[q]) \in Nat
        /\ \A q \in Partition : \A i \in 1 .. Len(topic[q]) :
              topic[q][i].order_id \in Order /\ topic[q][i].sequence_no \in Nat
    <2>1. \A x \in Order : LastSeq(current'[x]) \in Nat
      BY <1>0, LastSeqType DEF TypeOK
    <2> QED
      BY <1>0, <1>2, <2>1, ReaderFacts
  <1>4. \A o \in Order : \A n \in Nat : Folded(o, n) => Known(o, n)
    BY <1>1, <1>3, NoGapInTurn DEF Folded
  <1>5. Known(pending[1].order_id, pending[1].sequence_no)
    BY <1>1, <1>2, NoGapInTurn
  <1> HIDE DEF Known
  <1>6. ASSUME NEW q \in Partition, NEW i \in 1 .. position[q]
        PROVE  \/ Known(topic[q][i].order_id, topic[q][i].sequence_no)
               \/ \E k \in 1 .. L - 1 : /\ pending'[k].order_id = topic[q][i].order_id
                                        /\ pending'[k].sequence_no = topic[q][i].sequence_no
    <2>1. i \in 1 .. Len(topic[q])
      BY <1>3, <1>6 DEF InOrderToTheRows, NothingFallsBetween
    <2>2. CASE Folded(topic[q][i].order_id, topic[q][i].sequence_no)
      BY <1>3, <1>4, <2>1, <2>2
    <2>3. CASE \E k \in 1 .. L : InPending(k, topic[q][i].order_id, topic[q][i].sequence_no)
      <3>1. PICK k \in 1 .. L : InPending(k, topic[q][i].order_id, topic[q][i].sequence_no)
        BY <2>3
      <3>2. CASE k = 1
        BY <1>5, <3>1, <3>2 DEF InPending
      <3>3. CASE k # 1
        <4>1. k - 1 \in 1 .. L - 1 /\ (k - 1) + 1 = k
          BY <1>2, <3>3
        <4>2. pending'[k - 1] = pending[k]
          BY <1>2, <4>1
        <4> QED
          BY <3>1, <4>1, <4>2 DEF InPending
      <3> QED
        BY <3>2, <3>3
    <2> QED
      BY <1>2, <2>2, <2>3 DEF InOrderToTheRows, NothingFallsBetween
  <1>7. ASSUME NEW k \in 1 .. L - 1, NEW n \in 1 .. pending'[k].sequence_no - 1
        PROVE  \/ Known(pending'[k].order_id, n)
               \/ \E l \in 1 .. k - 1 : /\ pending'[l].order_id = pending'[k].order_id
                                        /\ pending'[l].sequence_no = n
    <2> DEFINE o == pending[k + 1].order_id
    <2>1. /\ k + 1 \in 1 .. L /\ (k + 1) - 1 = k
          /\ pending'[k] = pending[k + 1]
          /\ n \in 1 .. pending[k + 1].sequence_no - 1
          /\ n \in Nat /\ o \in Order
      BY <1>2, <1>3, <1>7
    <2>2. Folded(o, n) \/ \E l \in 1 .. k : InPending(l, o, n)
      BY <1>2, <2>1 DEF InOrderToTheRows, NothingFallsBetween
    <2>3. CASE Folded(o, n)
      BY <1>4, <2>1, <2>3
    <2>4. CASE \E l \in 1 .. k : InPending(l, o, n)
      <3>1. PICK l \in 1 .. k : InPending(l, o, n)
        BY <2>4
      <3>2. CASE l = 1
        BY <1>5, <2>1, <3>1, <3>2 DEF InPending
      <3>3. CASE l # 1
        <4>1. l - 1 \in 1 .. k - 1 /\ (l - 1) + 1 = l /\ l - 1 \in 1 .. L - 1
          BY <1>2, <3>3
        <4>2. pending'[l - 1] = pending[l]
          BY <1>2, <4>1
        <4> QED
          BY <2>1, <3>1, <4>1, <4>2 DEF InPending
      <3> QED
        BY <3>2, <3>3
    <2> QED
      BY <2>2, <2>3, <2>4
  <1>8. \A x \in Order : x \notin touched' => current'[x] \in {Null, live[x]}
    BY <1>1, NoGapInTurn DEF InOrderToTheRows, NothingFallsBetween
  <1>9. NothingFallsBetween'
    <2>1. \A q \in Partition : /\ committed'[q] \in 0 .. Len(topic'[q])
                               /\ position'[q] \in 0 .. Len(topic'[q])
      BY <1>1 DEF InOrderToTheRows, NothingFallsBetween
    <2>2. \A q \in Partition : \A i \in 1 .. position'[q] :
            \/ Known(topic'[q][i].order_id, topic'[q][i].sequence_no)
            \/ \E k \in DOMAIN pending' :
                  /\ pending'[k].order_id = topic'[q][i].order_id
                  /\ pending'[k].sequence_no = topic'[q][i].sequence_no
      BY <1>1, <1>2, <1>6
    <2>3. \A k \in DOMAIN pending' : \A n \in 1 .. pending'[k].sequence_no - 1 :
            \/ Known(pending'[k].order_id, n)
            \/ \E l \in 1 .. k - 1 : /\ pending'[l].order_id = pending'[k].order_id
                                     /\ pending'[l].sequence_no = n
      BY <1>2, <1>7
    <2> QED
      BY <1>1, <1>8, <2>1, <2>2, <2>3
         DEF NothingFallsBetween, Folded, InPending, Known
  <1>10. CommittedIsWritten' /\ NeverRefused'
    BY <1>1, NoGapInTurn DEF InOrderToTheRows, CommittedIsWritten, NeverRefused
  <1> QED
    BY <1>9, <1>10 DEF InOrderToTheRows

\* What was folded is written: the rows that are not saved are the stored ones.
LEMMA ReaderSaves ==
    ASSUME Invariant, InOrderToTheRows, SaveAndCommit
    PROVE  InOrderToTheRows'
  <1>0. TypeOK
    BY DEF Invariant
  <1>1. /\ phase = "folding" /\ phase' = "written" /\ pending = << >>
        /\ UNCHANGED << topic, committed, position, pending, refused >>
        /\ \A o \in Order : live'[o] = IF o \in touched THEN current[o] ELSE live[o]
    BY DEF SaveAndCommit, broker
  <1>2. \A o \in Order : /\ LastSeq(live[o]) \in Nat
                         /\ LastSeq(live'[o]) \in Nat
                         /\ LastSeq(current[o]) \in Nat
                         /\ LastSeq(live[o]) <= LastSeq(live'[o])
    <2>1. \A o \in Order : oltp_sequence[o] \in Nat
      BY <1>0 DEF TypeOK
    <2> QED
      BY <1>0, <2>1, ReaderFacts, SavedRows
  <1>3. \A o \in Order : LastSeq(current[o]) <= LastSeq(live'[o])
    <2> TAKE o \in Order
    <2>1. CASE o \in touched
      BY <1>1, <1>2, <2>1
    <2>2. CASE o \notin touched
      <3>1. current[o] = Null \/ current[o] = live[o]
        BY <1>1, <2>2 DEF InOrderToTheRows, NothingFallsBetween
      <3>2. LastSeq(Null) = 0
        BY DEF LastSeq
      <3> QED
        BY <1>2, <3>1, <3>2
    <2> QED
      BY <2>1, <2>2
  <1>4. \A o \in Order : \A n \in Nat : Folded(o, n) => n <= LastSeq(live'[o])
    BY <1>1, <1>2, <1>3 DEF Folded
  <1>5. \A q \in Partition : \A i \in 1 .. position[q] :
          topic[q][i].sequence_no <= LastSeq(live'[topic[q][i].order_id])
    <2> TAKE q \in Partition
    <2> TAKE i \in 1 .. position[q]
    <2>1. i \in DOMAIN topic[q]
      BY <1>0, ReaderFacts DEF InOrderToTheRows, NothingFallsBetween
    <2>2. topic[q][i].order_id \in Order /\ topic[q][i].sequence_no \in Nat
      BY <1>0, <2>1, ReaderFacts
    <2>3. Folded(topic[q][i].order_id, topic[q][i].sequence_no)
      BY <1>1 DEF InOrderToTheRows, NothingFallsBetween
    <2> QED
      BY <1>4, <2>2, <2>3
  <1>6. NothingFallsBetween'
    BY <1>1, <1>5 DEF InOrderToTheRows, NothingFallsBetween, Folded
  <1>7. CommittedIsWritten'
    <2> SUFFICES ASSUME NEW q \in Partition, NEW i \in 1 .. committed[q]
                 PROVE  topic[q][i].sequence_no <= LastSeq(live'[topic[q][i].order_id])
      BY <1>1 DEF CommittedIsWritten
    <2>1. i \in DOMAIN topic[q]
      BY <1>0, ReaderFacts DEF InOrderToTheRows, NothingFallsBetween
    <2>2. topic[q][i].order_id \in Order /\ topic[q][i].sequence_no \in Nat
      BY <1>0, <2>1, ReaderFacts
    <2>3. topic[q][i].sequence_no <= LastSeq(live[topic[q][i].order_id])
      BY DEF InOrderToTheRows, CommittedIsWritten
    <2> QED
      BY <1>2, <2>2, <2>3
  <1> QED
    BY <1>1, <1>6, <1>7 DEF InOrderToTheRows, NeverRefused

\* The offsets are committed when everything polled is written.
LEMMA ReaderCommits ==
    ASSUME TypeOK, InOrderToTheRows, CommitOffset
    PROVE  InOrderToTheRows'
  <1>1. /\ phase = "written" /\ pending = << >> /\ refused = FALSE
        /\ committed' = position
        /\ phase' = "polling"
        /\ UNCHANGED << topic, live, position, pending, touched, current, refused >>
    BY DEF CommitOffset, InOrderToTheRows, NeverRefused, NothingFallsBetween, TypeOK
  <1>2. CommittedIsWritten'
    BY <1>1 DEF InOrderToTheRows, NothingFallsBetween, CommittedIsWritten, Folded
  <1>3. NothingFallsBetween'
    BY <1>1 DEF InOrderToTheRows, NothingFallsBetween, Folded
  <1> QED
    BY <1>1, <1>2, <1>3 DEF InOrderToTheRows, NeverRefused

\* Every step of the system, as long as nothing is refused.
LEMMA ReaderStep ==
    ASSUME Invariant, KeysArriveInOrder, InOrderToTheRows, [Next]_vars
    PROVE  InOrderToTheRows'
  <1>0. TypeOK
    BY DEF Invariant
  <1>1. CASE \E q \in Partition : Poll(q)
    BY <1>0, <1>1, ReaderPolls
  <1>2. CASE BeginFlush
    BY <1>0, <1>2, ReaderLoads
  <1>3. CASE FoldNext
    BY <1>3, ReaderFolds
  <1>4. CASE SaveAndCommit
    BY <1>4, ReaderSaves
  <1>5. CASE CommitOffset
    BY <1>0, <1>5, ReaderCommits
  <1>6. CASE StartProjector \/ IdleExit \/ CrashProjector \/ Replay
    <2>1. /\ UNCHANGED << topic, live >>
          /\ position' = committed'
          /\ committed' = committed \/ committed' = Origin
          /\ phase' # "folding"
      BY <1>6 DEF StartProjector, IdleExit, CrashProjector, Replay, StopAt, broker
    <2>2. pending' = << >> /\ refused' = FALSE
      BY <1>0, <1>6 DEF StartProjector, IdleExit, CrashProjector, Replay, StopAt, TypeOK,
             InOrderToTheRows, NothingFallsBetween, NeverRefused
    <2> QED
      BY <1>0, <2>1, <2>2, ReaderRestarts
  <1>7. ASSUME NEW p \in Publisher, NEW i \in batch[p], Accept(p, i) \/ Reject(p, i)
        PROVE  InOrderToTheRows'
    <2>1. i \in DOMAIN outbox
      BY <1>0 DEF TypeOK
    <2>2. /\ topic' = topic \/ topic' = Appended(i)
          /\ UNCHANGED << committed, projector, live >>
      BY <1>7 DEF Accept, Reject
    <2> QED
      BY <1>0, <2>1, <2>2, ReaderQuiet
  <1>8. CASE \/ \E o \in Order : AppendOutbox(o)
             \/ \E p \in Publisher : TakeBatch(p) \/ MarkPublished(p) \/ FailBatch(p)
                                     \/ CrashPublisher(p)
             \/ UNCHANGED vars
    <2>1. UNCHANGED << topic, committed, projector, live >>
      BY <1>8 DEF AppendOutbox, TakeBatch, MarkPublished, FailBatch, CrashPublisher, vars, broker
    <2> QED
      BY <1>0, <2>1, ReaderQuiet
  <1> QED
    BY <1>1, <1>2, <1>3, <1>4, <1>5, <1>6, <1>7, <1>8
       DEF Next, Publish, Projection, Fault

-----------------------------------------------------------------------------
\* A refusal is counted, and the count never goes down.
LEMMA RefusalsAreCounted ==
    ASSUME TypeOK, [Next]_vars, faults'.reject = 0
    PROVE  faults.reject = 0
  <1>1. faults \in [crash : 0 .. MaxCrash, reject : 0 .. MaxReject, replay : 0 .. MaxReplay]
    BY DEF TypeOK
  <1>2. faults.reject \in Nat
    BY <1>1, StreamAssumption
  <1>3. faults'.reject = faults.reject \/ faults'.reject = faults.reject + 1
    BY <1>1 DEF Next, Publish, Projection, Fault, vars, oltp, publisher, broker, projector,
           AppendOutbox, TakeBatch, Accept, MarkPublished, FailBatch, StartProjector, Poll,
           BeginFlush, FoldNext, SaveAndCommit, CommitOffset, IdleExit, CrashPublisher,
           Reject, CrashProjector, Replay
  <1> QED
    BY <1>2, <1>3

LEMMA DeliveryInit == Init => DeliveryInvariant
  BY DEF Init, Origin, DeliveryInvariant, InOrderOnTheTopic, InOrderToTheRows,
         AcknowledgedIsInTheTopic, KeysArriveInOrder, NothingFallsBetween,
         CommittedIsWritten, NeverRefused, Folded

\* Every step keeps the order of delivery, or is the first refusal.
LEMMA DeliveryStep ==
    Invariant /\ PublisherInvariant /\ DeliveryInvariant /\ [Next]_vars => DeliveryInvariant'
  <1> SUFFICES ASSUME Invariant, PublisherInvariant, DeliveryInvariant, [Next]_vars,
                      faults'.reject = 0
               PROVE  InOrderOnTheTopic' /\ InOrderToTheRows'
    BY DEF DeliveryInvariant
  <1>1. TypeOK /\ EventsAreCommitted
    BY DEF Invariant, ProjectorInvariant
  <1>2. faults.reject = 0
    BY <1>1, RefusalsAreCounted
  <1>3. InOrderOnTheTopic /\ InOrderToTheRows
    BY <1>2 DEF DeliveryInvariant
  <1>4. InOrderOnTheTopic'
    BY <1>1, <1>2, <1>3, TopicStaysInOrder
  <1>5. InOrderToTheRows'
    BY <1>3, ReaderStep DEF InOrderOnTheTopic
  <1> QED
    BY <1>4, <1>5

\* The inductive invariant of a system with one publisher.
LEMMA OnePublisherInvariant ==
    ASSUME \E x : Publisher = {x}
    PROVE  Spec => [](PublisherInvariant /\ DeliveryInvariant)
  BY PublisherInit, PublisherStep, DeliveryInit, DeliveryStep, InvariantHolds, PTL DEF Spec

\* With one publisher, and until the broker refuses a first message, every
\* message is a repetition or the next event of its order and the projector
\* never meets a gap: through any crashes of both, redelivery and replays.
THEOREM KeysAreOrdered ==
    ASSUME \E x : Publisher = {x}
    PROVE  Spec => [](faults.reject = 0 => NoGapArises)
  <1>1. DeliveryInvariant => (faults.reject = 0 => NoGapArises)
    BY DEF DeliveryInvariant, InOrderOnTheTopic, InOrderToTheRows, NoGapArises
  <1> QED
    BY <1>1, OnePublisherInvariant, PTL

\* Under the same conditions no offset passes an event whose row is not stored:
\* a projector that dies is given again everything it had not written.
THEOREM OffsetsAreSafe ==
    ASSUME \E x : Publisher = {x}
    PROVE  Spec => [](faults.reject = 0 => CommittedIsWritten)
  <1>1. DeliveryInvariant => (faults.reject = 0 => CommittedIsWritten)
    BY DEF DeliveryInvariant, InOrderToTheRows
  <1> QED
    BY <1>1, OnePublisherInvariant, PTL

\* Every set of naturals that is not empty has a least one.
LEMMA LeastExists ==
    ASSUME NEW S \in SUBSET Nat, S # {}
    PROVE  \E n \in S : \A m \in S : n <= m
  <1> DEFINE R == OpToRel(<, Nat)
  <1>1. PICK x \in S : \A y \in S : ~(<< y, x >> \in R)
    BY NatLessThanWellFounded, WFMin, Zenon
  <1>2. ASSUME NEW y \in Nat, NEW z \in Nat, y < z
        PROVE  << y, z >> \in R
    <2>1. << y, z >> \in Nat \X Nat /\ << y, z >>[1] < << y, z >>[2]
      BY <1>2
    <2> QED
      BY <2>1, Zenon DEF OpToRel
  <1> HIDE DEF R
  <1>3. ASSUME NEW m \in S
        PROVE  x <= m
    <2>1. ~(m < x)
      BY <1>1, <1>2
    <2> QED
      BY <2>1
  <1> QED
    BY <1>3

-----------------------------------------------------------------------------
(* Sums over the lines of an order.                                        *)

\* u has the sums of the first k amounts.
Sums(a, n, u) ==
    /\ u \in [0 .. n -> Nat]
    /\ u[0] = 0
    /\ \A k \in 1 .. n : u[k] = u[k - 1] + a[k]

\* The sums of the first amounts, one by one, are defined.
LEMMA SumsExist ==
    ASSUME NEW n \in Nat, NEW a \in [1 .. n -> Nat]
    PROVE  \E u : Sums(a, n, u)
  <1> DEFINE S == {m \in 0 .. n : ~ \E u : Sums(a, m, u)}
  <1> SUFFICES ASSUME S # {}
               PROVE  FALSE
    BY n \in 0 .. n
  <1>1. PICK m \in S : \A x \in S : m <= x
    <2>1. S \in SUBSET Nat
      OBVIOUS
    <2> HIDE DEF S
    <2> QED
      BY <2>1, LeastExists
  <1>2. m \in 0 .. n /\ ~ \E u : Sums(a, m, u)
    BY <1>1
  <1>3. CASE m = 0
    <2> DEFINE w == [k \in 0 .. 0 |-> 0]
    <2>1. Sums(a, 0, w)
      BY DEF Sums
    <2> QED
      BY <1>2, <1>3, <2>1
  <1>4. CASE m # 0
    <2>1. m - 1 \in 0 .. n /\ m - 1 \notin S
      <3>1. m - 1 \in 0 .. n /\ ~(m <= m - 1)
        BY <1>2, <1>4
      <3> HIDE DEF S
      <3> QED
        BY <1>1, <3>1
    <2>2. PICK u : Sums(a, m - 1, u)
      BY <2>1
    <2> DEFINE w == [k \in 0 .. m |-> IF k = m THEN u[m - 1] + a[m] ELSE u[k]]
    <2>3. /\ u \in [0 .. m - 1 -> Nat] /\ u[0] = 0
          /\ \A k \in 1 .. m - 1 : u[k] = u[k - 1] + a[k]
      BY <2>2 DEF Sums
    <2>4. w \in [0 .. m -> Nat] /\ w[0] = 0
      BY <1>2, <1>4, <2>3
    <2>5. \A k \in 1 .. m : w[k] = w[k - 1] + a[k]
      <3> TAKE k \in 1 .. m
      <3>1. CASE k = m
        BY <1>2, <1>4, <3>1
      <3>2. CASE k # m
        BY <1>2, <1>4, <2>3, <3>2
      <3> QED
        BY <3>1, <3>2
    <2> HIDE DEF w
    <2>6. Sums(a, m, w)
      BY <2>4, <2>5 DEF Sums
    <2> QED
      BY <1>2, <2>6
  <1> QED
    BY <1>3, <1>4

\* Whatever is defined like the sums is the sums.
LEMMA SumsAreOne ==
    ASSUME NEW n \in Nat, NEW a, NEW u, Sums(a, n, u), NEW v,
           \A k \in 0 .. n : v[k] = IF k = 0 THEN 0 ELSE v[k - 1] + a[k]
    PROVE  \A k \in 0 .. n : v[k] = u[k]
  <1> DEFINE S == {k \in 0 .. n : v[k] # u[k]}
  <1> SUFFICES ASSUME S # {}
               PROVE  FALSE
    OBVIOUS
  <1>1. PICK m \in S : \A x \in S : m <= x
    <2>1. S \in SUBSET Nat
      OBVIOUS
    <2> HIDE DEF S
    <2> QED
      BY <2>1, LeastExists
  <1>2. m \in 0 .. n /\ v[m] # u[m]
    BY <1>1
  <1>3. m # 0
    BY <1>2 DEF Sums
  <1>4. m - 1 \in 0 .. n /\ v[m - 1] = u[m - 1]
    <2>1. m - 1 \in 0 .. n /\ ~(m <= m - 1)
      BY <1>2, <1>3
    <2>2. m - 1 \notin S
      <3> HIDE DEF S
      <3> QED
        BY <1>1, <2>1
    <2> QED
      BY <2>1, <2>2
  <1>5. u[m] = u[m - 1] + a[m]
    BY <1>2, <1>3 DEF Sums
  <1> QED
    BY <1>2, <1>3, <1>4, <1>5

\* Amounts of nothing add up to nothing.
LEMMA SumsOfNothing ==
    ASSUME NEW n \in Nat, NEW a, \A k \in 1 .. n : a[k] = 0, NEW u, Sums(a, n, u)
    PROVE  u[n] = 0
  <1> DEFINE v == [k \in 0 .. n |-> 0]
  <1>1. \A k \in 0 .. n : v[k] = IF k = 0 THEN 0 ELSE v[k - 1] + a[k]
    OBVIOUS
  <1>2. \A k \in 0 .. n : v[k] = u[k]
    <2> HIDE DEF v
    <2> QED
      BY <1>1, SumsAreOne
  <1> QED
    BY <1>2

\* _RECOMPUTE_NET is the sum of the amounts of the lines.
LEMMA LineSumIs ==
    ASSUME NEW n \in Nat, NEW lines, Len(lines) = n, NEW a \in [1 .. n -> Nat],
           \A k \in 1 .. n : a[k] = lines[k].line_amount, NEW u, Sums(a, n, u)
    PROVE  LineSum(lines) = u[n]
  <1> DEFINE F(w) == [k \in 0 .. n |-> IF k = 0 THEN 0 ELSE w[k - 1] + lines[k].line_amount]
             v == CHOOSE w : w = F(w)
  <1>1. LineSum(lines) = v[n]
    BY DEF LineSum
  <1>2. u = F(u)
    BY DEF Sums
  <1>3. v = F(v)
    <2> HIDE DEF F
    <2> QED
      BY <1>2
  <1> HIDE DEF v
  <1>4. \A k \in 0 .. n : v[k] = IF k = 0 THEN 0 ELSE v[k - 1] + a[k]
    BY <1>3
  <1> QED
    BY <1>1, <1>4, SumsAreOne

\* The sum of the amounts a of the lines S: what SumOver computes, in whatever
\* order it takes them.
Only(a, n, S) == [k \in 1 .. n |-> IF k \in S THEN a[k] ELSE 0]
SumOf(a, n, S) == (CHOOSE u : Sums(Only(a, n, S), n, u))[n]

\* A sum without one of the amounts.
Without(a, n, S, x) ==
    \A u, v : Sums(Only(a, n, S), n, u) /\ Sums(Only(a, n, S \ {x}), n, v)
               => u[n] = a[x] + v[n]

\* Taking one amount out of a sum takes that amount off it.
LEMMA SumsWithout ==
    ASSUME NEW n \in Nat, NEW a \in [1 .. n -> Nat], NEW S, NEW x \in 1 .. n, x \in S
    PROVE  Without(a, n, S, x)
  <1> SUFFICES ASSUME NEW u, Sums(Only(a, n, S), n, u), NEW v, Sums(Only(a, n, S \ {x}), n, v)
               PROVE  u[n] = a[x] + v[n]
    BY DEF Without
  <1> DEFINE Gap(k) == IF x <= k THEN a[x] ELSE 0
             Wrong == {k \in 0 .. n : u[k] # Gap(k) + v[k]}
             p == Only(a, n, S)
             q == Only(a, n, S \ {x})
  <1>0. /\ p[x] = a[x] /\ q[x] = 0
        /\ \A k \in 1 .. n : p[k] \in Nat /\ (k # x => q[k] = p[k])
    BY DEF Only
  <1> HIDE DEF p, q
  <1> SUFFICES ASSUME Wrong # {}
               PROVE  FALSE
    OBVIOUS
  <1>1. PICK m \in Wrong : \A y \in Wrong : m <= y
    <2>1. Wrong \in SUBSET Nat
      OBVIOUS
    <2> HIDE DEF Wrong
    <2> QED
      BY <2>1, LeastExists
  <1>2. m \in 0 .. n /\ u[m] # Gap(m) + v[m]
    BY <1>1
  <1>3. m # 0
    BY <1>2 DEF Sums
  <1>4. m - 1 \in 0 .. n /\ u[m - 1] = Gap(m - 1) + v[m - 1]
    <2>1. m - 1 \in 0 .. n /\ ~(m <= m - 1)
      BY <1>2, <1>3
    <2>2. m - 1 \notin Wrong
      <3> HIDE DEF Wrong
      <3> QED
        BY <1>1, <2>1
    <2> QED
      BY <2>1, <2>2
  <1>5. /\ u[m] = u[m - 1] + p[m] /\ v[m] = v[m - 1] + q[m]
        /\ u[m - 1] \in Nat /\ v[m - 1] \in Nat /\ m \in 1 .. n
    <2>1. m \in 1 .. n /\ m - 1 \in 0 .. n
      BY <1>2, <1>3, <1>4
    <2> HIDE DEF Wrong, Gap
    <2> QED
      BY <2>1 DEF Sums, p, q
  <1>6. CASE m = x
    <2>1. Gap(m) = a[x] /\ Gap(m - 1) = 0 /\ q[m] = 0 /\ p[m] = a[x] /\ a[x] \in Nat
      BY <1>0, <1>5, <1>6
    <2> QED
      BY <1>2, <1>4, <1>5, <1>6, <2>1
  <1>7. CASE m # x
    <2>1. Gap(m) = Gap(m - 1) /\ q[m] = p[m] /\ p[m] \in Nat /\ Gap(m) \in Nat
      BY <1>0, <1>5, <1>7
    <2> QED
      BY <1>2, <1>4, <1>5, <2>1
  <1> QED
    BY <1>6, <1>7

\* A sum over no line is nothing, and one over some lines is the amount of any of
\* them and the sum over the others.
Adds(a, n, S) ==
    /\ SumOf(a, n, S) \in Nat
    /\ S = {} => SumOf(a, n, S) = 0
    /\ \A x \in S : SumOf(a, n, S) = a[x] + SumOf(a, n, S \ {x})
    /\ \A x \in S : a[x] <= SumOf(a, n, S)

\* The sum over any set of lines is one of these.
LEMMA SumOfStep ==
    ASSUME NEW n \in Nat, NEW a \in [1 .. n -> Nat], NEW S \in SUBSET (1 .. n)
    PROVE  Adds(a, n, S)
  <1> DEFINE U(T) == CHOOSE u : Sums(Only(a, n, T), n, u)
  <1>1. ASSUME NEW T \in SUBSET (1 .. n)
        PROVE  /\ Only(a, n, T) \in [1 .. n -> Nat]
               /\ Sums(Only(a, n, T), n, U(T))
               /\ SumOf(a, n, T) = U(T)[n]
               /\ U(T)[n] \in Nat
    <2>1. Only(a, n, T) \in [1 .. n -> Nat]
      BY DEF Only
    <2>2. Sums(Only(a, n, T), n, U(T))
      BY <2>1, SumsExist
    <2>3. SumOf(a, n, T) = U(T)[n]
      BY DEF SumOf
    <2> HIDE DEF U
    <2>4. U(T)[n] \in Nat
      BY <2>2, n \in 0 .. n DEF Sums
    <2> QED
      BY <2>1, <2>2, <2>3, <2>4
  <1> HIDE DEF U
  <1>2. S = {} => SumOf(a, n, S) = 0
    <2> SUFFICES ASSUME S = {}
                 PROVE  SumOf(a, n, S) = 0
      OBVIOUS
    <2>1. \A k \in 1 .. n : Only(a, n, S)[k] = 0
      BY DEF Only
    <2> QED
      BY <1>1, <2>1, SumsOfNothing
  <1>3. ASSUME NEW x \in S
        PROVE  /\ SumOf(a, n, S) = a[x] + SumOf(a, n, S \ {x})
               /\ a[x] <= SumOf(a, n, S)
    <2>1. x \in 1 .. n /\ S \ {x} \in SUBSET (1 .. n)
      OBVIOUS
    <2>2. U(S)[n] = a[x] + U(S \ {x})[n]
      <3>1. Without(a, n, S, x)
        BY <2>1, SumsWithout, Zenon
      <3>2. Sums(Only(a, n, S), n, U(S)) /\ Sums(Only(a, n, S \ {x}), n, U(S \ {x}))
        BY <1>1, <2>1
      <3> QED
        BY <3>1, <3>2, Zenon DEF Without
    <2>3. a[x] \in Nat /\ U(S \ {x})[n] \in Nat
      BY <1>1, <2>1
    <2> QED
      BY <1>1, <2>1, <2>2, <2>3
  <1> QED
    BY <1>1, <1>2, <1>3 DEF Adds

\* MapThenSumSet takes the elements one by one, as CHOOSE has them.
Picks(amount, all, iter) ==
    iter = [s \in SUBSET all |->
              IF s = {} THEN 0
              ELSE amount[CHOOSE x \in s : TRUE] + iter[s \ {CHOOSE x \in s : TRUE}]]

\* What SumOver computes by picking the lines one after another is their sum.
LEMMA PicksAreTheSum ==
    ASSUME NEW n \in Nat, NEW S \in SUBSET (1 .. n), NEW a \in [1 .. n -> Nat],
           NEW iter, Picks(a, S, iter)
    PROVE  iter[S] = SumOf(a, n, S)
  <1>1. \A s \in SUBSET S :
          iter[s] = IF s = {} THEN 0
                    ELSE a[CHOOSE x \in s : TRUE] + iter[s \ {CHOOSE x \in s : TRUE}]
    BY DEF Picks
  <1>2. \A s \in SUBSET S : IsFiniteSet(s) /\ Cardinality(s) \in Nat
    <2>1. IsFiniteSet(1 .. n)
      BY FS_Interval
    <2> QED
      BY <2>1, FS_Subset, FS_CardinalityType
  <1> DEFINE Wrong == {c \in Nat : \E s \in SUBSET S : Cardinality(s) = c /\ iter[s] # SumOf(a, n, s)}
  <1> SUFFICES ASSUME Wrong # {}
               PROVE  FALSE
    BY <1>2
  <1>3. PICK c \in Wrong : \A d \in Wrong : c <= d
    <2>1. Wrong \in SUBSET Nat
      OBVIOUS
    <2> HIDE DEF Wrong
    <2> QED
      BY <2>1, LeastExists
  <1>4. PICK s \in SUBSET S : Cardinality(s) = c /\ iter[s] # SumOf(a, n, s)
    BY <1>3
  <1>5. s \in SUBSET (1 .. n)
    OBVIOUS
  <1>6. s # {}
    <2>1. Adds(a, n, s)
      BY <1>5, SumOfStep
    <2> QED
      BY <1>1, <1>4, <2>1 DEF Adds
  <1> DEFINE x == CHOOSE x \in s : TRUE
             rest == s \ {x}
  <1>7. x \in s
    BY <1>6
  <1>8. iter[s] = a[x] + iter[rest]
    BY <1>1, <1>6
  <1> HIDE DEF x
  <1>9. rest \in SUBSET S /\ Cardinality(rest) = c - 1
    BY <1>2, <1>4, <1>7, FS_RemoveElement
  <1>10. iter[rest] = SumOf(a, n, rest)
    <2>1. Cardinality(rest) \in Nat /\ ~(c <= Cardinality(rest)) /\ c \in Nat
      BY <1>2, <1>3, <1>9
    <2>2. Cardinality(rest) \notin Wrong
      <3> HIDE DEF Wrong, rest
      <3> QED
        BY <1>3, <2>1
    <2> QED
      BY <1>9, <2>1, <2>2
  <1> HIDE DEF Wrong
  <1>11. SumOf(a, n, s) = a[x] + SumOf(a, n, s \ {x})
    <2>1. Adds(a, n, s)
      BY <1>5, SumOfStep, Zenon
    <2> QED
      BY <1>7, <2>1, Zenon DEF Adds
  <1> QED
    BY <1>4, <1>8, <1>10, <1>11

\* The function SumOver picks with is defined.
LEMMA PicksExist ==
    ASSUME NEW n \in Nat, NEW S \in SUBSET (1 .. n), NEW a \in [1 .. n -> Nat]
    PROVE  \E iter : Picks(a, S, iter)
  <1> DEFINE w == [s \in SUBSET S |-> SumOf(a, n, s)]
  <1>1. ASSUME NEW s \in SUBSET S
        PROVE  w[s] = IF s = {} THEN 0
                      ELSE a[CHOOSE x \in s : TRUE] + w[s \ {CHOOSE x \in s : TRUE}]
    <2>1. s \in SUBSET (1 .. n)
      OBVIOUS
    <2>0. Adds(a, n, s)
      BY <2>1, SumOfStep, Zenon
    <2>2. CASE s = {}
      BY <2>0, <2>2 DEF Adds
    <2>3. CASE s # {}
      <3> DEFINE x == CHOOSE x \in s : TRUE
      <3>1. x \in s
        BY <2>3
      <3> HIDE DEF x
      <3>2. w[s] = SumOf(a, n, s) /\ w[s \ {x}] = SumOf(a, n, s \ {x})
        OBVIOUS
      <3>3. w[s] = a[x] + w[s \ {x}]
        BY <2>0, <3>1, <3>2 DEF Adds
      <3> QED
        BY <2>3, <3>3 DEF x
    <2> QED
      BY <2>2, <2>3
  <1>2. w = [s \in SUBSET S |-> w[s]]
    OBVIOUS
  <1> HIDE DEF w
  <1>3. Picks(a, S, w)
    BY <1>1, <1>2 DEF Picks
  <1> QED
    BY <1>3

\* What SumOver makes of the prices of an order, and of the lines it kept.
LEMMA GrossIs ==
    ASSUME NEW n \in Nat, Line = 1 .. n
    PROVE  SumOver(Line, LAMBDA l : Price[l]) = SumOf(Price, n, Line)
  <1> DEFINE F(w) == [s \in SUBSET Line |->
                        IF s = {} THEN 0
                        ELSE Price[CHOOSE x \in s : TRUE] + w[s \ {CHOOSE x \in s : TRUE}]]
             iter == CHOOSE w : w = F(w)
  <1>1. SumOver(Line, LAMBDA l : Price[l]) = iter[Line]
    BY DEF SumOver, MapThenSumSet, MapThenFoldSet
  <1>2. Price \in [1 .. n -> Nat] /\ Line \in SUBSET (1 .. n)
    BY LineAssumption
  <1>3. \E w : w = F(w)
    <2>1. \E w : Picks(Price, Line, w)
      BY <1>2, PicksExist
    <2> QED
      BY <2>1 DEF Picks
  <1>4. iter = F(iter)
    <2> HIDE DEF F
    <2> QED
      BY <1>3
  <1> HIDE DEF iter
  <1>5. Picks(Price, Line, iter)
    BY <1>4 DEF Picks
  <1> QED
    BY <1>1, <1>2, <1>5, PicksAreTheSum

\* The price each line is delivered at.
Effective(lines) == [l \in Line |-> EffectivePrice(lines, l)]

\* picked_amount is the sum of the prices the kept lines are delivered at.
LEMMA KeptSumIs ==
    ASSUME NEW n \in Nat, Line = 1 .. n, NEW lines \in [Line -> LineFates]
    PROVE  /\ SumOver(Kept(lines), LAMBDA l : EffectivePrice(lines, l))
                = SumOf(Effective(lines), n, Kept(lines))
           /\ Effective(lines) \in [1 .. n -> Nat]
           /\ Kept(lines) \in SUBSET (1 .. n)
  <1> DEFINE kept == Kept(lines)
             a == Effective(lines)
             F(w) == [s \in SUBSET kept |->
                        IF s = {} THEN 0
                        ELSE EffectivePrice(lines, CHOOSE x \in s : TRUE)
                               + w[s \ {CHOOSE x \in s : TRUE}]]
             iter == CHOOSE w : w = F(w)
  <1>1. SumOver(kept, LAMBDA l : EffectivePrice(lines, l)) = iter[kept]
    BY DEF SumOver, MapThenSumSet, MapThenFoldSet
  <1>2. kept \in SUBSET (1 .. n)
    BY DEF Kept
  <1>3. a \in [1 .. n -> Nat]
    BY LineAssumption DEF Effective, EffectivePrice
  <1>4. ASSUME NEW w
        PROVE  Picks(a, kept, w) <=> w = F(w)
    <2>1. \A s \in SUBSET kept : s # {} =>
            a[CHOOSE x \in s : TRUE] = EffectivePrice(lines, CHOOSE x \in s : TRUE)
      <3> TAKE s \in SUBSET kept
      <3> HAVE s # {}
      <3> DEFINE x == CHOOSE x \in s : TRUE
      <3>1. x \in Line
        BY <1>2
      <3> HIDE DEF x
      <3>2. a[x] = EffectivePrice(lines, x)
        BY <3>1 DEF Effective
      <3> QED
        BY <3>2 DEF x
    <2> HIDE DEF kept, a
    <2>2. F(w) = [s \in SUBSET kept |->
                    IF s = {} THEN 0
                    ELSE a[CHOOSE x \in s : TRUE] + w[s \ {CHOOSE x \in s : TRUE}]]
      BY <2>1
    <2> QED
      BY <2>2 DEF Picks
  <1> HIDE DEF F, kept, a
  <1>5. iter = F(iter)
    BY <1>2, <1>3, <1>4, PicksExist
  <1> HIDE DEF iter
  <1>6. iter[kept] = SumOf(a, n, kept)
    BY <1>2, <1>3, <1>4, <1>5, PicksAreTheSum
  <1> QED
    BY <1>1, <1>2, <1>3, <1>6 DEF kept, a

-----------------------------------------------------------------------------
(* What picking emits, line after line.                                    *)

\* What FlattenSeq joins, up to the k-th.
Joined(seqs, n, u) ==
    u = [k \in 1 .. n |-> IF k = 1 THEN seqs[k] ELSE u[k - 1] \o seqs[k]]

\* FlattenSeq joins the sequences one after another.
LEMMA JoinedExists ==
    ASSUME NEW seqs, NEW n \in Nat
    PROVE  \E u : Joined(seqs, n, u)
  <1> DEFINE S == {m \in Nat : ~ \E u : Joined(seqs, m, u)}
  <1> SUFFICES ASSUME S # {}
               PROVE  FALSE
    OBVIOUS
  <1>1. PICK m \in S : \A x \in S : m <= x
    <2>1. S \in SUBSET Nat
      OBVIOUS
    <2> HIDE DEF S
    <2> QED
      BY <2>1, LeastExists
  <1>2. CASE m = 0
    <2> DEFINE w == [k \in 1 .. 0 |-> 0]
    <2>1. w = [k \in 1 .. 0 |-> IF k = 1 THEN seqs[k] ELSE w[k - 1] \o seqs[k]]
      OBVIOUS
    <2> QED
      BY <1>2, <2>1 DEF Joined
  <1>3. CASE m # 0
    <2>1. m - 1 \in Nat /\ m - 1 \notin S
      BY <1>1, <1>3
    <2>2. PICK u : Joined(seqs, m - 1, u)
      BY <2>1
    <2> DEFINE w == [k \in 1 .. m |-> IF k = m /\ m # 1 THEN u[m - 1] \o seqs[m]
                                      ELSE IF k = m THEN seqs[m] ELSE u[k]]
    <2>3. \A k \in 1 .. m - 1 : u[k] = IF k = 1 THEN seqs[k] ELSE u[k - 1] \o seqs[k]
      <3> HIDE DEF S
      <3> QED
        BY <2>2 DEF Joined
    <2>4. \A k \in 1 .. m : w[k] = IF k = 1 THEN seqs[k] ELSE w[k - 1] \o seqs[k]
      <3> TAKE k \in 1 .. m
      <3>1. CASE k = m
        BY <3>1, <1>3
      <3>2. CASE k # m
        <4>1. k \in 1 .. m - 1 /\ w[k] = u[k]
          BY <3>2
        <4>2. k # 1 => w[k - 1] = u[k - 1]
          BY <3>2
        <4> QED
          BY <2>3, <4>1, <4>2
      <3> QED
        BY <3>1, <3>2
    <2>5. w = [k \in 1 .. m |-> w[k]]
      OBVIOUS
    <2>6. w = [k \in 1 .. m |-> IF k = 1 THEN seqs[k] ELSE w[k - 1] \o seqs[k]]
      <3> HIDE DEF w
      <3> QED
        BY <2>4, <2>5
    <2> QED
      BY <2>6, <1>1 DEF Joined
  <1> QED
    BY <1>2, <1>3

\* seq has, once each, what x gives for the members of C up to k.
Once(seq, x, C, k) ==
    /\ seq \in Seq({x[l] : l \in C})
    /\ \A j \in DOMAIN seq : \E l \in C : l <= k /\ seq[j] = x[l]
    /\ \A l \in C : l <= k => \E j \in DOMAIN seq : seq[j] = x[l]
    /\ \A i \in DOMAIN seq : \A j \in DOMAIN seq : i # j => seq[i] # seq[j]

\* One line more: it was not among the ones before it.
LEMMA OnceMore ==
    ASSUME NEW n \in Nat, NEW C \in SUBSET (1 .. n), NEW x,
           \A l \in C : \A m \in C : x[l] = x[m] => l = m,
           NEW k \in 1 .. n, NEW seq, Once(seq, x, C, k - 1)
    PROVE  /\ k \in C => Once(seq \o << x[k] >>, x, C, k)
           /\ k \notin C => Once(seq \o << >>, x, C, k)
  <1> DEFINE X == {x[l] : l \in C}
  <1>1. /\ seq \in Seq(X)
        /\ \A j \in DOMAIN seq : \E l \in C : l <= k - 1 /\ seq[j] = x[l]
        /\ \A l \in C : l <= k - 1 => \E j \in DOMAIN seq : seq[j] = x[l]
        /\ \A i \in DOMAIN seq : \A j \in DOMAIN seq : i # j => seq[i] # seq[j]
    BY DEF Once
  <1>2. \A l \in C : l \in Nat /\ (l <= k <=> l <= k - 1 \/ l = k)
    OBVIOUS
  <1>3. ASSUME k \notin C
        PROVE  Once(seq \o << >>, x, C, k)
    <2>1. seq \o << >> = seq
      BY <1>1, ConcatEmptySeq, Zenon
    <2>2. \A l \in C : l <= k <=> l <= k - 1
      BY <1>2, <1>3
    <2> QED
      BY <1>1, <2>1, <2>2 DEF Once
  <1>4. ASSUME k \in C
        PROVE  Once(seq \o << x[k] >>, x, C, k)
    <2> DEFINE more == seq \o << x[k] >>
               len  == Len(seq)
    <2>1. /\ more \in Seq(X)
          /\ DOMAIN more = 1 .. len + 1 /\ DOMAIN seq = 1 .. len /\ len \in Nat
          /\ \A j \in 1 .. len : more[j] = seq[j]
          /\ more[len + 1] = x[k]
      <3>1. x[k] \in X
        BY <1>4
      <3> HIDE DEF X
      <3> QED
        BY <1>1, <3>1
    <2> HIDE DEF X, more, len
    <2>2. \A j \in 1 .. len + 1 : j \in 1 .. len \/ j = len + 1
      BY <2>1
    <2>3. \A j \in 1 .. len : j # len + 1 /\ j \in 1 .. len + 1
      BY <2>1
    <2>4. len + 1 \in 1 .. len + 1 /\ k <= k /\ ~(k <= k - 1)
      BY <2>1
    <2>5. \A j \in DOMAIN more : \E l \in C : l <= k /\ more[j] = x[l]
      BY <1>1, <1>2, <1>4, <2>1, <2>2, <2>4
    <2>6. ASSUME NEW l \in C, l <= k
          PROVE  \E j \in DOMAIN more : more[j] = x[l]
      <3>1. CASE l = k
        BY <2>1, <2>4, <3>1
      <3>2. CASE l # k
        <4>1. PICK j \in 1 .. len : seq[j] = x[l]
          BY <1>1, <1>2, <2>1, <2>6, <3>2
        <4> QED
          BY <2>1, <2>3, <4>1
      <3> QED
        BY <3>1, <3>2
    <2>7. ASSUME NEW j \in 1 .. len
          PROVE  seq[j] # x[k]
      <3>1. PICK l \in C : l <= k - 1 /\ seq[j] = x[l]
        BY <1>1, <2>1
      <3>2. l # k
        BY <2>4, <3>1
      <3> QED
        BY <1>4, <3>1, <3>2
    <2>8. \A i \in DOMAIN more : \A j \in DOMAIN more : i # j => more[i] # more[j]
      BY <1>1, <2>1, <2>2, <2>7
    <2> QED
      BY <2>1, <2>5, <2>6, <2>8 DEF Once, X, more
  <1> QED
    BY <1>3, <1>4

\* Joined line after line, what each line gives is there once.
LEMMA FlattenedOnce ==
    ASSUME NEW n \in Nat \ {0}, NEW C \in SUBSET (1 .. n), NEW x,
           \A l \in C : \A m \in C : x[l] = x[m] => l = m,
           NEW seqs, DOMAIN seqs = 1 .. n, Len(seqs) = n,
           \A l \in 1 .. n : seqs[l] = IF l \in C THEN << x[l] >> ELSE << >>
    PROVE  Once(FlattenSeq(seqs), x, C, n)
  <1> DEFINE u == CHOOSE u : u = [k \in 1 .. n |-> IF k = 1 THEN seqs[k] ELSE u[k - 1] \o seqs[k]]
  <1>1. PICK v : Joined(seqs, n, v)
    BY JoinedExists
  <1>2. u = [k \in 1 .. n |-> IF k = 1 THEN seqs[k] ELSE u[k - 1] \o seqs[k]]
    BY <1>1 DEF Joined
  <1>3. \A k \in 1 .. n : u[k] = IF k = 1 THEN seqs[k] ELSE u[k - 1] \o seqs[k]
    <2> HIDE DEF u
    <2> QED
      BY <1>2
  <1>4. FlattenSeq(seqs) = u[n]
    BY DEF FlattenSeq
  <1> HIDE DEF u
  <1> DEFINE B == {k \in 1 .. n : ~Once(u[k], x, C, k)}
  <1>5. B = {}
    <2> SUFFICES ASSUME B # {}
                 PROVE  FALSE
      OBVIOUS
    <2>1. PICK k \in B : \A y \in B : k <= y
      <3>1. B \in SUBSET Nat
        OBVIOUS
      <3> HIDE DEF B
      <3> QED
        BY <3>1, LeastExists
    <2>2. k \in 1 .. n /\ ~Once(u[k], x, C, k)
      BY <2>1
    <2>3. PICK before : /\ Once(before, x, C, k - 1)
                        /\ u[k] = before \o seqs[k]
      <3>1. CASE k = 1
        <4>1. Once(<< >>, x, C, 0)
          BY DEF Once
        <4>2. u[k] = << >> \o seqs[k]
          <5>1. u[1] = seqs[1] /\ seqs[1] = IF 1 \in C THEN << x[1] >> ELSE << >>
            BY <1>3, 1 \in 1 .. n
          <5>2. << >> \o seqs[1] = seqs[1]
            BY <5>1
          <5> QED
            BY <3>1, <5>1, <5>2
        <4>3. k - 1 = 0
          BY <3>1
        <4> QED
          BY <4>1, <4>2, <4>3
      <3>2. CASE k # 1
        <4>1. k - 1 \in 1 .. n /\ ~(k <= k - 1)
          BY <2>2, <3>2
        <4>2. k - 1 \notin B
          <5> HIDE DEF B
          <5> QED
            BY <2>1, <4>1
        <4>3. u[k] = u[k - 1] \o seqs[k]
          BY <1>3, <2>2, <3>2
        <4> QED
          BY <4>1, <4>2, <4>3
      <3> QED
        BY <3>1, <3>2
    <2>4. seqs[k] = IF k \in C THEN << x[k] >> ELSE << >>
      BY <2>2
    <2> HIDE DEF B
    <2>5. CASE k \in C
      BY <2>2, <2>3, <2>4, <2>5, OnceMore
    <2>6. CASE k \notin C
      BY <2>2, <2>3, <2>4, <2>6, OnceMore
    <2> QED
      BY <2>5, <2>6
  <1> QED
    BY <1>4, <1>5

-----------------------------------------------------------------------------
(* The events of a lifecycle, position by position.                        *)

\* How many lines the order has, and that they are numbered from 1.
Lines == Cardinality(Line)

LEMMA LinesAre == Lines \in Nat \ {0} /\ Line = 1 .. Lines
  <1>1. Lines \in Nat /\ Line = 1 .. Lines /\ Line # {}
    BY LineAssumption, FS_CardinalityType DEF Lines
  <1> QED
    BY <1>1

\* The lines picking changes, and what it emits for each of them.
Changed(lines) == {l \in Line : lines[l] # "fulfilled"}

Change(lines) ==
    [l \in Line |->
        IF lines[l] = "substituted"
        THEN Draft("order_line_substituted",
                   [line_no |-> l, substitute_unit_price |-> SubstitutePrice[l]])
        ELSE Draft("order_line_removed", [line_no |-> l])]

Changes(lines) == FlattenSeq([l \in 1 .. Lines |-> LineDrafts(lines, l)])

\* The event of a line says which line it is of.
LEMMA ChangeIsOfItsLine ==
    ASSUME NEW lines, NEW l \in Line
    PROVE  /\ Change(lines)[l].payload.line_no = l
           /\ Change(lines)[l].event_type \in LineEvents
           /\ Change(lines)[l].event_type = "order_line_substituted" =>
                /\ lines[l] = "substituted"
                /\ Change(lines)[l].payload.substitute_unit_price = SubstitutePrice[l]
           /\ Change(lines)[l].event_type = "order_line_removed" => lines[l] # "substituted"
  BY DEF Change, Draft, LineEvents

\* Each changed line has one event, and no other line has any.
LEMMA ChangesOnce ==
    ASSUME NEW lines \in [Line -> LineFates]
    PROVE  Once(Changes(lines), Change(lines), Changed(lines), Lines)
  <1> DEFINE x    == Change(lines)
             C    == Changed(lines)
             seqs == [l \in 1 .. Lines |-> LineDrafts(lines, l)]
  <1>1. Lines \in Nat \ {0} /\ Line = 1 .. Lines
    BY LinesAre
  <1>2. C \in SUBSET (1 .. Lines)
    BY <1>1 DEF Changed
  <1>3. \A l \in C : \A m \in C : x[l] = x[m] => l = m
    <2>1. \A l \in Line : x[l].payload.line_no = l
      BY ChangeIsOfItsLine
    <2> HIDE DEF x
    <2> QED
      BY <1>1, <1>2, <2>1
  <1>4. DOMAIN seqs = 1 .. Lines /\ Len(seqs) = Lines
    <2>1. DOMAIN seqs = 1 .. Lines
      OBVIOUS
    <2> HIDE DEF seqs
    <2>2. seqs \in Seq({seqs[l] : l \in 1 .. Lines})
      <3>1. seqs = [l \in 1 .. Lines |-> seqs[l]]
        BY DEF seqs
      <3> QED
        BY <1>1, <3>1
    <2> QED
      BY <1>1, <2>1, <2>2
  <1>5. \A l \in 1 .. Lines : seqs[l] = IF l \in C THEN << x[l] >> ELSE << >>
    <2> TAKE l \in 1 .. Lines
    <2>1. l \in Line /\ lines[l] \in LineFates
      BY <1>1
    <2>2. seqs[l] = LineDrafts(lines, l)
      OBVIOUS
    <2>3. CASE lines[l] = "fulfilled"
      BY <2>1, <2>2, <2>3 DEF LineDrafts, Changed
    <2>4. CASE lines[l] = "substituted"
      BY <2>1, <2>2, <2>4 DEF LineDrafts, Changed, Change
    <2>5. CASE lines[l] = "removed"
      BY <2>1, <2>2, <2>5 DEF LineDrafts, Changed, Change
    <2> QED
      BY <2>1, <2>3, <2>4, <2>5 DEF LineFates
  <1> HIDE DEF seqs, x, C
  <1>6. Once(FlattenSeq(seqs), x, C, Lines)
    BY <1>1, <1>2, <1>3, <1>4, <1>5, FlattenedOnce
  <1> QED
    BY <1>6 DEF seqs, x, C, Changes

\* The lifecycles that are picked.
IsPicked(fate) == fate.outcome \notin {"payment_failed", "cancelled"}

\* The drafts of an order whose picking emits F.
DraftsWith(fate, F, m, D) ==
    /\ D \in Seq({D[i] : i \in DOMAIN D})
    /\ DOMAIN D = 1 .. Len(D)
    /\ Len(D) = CASE fate.outcome = "payment_failed" -> 2
                  [] fate.outcome = "cancelled" -> 3
                  [] fate.outcome = "returned" -> m + 7
                  [] OTHER -> m + 6
    /\ D[1] = Placed
    /\ fate.outcome = "payment_failed" => D[2] = Bare("order_payment_failed")
    /\ fate.outcome = "cancelled" =>
         D[2] = Bare("order_payment_authorized") /\ D[3] = Bare("order_cancelled")
    /\ IsPicked(fate) =>
         /\ D[2] = Bare("order_payment_authorized") /\ D[3] = Bare("order_picking_started")
         /\ \A j \in 1 .. m : D[j + 3] = F[j]
         /\ D[m + 4] = Picked(fate.lines) /\ D[m + 5] = Bare("order_dispatched")
         /\ D[m + 6] = IF fate.outcome = "delivery_failed" THEN Bare("order_delivery_failed")
                       ELSE Bare("order_delivered")
         /\ fate.outcome = "returned" => D[m + 7] = Returned(fate)

\* A sequence with one more element in front.
After(a, s) == << a >> \o s

IsAfter(t, a, s) ==
    /\ Len(t) = Len(s) + 1
    /\ t[1] = a
    /\ Len(s) \in Nat
    /\ \A j \in 1 .. Len(s) : t[j + 1] = s[j]

\* Putting an element in front moves the others by one.
LEMMA AfterIs ==
    ASSUME NEW S, NEW a \in S, NEW s \in Seq(S)
    PROVE  After(a, s) \in Seq(S) /\ IsAfter(After(a, s), a, s)
  BY DEF After, IsAfter

\* What Drafts puts around the changes of an order that is picked.
Wrap(a, b, c, F, d, e, tail) == After(a, After(b, After(c, F) \o << d, e >>) \o tail)

IsWrap(D, a, b, c, F, d, e, tail) ==
    /\ Len(D) = Len(F) + 5 + Len(tail)
    /\ D[1] = a /\ D[2] = b /\ D[3] = c
    /\ \A j \in 1 .. Len(F) : D[j + 3] = F[j]
    /\ D[Len(F) + 4] = d /\ D[Len(F) + 5] = e
    /\ \A j \in 1 .. Len(tail) : D[Len(F) + 5 + j] = tail[j]

\* Where each element of such a sequence is.
LEMMA Wrapped ==
    ASSUME NEW S, NEW F \in Seq(S), NEW a \in S, NEW b \in S, NEW c \in S, NEW d \in S,
           NEW e \in S, NEW tail \in Seq(S), NEW D, D = Wrap(a, b, c, F, d, e, tail)
    PROVE  D \in Seq(S) /\ IsWrap(D, a, b, c, F, d, e, tail)
  <1> DEFINE p == After(c, F)
             q == p \o << d, e >>
             r == After(b, q)
             s == r \o tail
             m == Len(F)
  <1>1. /\ p \in Seq(S) /\ Len(p) = m + 1 /\ p[1] = c /\ m \in Nat
        /\ \A j \in 1 .. m : p[j + 1] = F[j]
    <2>1. p \in Seq(S) /\ IsAfter(p, c, F)
      BY AfterIs
    <2> HIDE DEF p
    <2> QED
      BY <2>1 DEF IsAfter
  <1> HIDE DEF p
  <1>2. /\ q \in Seq(S) /\ Len(q) = m + 3 /\ q[1] = c
        /\ \A j \in 1 .. m : q[j + 1] = F[j]
        /\ q[m + 2] = d /\ q[m + 3] = e
    BY <1>1
  <1> HIDE DEF q
  <1>3. /\ r \in Seq(S) /\ Len(r) = m + 4 /\ r[1] = b /\ r[2] = c
        /\ \A j \in 1 .. m : r[j + 2] = F[j]
        /\ r[m + 3] = d /\ r[m + 4] = e
    <2>1. /\ r \in Seq(S) /\ Len(r) = Len(q) + 1 /\ r[1] = b
          /\ \A j \in 1 .. Len(q) : r[j + 1] = q[j]
      <3>1. r \in Seq(S) /\ IsAfter(r, b, q)
        BY <1>2, AfterIs
      <3> QED
        BY <3>1 DEF IsAfter
    <2> HIDE DEF r, m
    <2>2. /\ r[1 + 1] = q[1] /\ r[(m + 2) + 1] = q[m + 2] /\ r[(m + 3) + 1] = q[m + 3]
          /\ \A j \in 1 .. m : r[(j + 1) + 1] = q[j + 1]
      BY <1>1, <1>2, <2>1
    <2> QED
      BY <1>1, <1>2, <2>1, <2>2
  <1> HIDE DEF r
  <1>4. /\ s \in Seq(S) /\ Len(s) = m + 4 + Len(tail) /\ s[1] = b /\ s[2] = c
        /\ \A j \in 1 .. m : s[j + 2] = F[j]
        /\ s[m + 3] = d /\ s[m + 4] = e
        /\ \A j \in 1 .. Len(tail) : s[m + 4 + j] = tail[j]
    <2>1. /\ s \in Seq(S) /\ Len(s) = Len(r) + Len(tail) /\ Len(tail) \in Nat
          /\ \A i \in 1 .. Len(r) + Len(tail) :
               s[i] = IF i <= Len(r) THEN r[i] ELSE tail[i - Len(r)]
      BY <1>3, ConcatProperties, LenProperties, Zenon
    <2> HIDE DEF s, m
    <2>2. \A i \in 1 .. m + 4 : s[i] = r[i]
      BY <1>1, <1>3, <2>1
    <2>3. \A j \in 1 .. Len(tail) : s[m + 4 + j] = tail[j]
      BY <1>1, <1>3, <2>1
    <2>4. {1, 2, m + 3, m + 4} \subseteq 1 .. m + 4 /\ \A j \in 1 .. m : j + 2 \in 1 .. m + 4
      BY <1>1
    <2> QED
      BY <1>3, <2>1, <2>2, <2>3, <2>4
  <1> HIDE DEF s
  <1>5. D = After(a, s)
    BY DEF Wrap, s, r, q, p
  <1>6. /\ D \in Seq(S) /\ Len(D) = Len(s) + 1 /\ D[1] = a /\ Len(s) \in Nat
        /\ \A j \in 1 .. Len(s) : D[j + 1] = s[j]
    <2>1. D \in Seq(S) /\ IsAfter(D, a, s)
      BY <1>4, <1>5, AfterIs
    <2> QED
      BY <2>1 DEF IsAfter
  <1> HIDE DEF m
  <1>7. /\ D[1 + 1] = s[1] /\ D[2 + 1] = s[2]
        /\ D[(m + 3) + 1] = s[m + 3] /\ D[(m + 4) + 1] = s[m + 4]
        /\ \A j \in 1 .. m : D[(j + 2) + 1] = s[j + 2]
        /\ \A j \in 1 .. Len(tail) : D[(m + 4 + j) + 1] = s[m + 4 + j]
    BY <1>1, <1>4, <1>6
  <1>8. Len(D) = m + 5 + Len(tail) /\ Len(tail) \in Nat
    BY <1>1, <1>4, <1>6
  <1>9. \A j \in 1 .. m : D[j + 3] = F[j]
    BY <1>1, <1>4, <1>7
  <1>10. \A j \in 1 .. Len(tail) : D[m + 5 + j] = tail[j]
    BY <1>1, <1>4, <1>7, <1>8
  <1>11. D[2] = b /\ D[3] = c /\ D[m + 4] = d /\ D[m + 5] = e
    BY <1>1, <1>4, <1>7
  <1> QED
    BY <1>6, <1>8, <1>9, <1>10, <1>11 DEF m, IsWrap

\* Every draft of a lifecycle, by its position.
LEMMA DraftsAre ==
    ASSUME NEW fate \in Fates
    PROVE  /\ DraftsWith(fate, Changes(fate.lines), Len(Changes(fate.lines)), Drafts(fate))
           /\ Len(Changes(fate.lines)) \in Nat
  <1> DEFINE F == Changes(fate.lines)
             D == Drafts(fate)
  <1>1. fate.lines \in [Line -> LineFates] /\ fate.outcome \in Outcomes
    BY DEF Fates
  <1>2. F \in Seq({Change(fate.lines)[l] : l \in Changed(fate.lines)})
    BY <1>1, ChangesOnce DEF Once
  <1> DEFINE C == {Change(fate.lines)[l] : l \in Changed(fate.lines)}
             S == C \union {Placed, Picked(fate.lines), Returned(fate)}
                    \union {Bare(kind) : kind \in EventTypes}
  <1>3. F \in Seq(S) /\ Len(F) \in Nat
    <2>1. C \subseteq S
      OBVIOUS
    <2> HIDE DEF F, C, S
    <2> QED
      BY <1>2, <2>1, SeqMonotonic, LenProperties, Zenon DEF C
  <1>4. ASSUME NEW X, X \in Seq(S)
        PROVE  X \in Seq({X[i] : i \in DOMAIN X}) /\ DOMAIN X = 1 .. Len(X)
    <2> HIDE DEF S
    <2>1. DOMAIN X = 1 .. Len(X) /\ Len(X) \in Nat /\ X = [i \in 1 .. Len(X) |-> X[i]]
      BY <1>4
    <2> DEFINE n == Len(X)
               T == {X[i] : i \in DOMAIN X}
    <2>2. n \in Nat /\ X = [i \in 1 .. n |-> X[i]] /\ \A i \in 1 .. n : X[i] \in T
      BY <2>1
    <2> HIDE DEF n, T
    <2>3. X \in [1 .. n -> T]
      BY <2>2
    <2>4. X \in Seq(T)
      BY <2>2, <2>3
    <2> QED
      BY <2>1, <2>4 DEF T
  <1>5. CASE fate.outcome = "payment_failed"
    <2>1. D = << Placed >> \o << Bare("order_payment_failed") >>
      BY <1>5 DEF Drafts
    <2>2. D \in Seq(S) /\ Len(D) = 2 /\ D[1] = Placed /\ D[2] = Bare("order_payment_failed")
      <3>1. Placed \in S /\ Bare("order_payment_failed") \in S
        BY DEF EventTypes
      <3> HIDE DEF S, D
      <3> QED
        BY <2>1, <3>1
    <2> HIDE DEF D, F, S
    <2> QED
      BY <1>3, <1>4, <1>5, <2>2 DEF DraftsWith, IsPicked, D, F
  <1>6. CASE fate.outcome = "cancelled"
    <2>1. D = << Placed >> \o << Bare("order_payment_authorized"), Bare("order_cancelled") >>
      BY <1>6 DEF Drafts
    <2>2. /\ D \in Seq(S) /\ Len(D) = 3 /\ D[1] = Placed
          /\ D[2] = Bare("order_payment_authorized") /\ D[3] = Bare("order_cancelled")
      <3>1. {Placed, Bare("order_payment_authorized"), Bare("order_cancelled")} \subseteq S
        BY DEF EventTypes
      <3> HIDE DEF S, D
      <3> QED
        BY <2>1, <3>1
    <2> HIDE DEF D, F, S
    <2> QED
      BY <1>3, <1>4, <1>6, <2>2 DEF DraftsWith, IsPicked, D, F
  <1>7. CASE fate.outcome \in {"delivery_failed", "delivered", "returned"}
    <2> DEFINE tail == CASE fate.outcome = "delivery_failed" -> << Bare("order_delivery_failed") >>
                         [] fate.outcome = "delivered"       -> << Bare("order_delivered") >>
                         [] fate.outcome = "returned"        ->
                              << Bare("order_delivered"), Returned(fate) >>
    <2>1. D = Wrap(Placed, Bare("order_payment_authorized"), Bare("order_picking_started"), F,
                   Picked(fate.lines), Bare("order_dispatched"), tail)
      BY <1>7 DEF Drafts, Picking, Changes, Lines, Wrap, After
    <2>2. /\ \A kind \in EventTypes : Bare(kind) \in S
          /\ {Placed, Picked(fate.lines), Returned(fate)} \subseteq S
      OBVIOUS
    <2>3. /\ Bare("order_payment_authorized") \in S /\ Bare("order_picking_started") \in S
          /\ Bare("order_dispatched") \in S /\ Bare("order_delivered") \in S
          /\ Bare("order_delivery_failed") \in S
      <3> HIDE DEF S
      <3> QED
        BY <2>2 DEF EventTypes
    <2> HIDE DEF S, F
    <2>4. /\ tail \in Seq(S)
          /\ Len(tail) = IF fate.outcome = "returned" THEN 2 ELSE 1
          /\ tail[1] = IF fate.outcome = "delivery_failed" THEN Bare("order_delivery_failed")
                       ELSE Bare("order_delivered")
          /\ fate.outcome = "returned" => tail[2] = Returned(fate)
      BY <1>7, <2>2, <2>3
    <2> HIDE DEF tail, D
    <2>5. /\ D \in Seq(S) /\ Len(D) = Len(F) + 5 + Len(tail)
          /\ D[1] = Placed /\ D[2] = Bare("order_payment_authorized")
          /\ D[3] = Bare("order_picking_started")
          /\ \A j \in 1 .. Len(F) : D[j + 3] = F[j]
          /\ D[Len(F) + 4] = Picked(fate.lines) /\ D[Len(F) + 5] = Bare("order_dispatched")
          /\ \A j \in 1 .. Len(tail) : D[Len(F) + 5 + j] = tail[j]
      <3>1. F \in Seq(S) /\ tail \in Seq(S) /\ Placed \in S /\ Picked(fate.lines) \in S
        BY <1>3, <2>2, <2>4
      <3> HIDE DEF C
      <3>2. D \in Seq(S) /\ IsWrap(D, Placed, Bare("order_payment_authorized"),
                                   Bare("order_picking_started"), F, Picked(fate.lines),
                                   Bare("order_dispatched"), tail)
        BY <2>1, <2>3, <3>1, Wrapped
      <3> QED
        BY <3>2 DEF IsWrap
    <2>6. /\ D[Len(F) + 6] = tail[1]
          /\ fate.outcome = "returned" => D[Len(F) + 7] = tail[2]
      BY <1>3, <2>4, <2>5
    <2>7. Len(D) = IF fate.outcome = "returned" THEN Len(F) + 7 ELSE Len(F) + 6
      BY <1>3, <2>4, <2>5
    <2>8. D \in Seq({D[i] : i \in DOMAIN D}) /\ DOMAIN D = 1 .. Len(D)
      BY <1>4, <2>5
    <2>9. DraftsWith(fate, F, Len(F), D)
      BY <1>3, <1>7, <2>4, <2>5, <2>6, <2>7, <2>8 DEF DraftsWith, IsPicked
    <2> QED
      BY <1>3, <2>9 DEF F, D
  <1> QED
    BY <1>1, <1>5, <1>6, <1>7 DEF Outcomes

\* The lines the first n events of a log changed.
Touched(log, n) ==
    {log[i].payload.line_no : i \in {j \in 1 .. n : log[j].event_type \in LineEvents}}

\* Each event takes the order on from the state the one before it left.
IsLegal(log) ==
    \A i \in 1 .. Len(log) - 1 :
        SourceAfter[log[i].event_type] \in SourceBefore[log[i + 1].event_type]

\* What the i-th event says is what happened to the order.
IsTrue(log, fate, i) ==
    LET kind    == log[i].event_type
        payload == log[i].payload
        lines   == fate.lines
    IN  /\ kind = "order_placed" => payload = Placed.payload
        /\ kind \in LineEvents =>
             payload.line_no \in Changed(lines) \ Touched(log, i - 1)
        /\ kind = "order_line_substituted" =>
             /\ lines[payload.line_no] = "substituted"
             /\ payload.substitute_unit_price = SubstitutePrice[payload.line_no]
        /\ kind = "order_line_removed" => lines[payload.line_no] = "removed"
        /\ kind \in {"order_payment_failed", "order_cancelled"} => Touched(log, i) = {}
        /\ kind = "order_picked" =>
             payload = Picked(lines).payload /\ Touched(log, i - 1) = Changed(lines)
        /\ kind = "order_returned" =>
             payload = Returned(fate).payload /\ fate.returned \in Kept(lines)

\* A log as the source writes it for an order of that fate.
Tells(log, fate) ==
    /\ IsOrderLog(log) /\ Len(log) > 0
    /\ IsLegal(log)
    /\ \A i \in 1 .. Len(log) : IsTrue(log, fate, i)

\* The events of a log are the drafts D, numbered.
Numbers(log, D) ==
    /\ DOMAIN log = 1 .. Len(D) /\ Len(log) = Len(D)
    /\ log \in Seq(Range(log))
    /\ \A i \in 1 .. Len(D) : /\ log[i].sequence_no = i
                              /\ log[i].event_type = D[i].event_type
                              /\ log[i].payload = D[i].payload

\* A lifecycle is its drafts, numbered as `emit` numbers them.
LEMMA LifecycleNumbers ==
    ASSUME NEW fate \in Fates, NEW o
    PROVE  Numbers(Lifecycle(o, fate), Drafts(fate))
  <1> DEFINE D   == Drafts(fate)
             log == Lifecycle(o, fate)
             n   == Len(D)
             T   == Range(log)
  <1>1. D \in Seq({D[i] : i \in DOMAIN D}) /\ DOMAIN D = 1 .. n
    BY DraftsAre DEF DraftsWith
  <1>2. n \in Nat
    BY <1>1, LenProperties, Zenon
  <1> HIDE DEF D, n
  <1>3. log = [i \in 1 .. n |-> [order_id    |-> o,
                                 sequence_no |-> i,
                                 event_type  |-> D[i].event_type,
                                 payload     |-> D[i].payload]]
    BY <1>1 DEF Lifecycle, D
  <1>4. \A i \in 1 .. n : /\ log[i].sequence_no = i
                          /\ log[i].event_type = D[i].event_type
                          /\ log[i].payload = D[i].payload
    BY <1>3
  <1>5. DOMAIN log = 1 .. n /\ log = [i \in 1 .. n |-> log[i]]
    BY <1>3
  <1> HIDE DEF log
  <1>6. \A i \in 1 .. n : log[i] \in T
    BY <1>5 DEF Range
  <1> HIDE DEF T
  <1>7. log \in [1 .. n -> T]
    BY <1>5, <1>6
  <1>8. log \in Seq(T) /\ Len(log) = n
    BY <1>2, <1>5, <1>7
  <1> QED
    BY <1>4, <1>5, <1>8 DEF Numbers, T, log, D, n

\* The kinds of the drafts.
LEMMA DraftKinds ==
    ASSUME NEW fate
    PROVE  /\ Placed.event_type = "order_placed"
           /\ \A kind : Bare(kind).event_type = kind
           /\ Picked(fate.lines).event_type = "order_picked"
           /\ Returned(fate).event_type = "order_returned"
  BY DEF Placed, Bare, Draft, Picked, Returned

\* What an order is placed for, and what is picked of it, are numbers.
LEMMA PayloadsAreNumbers ==
    ASSUME NEW fate \in Fates
    PROVE  /\ Placed.payload.line_count = Lines
           /\ Placed.payload.gross_amount = SumOf(Price, Lines, Line)
           /\ Placed.payload.lines = Price
           /\ Picked(fate.lines).payload.picked_line_count = Cardinality(Kept(fate.lines))
           /\ Picked(fate.lines).payload.picked_amount
                = SumOf(Effective(fate.lines), Lines, Kept(fate.lines))
           /\ Returned(fate).payload.returned_amount = Effective(fate.lines)[fate.returned]
           /\ SumOf(Price, Lines, Line) \in Nat
           /\ Cardinality(Kept(fate.lines)) \in Nat
           /\ SumOf(Effective(fate.lines), Lines, Kept(fate.lines)) \in Nat
           /\ Effective(fate.lines)[fate.returned] \in Nat
  <1> DEFINE lines == fate.lines
             kept  == Kept(lines)
             eff   == Effective(lines)
  <1>1. Lines \in Nat /\ Line = 1 .. Lines
    BY LinesAre
  <1>2. lines \in [Line -> LineFates] /\ fate.returned \in Line
    BY DEF Fates
  <1>3. /\ SumOver(kept, LAMBDA l : EffectivePrice(lines, l)) = SumOf(eff, Lines, kept)
        /\ eff \in [1 .. Lines -> Nat]
        /\ kept \in SUBSET (1 .. Lines)
    BY <1>1, <1>2, KeptSumIs
  <1>4. SumOver(Line, LAMBDA l : Price[l]) = SumOf(Price, Lines, Line)
    BY <1>1, GrossIs
  <1>5. Adds(Price, Lines, Line)
    BY <1>1, LineAssumption, SumOfStep
  <1>6. Adds(eff, Lines, kept)
    <2> HIDE DEF eff, kept
    <2> QED
      BY <1>1, <1>3, SumOfStep
  <1>7. Cardinality(kept) \in Nat
    <2>1. IsFiniteSet(1 .. Lines)
      BY <1>1, FS_Interval
    <2> QED
      BY <1>3, <2>1, FS_Subset, FS_CardinalityType
  <1>8. Placed.payload = [line_count   |-> Lines,
                          gross_amount |-> SumOf(Price, Lines, Line),
                          lines        |-> Price]
    BY <1>4 DEF Placed, Draft, Lines
  <1>9. Picked(lines).payload = [picked_line_count |-> Cardinality(kept),
                                 picked_amount     |-> SumOf(eff, Lines, kept)]
    BY <1>3 DEF Picked, Draft
  <1>10. Returned(fate).payload.returned_amount = eff[fate.returned]
    BY <1>2 DEF Returned, Draft, Effective
  <1>11. eff[fate.returned] \in Nat
    BY <1>1, <1>2, <1>3
  <1> QED
    BY <1>5, <1>6, <1>7, <1>8, <1>9, <1>10, <1>11 DEF Adds

\* The log of an order that is never picked.
LEMMA UnpickedTells ==
    ASSUME NEW fate \in Fates, ~IsPicked(fate), NEW log, Numbers(log, Drafts(fate))
    PROVE  Tells(log, fate)
  <1> DEFINE n == Len(log)
             last == IF fate.outcome = "cancelled" THEN "order_cancelled" ELSE "order_payment_failed"
  <1>1. /\ n = IF fate.outcome = "cancelled" THEN 3 ELSE 2
        /\ log[1].event_type = "order_placed" /\ log[1].payload = Placed.payload
        /\ n = 3 => log[2].event_type = "order_payment_authorized"
        /\ log[n].event_type = last
        /\ DOMAIN log = 1 .. n /\ log \in Seq(Range(log))
        /\ \A i \in 1 .. n : log[i].sequence_no = i
    <2> DEFINE D == Drafts(fate)
               F == Changes(fate.lines)
    <2>1. DraftsWith(fate, F, Len(F), D)
      BY DraftsAre
    <2> HIDE DEF D, F
    <2>2. /\ Len(D) = n /\ DOMAIN log = 1 .. n /\ log \in Seq(Range(log))
          /\ \A i \in 1 .. n : /\ log[i].sequence_no = i
                              /\ log[i].event_type = D[i].event_type
                              /\ log[i].payload = D[i].payload
      BY DEF Numbers, D
    <2>0. /\ Placed.event_type = "order_placed"
          /\ Bare("order_payment_authorized").event_type = "order_payment_authorized"
          /\ Bare("order_cancelled").event_type = "order_cancelled"
          /\ Bare("order_payment_failed").event_type = "order_payment_failed"
      BY DraftKinds
    <2> HIDE DEF n
    <2>3. CASE fate.outcome = "cancelled"
      <3>1. /\ Len(D) = 3 /\ D[1] = Placed
            /\ D[2] = Bare("order_payment_authorized") /\ D[3] = Bare("order_cancelled")
        BY <2>1, <2>3 DEF DraftsWith
      <3>2. n = 3 /\ {1, 2, 3} \subseteq 1 .. n
        BY <2>2, <3>1
      <3>3. /\ log[1].event_type = "order_placed" /\ log[1].payload = Placed.payload
            /\ log[2].event_type = "order_payment_authorized"
            /\ log[3].event_type = "order_cancelled"
        BY <2>0, <2>2, <3>1, <3>2
      <3> QED
        BY <2>2, <2>3, <3>2, <3>3
    <2>4. CASE fate.outcome = "payment_failed"
      <3>1. Len(D) = 2 /\ D[1] = Placed /\ D[2] = Bare("order_payment_failed")
        BY <2>1, <2>4 DEF DraftsWith
      <3>2. n = 2 /\ {1, 2} \subseteq 1 .. n
        BY <2>2, <3>1
      <3>3. /\ log[1].event_type = "order_placed" /\ log[1].payload = Placed.payload
            /\ log[2].event_type = "order_payment_failed"
        BY <2>0, <2>2, <3>1, <3>2
      <3> QED
        BY <2>2, <2>4, <3>2, <3>3
    <2> QED
      BY <2>3, <2>4 DEF IsPicked
  <1>2. 1 .. n = IF n = 3 THEN {1, 2, 3} ELSE {1, 2}
    <2>1. n = 3 \/ n = 2
      BY <1>1
    <2>2. 1 .. 3 = {1, 2, 3} /\ 1 .. 2 = {1, 2}
      OBVIOUS
    <2> HIDE DEF n
    <2> QED
      BY <2>1, <2>2
  <1>3. \A i \in 1 .. n :
          log[i].event_type = IF i = 1 THEN "order_placed"
                              ELSE IF i = n THEN last ELSE "order_payment_authorized"
    BY <1>1, <1>2
  <1>4. \A i \in 1 .. n : log[i].event_type \notin LineEvents
    BY <1>3 DEF LineEvents
  <1>5. \A i \in 1 .. n : Touched(log, i) = {}
    BY <1>1, <1>4 DEF Touched
  <1>6. IsOrderLog(log)
    <2>1. log[1].payload.line_count \in Nat /\ log[1].payload.gross_amount \in Nat
      BY <1>1, PayloadsAreNumbers, LinesAre
    <2>2. \A i \in 1 .. n :
            /\ log[i].event_type \in EventTypes
            /\ log[i].event_type = "order_placed" <=> i = 1
            /\ log[i].event_type \notin {"order_picked", "order_returned"}
      BY <1>1, <1>2, <1>3 DEF EventTypes
    <2> QED
      BY <1>1, <2>1, <2>2 DEF IsOrderLog, OfType
  <1>7. IsLegal(log)
    BY <1>1, <1>2, <1>3 DEF IsLegal, SourceAfter, SourceBefore
  <1>8. \A i \in 1 .. n : IsTrue(log, fate, i)
    BY <1>1, <1>2, <1>3, <1>5 DEF IsTrue, LineEvents
  <1> QED
    BY <1>1, <1>6, <1>7, <1>8 DEF Tells

\* The kinds of the events of an order that is picked, m of whose lines change.
KindOf(fate, m, i) ==
    CASE i = 1     -> {"order_placed"}
      [] i = 2     -> {"order_payment_authorized"}
      [] i = 3     -> {"order_picking_started"}
      [] i = m + 4 -> {"order_picked"}
      [] i = m + 5 -> {"order_dispatched"}
      [] i = m + 6 -> {IF fate.outcome = "delivery_failed" THEN "order_delivery_failed"
                       ELSE "order_delivered"}
      [] i = m + 7 -> {"order_returned"}
      [] OTHER     -> LineEvents

\* The kind of event at each of those positions.
LEMMA KindsArePlaces ==
    ASSUME NEW fate, NEW m \in Nat
    PROVE  /\ KindOf(fate, m, 1) = {"order_placed"}
           /\ KindOf(fate, m, 2) = {"order_payment_authorized"}
           /\ KindOf(fate, m, 3) = {"order_picking_started"}
           /\ KindOf(fate, m, m + 4) = {"order_picked"}
           /\ KindOf(fate, m, m + 5) = {"order_dispatched"}
           /\ KindOf(fate, m, m + 6) = {IF fate.outcome = "delivery_failed"
                                        THEN "order_delivery_failed" ELSE "order_delivered"}
           /\ KindOf(fate, m, m + 7) = {"order_returned"}
           /\ \A j \in 1 .. m : KindOf(fate, m, j + 3) = LineEvents
  BY DEF KindOf

\* Every position is one of these.
LEMMA Places ==
    ASSUME NEW m \in Nat, NEW i \in 1 .. m + 7
    PROVE  \/ i \in {1, 2, 3, m + 4, m + 5, m + 6, m + 7}
           \/ \E j \in 1 .. m : i = j + 3
  <1>1. CASE i \in 4 .. m + 3
    <2>1. i - 3 \in 1 .. m /\ i = (i - 3) + 3
      BY <1>1
    <2> QED
      BY <2>1
  <1>2. CASE i \notin 4 .. m + 3
    BY <1>2
  <1> QED
    BY <1>1, <1>2

\* The events of an order that is picked, F those of its m changed lines.
PickedLog(fate, log, F, m) ==
    /\ m \in Nat
    /\ Len(log) = IF fate.outcome = "returned" THEN m + 7 ELSE m + 6
    /\ DOMAIN log = 1 .. Len(log) /\ log \in Seq(Range(log))
    /\ \A i \in 1 .. Len(log) : /\ log[i].sequence_no = i
                                /\ log[i].event_type \in KindOf(fate, m, i)
    /\ \A j \in 1 .. m : log[j + 3].payload = F[j].payload
                         /\ log[j + 3].event_type = F[j].event_type
    /\ log[1].payload = Placed.payload
    /\ log[m + 4].payload = Picked(fate.lines).payload
    /\ fate.outcome = "returned" => log[m + 7].payload = Returned(fate).payload

\* The log of an order that is picked is such a log.
LEMMA PickedEvents ==
    ASSUME NEW fate \in Fates, IsPicked(fate), NEW log, Numbers(log, Drafts(fate))
    PROVE  PickedLog(fate, log, Changes(fate.lines), Len(Changes(fate.lines)))
  <1> DEFINE F == Changes(fate.lines)
             m == Len(F)
             D == Drafts(fate)
             n == Len(log)
  <1>1. DraftsWith(fate, F, m, D) /\ m \in Nat
    BY DraftsAre
  <1> HIDE DEF D, n, F, m
  <1>2. /\ Len(D) = n /\ DOMAIN log = 1 .. n /\ log \in Seq(Range(log))
        /\ \A i \in 1 .. n : /\ log[i].sequence_no = i
                            /\ log[i].event_type = D[i].event_type
                            /\ log[i].payload = D[i].payload
    BY DEF Numbers, D, n
  <1>3. n = IF fate.outcome = "returned" THEN m + 7 ELSE m + 6
    BY <1>1, <1>2 DEF DraftsWith, IsPicked
  <1>4. /\ D[1] = Placed /\ D[2] = Bare("order_payment_authorized")
        /\ D[3] = Bare("order_picking_started")
        /\ \A j \in 1 .. m : D[j + 3] = F[j]
        /\ D[m + 4] = Picked(fate.lines) /\ D[m + 5] = Bare("order_dispatched")
        /\ D[m + 6] = IF fate.outcome = "delivery_failed" THEN Bare("order_delivery_failed")
                      ELSE Bare("order_delivered")
        /\ fate.outcome = "returned" => D[m + 7] = Returned(fate)
    BY <1>1 DEF DraftsWith
  <1>5. /\ {1, 2, 3, m + 4, m + 5, m + 6} \subseteq 1 .. n
        /\ fate.outcome = "returned" => m + 7 \in 1 .. n
        /\ \A j \in 1 .. m : j + 3 \in 1 .. n
        /\ 1 .. n \subseteq 1 .. m + 7
        /\ m + 7 \in 1 .. n => fate.outcome = "returned"
    BY <1>1, <1>3
  <1>6. \A j \in 1 .. m : F[j].event_type \in LineEvents
    <2>1. Once(F, Change(fate.lines), Changed(fate.lines), Lines)
      BY ChangesOnce DEF Fates, F
    <2>2. F \in Seq({Change(fate.lines)[l] : l \in Changed(fate.lines)})
      BY <2>1 DEF Once
    <2>3. DOMAIN F = 1 .. m
      BY <2>2 DEF m
    <2> TAKE j \in 1 .. m
    <2>4. PICK l \in Changed(fate.lines) : F[j] = Change(fate.lines)[l]
      BY <2>1, <2>3 DEF Once
    <2> QED
      BY <2>4, ChangeIsOfItsLine DEF Changed
  <1>7. \A i \in 1 .. n : log[i].event_type \in KindOf(fate, m, i)
    <2> TAKE i \in 1 .. n
    <2>1. i \in {1, 2, 3, m + 4, m + 5, m + 6, m + 7} \/ \E j \in 1 .. m : i = j + 3
      BY <1>1, <1>5, Places
    <2>2. /\ Placed.event_type = "order_placed"
          /\ \A kind : Bare(kind).event_type = kind
          /\ Picked(fate.lines).event_type = "order_picked"
          /\ Returned(fate).event_type = "order_returned"
      BY DraftKinds
    <2>3. log[i].event_type = D[i].event_type
      BY <1>2
    <2> DEFINE K(k) == KindOf(fate, m, k)
    <2>0. /\ K(1) = {"order_placed"} /\ K(2) = {"order_payment_authorized"}
          /\ K(3) = {"order_picking_started"} /\ K(m + 4) = {"order_picked"}
          /\ K(m + 5) = {"order_dispatched"}
          /\ K(m + 6) = {IF fate.outcome = "delivery_failed" THEN "order_delivery_failed"
                         ELSE "order_delivered"}
          /\ K(m + 7) = {"order_returned"}
          /\ \A j \in 1 .. m : K(j + 3) = LineEvents
      BY <1>1, KindsArePlaces
    <2> HIDE DEF K
    <2> SUFFICES log[i].event_type \in K(i)
      BY DEF K
    <2>4. CASE \E j \in 1 .. m : i = j + 3
      <3>1. PICK j \in 1 .. m : i = j + 3
        BY <2>4
      <3>2. D[i] = F[j] /\ F[j].event_type \in LineEvents /\ K(i) = LineEvents
        BY <1>4, <1>6, <2>0, <3>1
      <3> QED
        BY <2>3, <3>2
    <2>5. CASE i \in {1, 2, 3}
      BY <2>0, <1>4, <2>2, <2>3, <2>5
    <2>6. CASE i \in {m + 4, m + 5}
      BY <2>0, <1>4, <2>2, <2>3, <2>6
    <2>7. CASE i \in {m + 6, m + 7}
      BY <2>0, <1>4, <1>5, <2>2, <2>3, <2>7
    <2> QED
      BY <2>1, <2>4, <2>5, <2>6, <2>7
  <1>8. \A j \in 1 .. m : log[j + 3].payload = F[j].payload
                          /\ log[j + 3].event_type = F[j].event_type
    BY <1>2, <1>4, <1>5
  <1>9. /\ log[1].payload = Placed.payload
        /\ log[m + 4].payload = Picked(fate.lines).payload
        /\ fate.outcome = "returned" => log[m + 7].payload = Returned(fate).payload
    BY <1>2, <1>4, <1>5
  <1> QED
    BY <1>1, <1>2, <1>3, <1>7, <1>8, <1>9 DEF n, m, F, PickedLog

\* Where each kind of event may be.
Fits(fate, m, i, kind) ==
    /\ kind \in EventTypes
    /\ kind = "order_placed" <=> i = 1
    /\ kind = "order_picked" <=> i = m + 4
    /\ kind = "order_returned" <=> i = m + 7
    /\ kind \in LineEvents <=> i \in 4 .. m + 3
    /\ kind \notin {"order_payment_failed", "order_cancelled"}
    /\ SourceAfter[kind] =
         CASE i = 1     -> "PLACED"
           [] i = 2     -> "CONFIRMED"
           [] i = m + 4 -> "PICKED"
           [] i = m + 5 -> "IN_TRANSIT"
           [] i = m + 6 -> IF fate.outcome = "delivery_failed" THEN "DELIVERY_FAILED"
                           ELSE "DELIVERED"
           [] i = m + 7 -> "RETURNED"
           [] OTHER     -> "PICKING"
    /\ SourceBefore[kind] =
         CASE i = 1     -> {Null}
           [] i = 2     -> {"PLACED"}
           [] i = 3     -> {"CONFIRMED"}
           [] i = m + 5 -> {"PICKED"}
           [] i = m + 6 -> {"IN_TRANSIT"}
           [] i = m + 7 -> {"DELIVERED"}
           [] OTHER     -> {"PICKING"}

\* An event fits the position it has.
LEMMA PlacesOfKinds ==
    ASSUME NEW fate, NEW m \in Nat, NEW i \in 1 .. m + 7, NEW kind \in KindOf(fate, m, i)
    PROVE  Fits(fate, m, i, kind)
  <1>1. CASE i \in 4 .. m + 3
    <2>1. kind \in LineEvents /\ i \notin {1, 2, 3, m + 4, m + 5, m + 6, m + 7}
      BY <1>1 DEF KindOf
    <2> QED
      BY <1>1, <2>1 DEF Fits, LineEvents, EventTypes, SourceAfter, SourceBefore
  <1>2. CASE i = 1
    <2>1. kind = "order_placed"
      BY <1>2, KindsArePlaces
    <2>2. i \notin {2, 3, m + 4, m + 5, m + 6, m + 7} /\ i \notin 4 .. m + 3
      BY <1>2
    <2> QED
      BY <1>2, <2>1, <2>2 DEF Fits, LineEvents, EventTypes, SourceAfter, SourceBefore
  <1>3. CASE i = 2
    <2>1. kind = "order_payment_authorized"
      BY <1>3, KindsArePlaces
    <2>2. i \notin {1, 3, m + 4, m + 5, m + 6, m + 7} /\ i \notin 4 .. m + 3
      BY <1>3
    <2> QED
      BY <1>3, <2>1, <2>2 DEF Fits, LineEvents, EventTypes, SourceAfter, SourceBefore
  <1>4. CASE i = 3
    <2>1. kind = "order_picking_started"
      BY <1>4, KindsArePlaces
    <2>2. i \notin {1, 2, m + 4, m + 5, m + 6, m + 7} /\ i \notin 4 .. m + 3
      BY <1>4
    <2> QED
      BY <1>4, <2>1, <2>2 DEF Fits, LineEvents, EventTypes, SourceAfter, SourceBefore
  <1>5. CASE i = m + 4
    <2>1. kind = "order_picked"
      BY <1>5, KindsArePlaces
    <2>2. i \notin {1, 2, 3, m + 5, m + 6, m + 7} /\ i \notin 4 .. m + 3
      BY <1>5
    <2> QED
      BY <1>5, <2>1, <2>2 DEF Fits, LineEvents, EventTypes, SourceAfter, SourceBefore
  <1>6. CASE i = m + 5
    <2>1. kind = "order_dispatched"
      BY <1>6, KindsArePlaces
    <2>2. i \notin {1, 2, 3, m + 4, m + 6, m + 7} /\ i \notin 4 .. m + 3
      BY <1>6
    <2> QED
      BY <1>6, <2>1, <2>2 DEF Fits, LineEvents, EventTypes, SourceAfter, SourceBefore
  <1>7. CASE i = m + 6
    <2>1. kind = IF fate.outcome = "delivery_failed" THEN "order_delivery_failed"
                 ELSE "order_delivered"
      BY <1>7, KindsArePlaces
    <2>2. i \notin {1, 2, 3, m + 4, m + 5, m + 7} /\ i \notin 4 .. m + 3
      BY <1>7
    <2> QED
      BY <1>7, <2>1, <2>2 DEF Fits, LineEvents, EventTypes, SourceAfter, SourceBefore
  <1>8. CASE i = m + 7
    <2>1. kind = "order_returned"
      BY <1>8, KindsArePlaces
    <2>2. i \notin {1, 2, 3, m + 4, m + 5, m + 6} /\ i \notin 4 .. m + 3
      BY <1>8
    <2> QED
      BY <1>8, <2>1, <2>2 DEF Fits, LineEvents, EventTypes, SourceAfter, SourceBefore
  <1> QED
    BY <1>1, <1>2, <1>3, <1>4, <1>5, <1>6, <1>7, <1>8

\* Each change is the event of one line, and no two are of one line.
LEMMA ChangesAreOfLines ==
    ASSUME NEW lines \in [Line -> LineFates], NEW F, F = Changes(lines), NEW m, m = Len(F)
    PROVE  /\ \A j \in 1 .. m :
                LET l == F[j].payload.line_no
                IN  /\ l \in Changed(lines) /\ F[j] = Change(lines)[l]
                    /\ F[j].event_type = "order_line_substituted" =>
                         /\ lines[l] = "substituted"
                         /\ F[j].payload.substitute_unit_price = SubstitutePrice[l]
                    /\ F[j].event_type = "order_line_removed" => lines[l] = "removed"
           /\ \A i, j \in 1 .. m : i # j => F[i].payload.line_no # F[j].payload.line_no
           /\ \A l \in Changed(lines) : \E j \in 1 .. m : F[j].payload.line_no = l
  <1>1. Once(F, Change(lines), Changed(lines), Lines)
    BY ChangesOnce
  <1>2. DOMAIN F = 1 .. m
    <2>1. F \in Seq({Change(lines)[l] : l \in Changed(lines)})
      BY <1>1 DEF Once
    <2> QED
      BY <2>1
  <1>3. \A j \in 1 .. m : \E l \in Changed(lines) : F[j] = Change(lines)[l]
    BY <1>1, <1>2 DEF Once
  <1>4. \A l \in Changed(lines) :
          l \in Line /\ l <= Lines /\ lines[l] \in LineFates /\ lines[l] # "fulfilled"
    BY LinesAre DEF Changed
  <1>5. ASSUME NEW j \in 1 .. m
        PROVE  LET l == F[j].payload.line_no
               IN  /\ l \in Changed(lines) /\ F[j] = Change(lines)[l]
                   /\ F[j].event_type = "order_line_substituted" =>
                        /\ lines[l] = "substituted"
                        /\ F[j].payload.substitute_unit_price = SubstitutePrice[l]
                   /\ F[j].event_type = "order_line_removed" => lines[l] = "removed"
    <2>1. PICK l \in Changed(lines) : F[j] = Change(lines)[l]
      BY <1>3
    <2>2. F[j].payload.line_no = l
      BY <1>4, <2>1, ChangeIsOfItsLine
    <2>3. F[j].event_type = "order_line_removed" => lines[l] = "removed"
      BY <1>4, <2>1, ChangeIsOfItsLine DEF LineFates
    <2>4. F[j].event_type = "order_line_substituted" =>
            lines[l] = "substituted" /\ F[j].payload.substitute_unit_price = SubstitutePrice[l]
      BY <1>4, <2>1, ChangeIsOfItsLine
    <2> QED
      BY <2>1, <2>2, <2>3, <2>4
  <1>6. ASSUME NEW i \in 1 .. m, NEW j \in 1 .. m, i # j
        PROVE  F[i].payload.line_no # F[j].payload.line_no
    <2>1. F[i] # F[j]
      BY <1>1, <1>2, <1>6 DEF Once
    <2> QED
      BY <1>5, <2>1
  <1>7. ASSUME NEW l \in Changed(lines)
        PROVE  \E j \in 1 .. m : F[j].payload.line_no = l
    <2>1. PICK j \in 1 .. m : F[j] = Change(lines)[l]
      BY <1>1, <1>2, <1>4 DEF Once
    <2> QED
      BY <1>4, <2>1, ChangeIsOfItsLine
  <1> QED
    BY <1>5, <1>6, <1>7

\* The log of an order that is picked.
LEMMA PickedTells ==
    ASSUME NEW fate \in Fates, IsPicked(fate), NEW log, Numbers(log, Drafts(fate))
    PROVE  Tells(log, fate)
  <1> DEFINE lines == fate.lines
             F     == Changes(lines)
             m     == Len(F)
             n     == Len(log)
             No(j) == F[j].payload.line_no
             Kind(i) == log[i].event_type
  <1>1. /\ m \in Nat
        /\ n = IF fate.outcome = "returned" THEN m + 7 ELSE m + 6
        /\ DOMAIN log = 1 .. n /\ log \in Seq(Range(log))
        /\ \A i \in 1 .. n : log[i].sequence_no = i /\ Kind(i) \in KindOf(fate, m, i)
        /\ \A j \in 1 .. m : /\ log[j + 3].payload = F[j].payload
                             /\ Kind(j + 3) = F[j].event_type
        /\ log[1].payload = Placed.payload
        /\ log[m + 4].payload = Picked(lines).payload
        /\ fate.outcome = "returned" => log[m + 7].payload = Returned(fate).payload
    BY PickedEvents DEF PickedLog
  <1>2. /\ \A j \in 1 .. m : /\ No(j) \in Changed(lines)
                             /\ F[j].event_type = "order_line_substituted" =>
                                  /\ lines[No(j)] = "substituted"
                                  /\ F[j].payload.substitute_unit_price = SubstitutePrice[No(j)]
                             /\ F[j].event_type = "order_line_removed" => lines[No(j)] = "removed"
        /\ \A i, j \in 1 .. m : i # j => No(i) # No(j)
        /\ \A l \in Changed(lines) : \E j \in 1 .. m : No(j) = l
    <2>1. lines \in [Line -> LineFates]
      BY DEF Fates
    <2> QED
      BY <2>1, ChangesAreOfLines
  <1>3. 1 .. n \subseteq 1 .. m + 7
    BY <1>1
  <1> HIDE DEF F, m, n
  <1>4. \A i \in 1 .. n :
          /\ Kind(i) \in EventTypes
          /\ Kind(i) = "order_placed" <=> i = 1
          /\ Kind(i) = "order_picked" <=> i = m + 4
          /\ Kind(i) = "order_returned" <=> i = m + 7
          /\ Kind(i) \in LineEvents <=> i \in 4 .. m + 3
          /\ Kind(i) \notin {"order_payment_failed", "order_cancelled"}
    <2>1. \A i \in 1 .. n : Fits(fate, m, i, Kind(i))
      BY <1>1, <1>3, PlacesOfKinds
    <2> HIDE DEF Kind
    <2> QED
      BY <2>1 DEF Fits
  <1>5. \A i \in 1 .. n :
          /\ SourceAfter[Kind(i)] =
                CASE i = 1     -> "PLACED"
                  [] i = 2     -> "CONFIRMED"
                  [] i = m + 4 -> "PICKED"
                  [] i = m + 5 -> "IN_TRANSIT"
                  [] i = m + 6 -> IF fate.outcome = "delivery_failed" THEN "DELIVERY_FAILED"
                                  ELSE "DELIVERED"
                  [] i = m + 7 -> "RETURNED"
                  [] OTHER     -> "PICKING"
          /\ SourceBefore[Kind(i)] =
                CASE i = 1     -> {Null}
                  [] i = 2     -> {"PLACED"}
                  [] i = 3     -> {"CONFIRMED"}
                  [] i = m + 5 -> {"PICKED"}
                  [] i = m + 6 -> {"IN_TRANSIT"}
                  [] i = m + 7 -> {"DELIVERED"}
                  [] OTHER     -> {"PICKING"}
    <2>1. \A i \in 1 .. n : Fits(fate, m, i, Kind(i))
      BY <1>1, <1>3, PlacesOfKinds
    <2> HIDE DEF Kind
    <2> QED
      BY <2>1 DEF Fits
  <1> HIDE DEF Kind, No
  <1>6. IsLegal(log)
    <2> SUFFICES ASSUME NEW i \in 1 .. n - 1
                 PROVE  SourceAfter[Kind(i)] \in SourceBefore[Kind(i + 1)]
      BY DEF IsLegal, Kind, n
    <2>1. i \in 1 .. n /\ i + 1 \in 1 .. n /\ i + 1 <= m + 7
      BY <1>1
    <2>2. i + 1 = m + 7 => fate.outcome = "returned"
      BY <1>1, <2>1
    <2>3. CASE i \in {1, 2, m + 4, m + 5, m + 6}
      BY <1>1, <1>5, <2>1, <2>2, <2>3
    <2>4. CASE i \notin {1, 2, m + 4, m + 5, m + 6}
      <3>1. i \in 3 .. m + 3
        BY <1>1, <2>1, <2>4
      <3>2. SourceAfter[Kind(i)] = "PICKING" /\ SourceBefore[Kind(i + 1)] = {"PICKING"}
        <4>1. i \notin {1, 2, m + 4, m + 5, m + 6, m + 7}
          BY <1>1, <3>1
        <4>2. i + 1 \notin {1, 2, 3, m + 5, m + 6, m + 7}
          BY <1>1, <3>1
        <4> QED
          BY <1>5, <2>1, <4>1, <4>2
      <3> QED
        BY <3>2
    <2> QED
      BY <2>3, <2>4
  <1>7. n > 0 /\ 1 \in 1 .. n /\ m + 4 \in 1 .. n /\ \A j \in 1 .. m : j + 3 \in 1 .. n
    BY <1>1
  <1>8. IsOrderLog(log)
    <2>1. log[1].payload.line_count \in Nat /\ log[1].payload.gross_amount \in Nat
      BY <1>1, PayloadsAreNumbers, LinesAre
    <2>2. /\ log[m + 4].payload.picked_line_count \in Nat
          /\ log[m + 4].payload.picked_amount \in Nat
      BY <1>1, PayloadsAreNumbers
    <2>3. m + 7 \in 1 .. n => log[m + 7].payload.returned_amount \in Nat
      BY <1>1, PayloadsAreNumbers
    <2>4. \A i, j \in OfType(log, "order_picked") : i = j
      BY <1>1, <1>4 DEF OfType, Kind
    <2>5. \A i, j \in OfType(log, "order_returned") : i = j
      BY <1>1, <1>4 DEF OfType, Kind
    <2>6. ASSUME NEW i \in 1 .. n
          PROVE  LET kind == log[i].event_type
                     payload == log[i].payload
                 IN  /\ log[i].sequence_no = i
                     /\ kind \in EventTypes
                     /\ kind = "order_placed" <=> i = 1
                     /\ kind = "order_placed" =>
                          {payload.line_count, payload.gross_amount} \subseteq Nat
                     /\ kind = "order_picked" =>
                          {payload.picked_line_count, payload.picked_amount} \subseteq Nat
                     /\ kind = "order_returned" => payload.returned_amount \in Nat
      BY <1>1, <1>4, <2>1, <2>2, <2>3 DEF Kind
    <2> QED
      BY <1>1, <2>4, <2>5, <2>6 DEF IsOrderLog
  <1>9. \A k \in 1 .. n : Touched(log, k) = {No(j) : j \in {x \in 1 .. m : x + 3 <= k}}
    <2> TAKE k \in 1 .. n
    <2> DEFINE I == {i \in 1 .. k : log[i].event_type \in LineEvents}
               J == {j \in 1 .. m : j + 3 <= k}
    <2>1. \A i \in I : i - 3 \in J /\ log[i].payload.line_no = No(i - 3)
      <3> TAKE i \in I
      <3>1. i \in 1 .. n /\ i \in 4 .. m + 3 /\ i <= k
        <4>1. i \in 1 .. n /\ i <= k
          BY <1>1
        <4> QED
          BY <1>4, <4>1 DEF Kind
      <3>2. i - 3 \in 1 .. m /\ (i - 3) + 3 = i
        BY <1>1, <3>1
      <3> QED
        BY <1>1, <3>1, <3>2 DEF No
    <2>2. \A j \in J : j + 3 \in I /\ log[j + 3].payload.line_no = No(j)
      <3> TAKE j \in J
      <3>1. j + 3 \in 4 .. m + 3 /\ j + 3 \in 1 .. n /\ j + 3 \in 1 .. k
        BY <1>1, <1>7
      <3> QED
        BY <1>1, <1>4, <3>1 DEF No, Kind
    <2>3. Touched(log, k) = {log[i].payload.line_no : i \in I}
      BY DEF Touched
    <2> HIDE DEF I, J
    <2>4. {log[i].payload.line_no : i \in I} = {No(j) : j \in J}
      BY <2>1, <2>2
    <2> QED
      BY <2>3, <2>4 DEF J
  <1>10. ASSUME NEW i \in 1 .. n
         PROVE  IsTrue(log, fate, i)
    <2>0. /\ log[i].event_type \in EventTypes
          /\ log[i].event_type = "order_placed" <=> i = 1
          /\ log[i].event_type = "order_picked" <=> i = m + 4
          /\ log[i].event_type = "order_returned" <=> i = m + 7
          /\ log[i].event_type \in LineEvents <=> i \in 4 .. m + 3
          /\ log[i].event_type \notin {"order_payment_failed", "order_cancelled"}
      BY <1>4 DEF Kind
    <2>1. CASE i \in 4 .. m + 3
      <3> DEFINE j == i - 3
      <3>1. j \in 1 .. m /\ j + 3 = i /\ i - 1 \in 1 .. n
        BY <1>1, <2>1
      <3> HIDE DEF j
      <3>2. /\ log[i].payload = F[j].payload /\ log[i].event_type = F[j].event_type
            /\ log[i].payload.line_no = No(j)
        BY <1>1, <3>1 DEF No, Kind
      <3>3. No(j) \notin Touched(log, i - 1)
        <4>1. \A x \in 1 .. m : x + 3 <= i - 1 => x # j
          BY <3>1
        <4>2. \A x \in 1 .. m : x + 3 <= i - 1 => No(x) # No(j)
          BY <1>2, <3>1, <4>1
        <4> QED
          BY <1>9, <3>1, <4>2
      <3>4. log[i].event_type \notin {"order_placed", "order_picked", "order_returned"}
        BY <2>1, <2>0 DEF LineEvents
      <3> QED
        BY <1>2, <2>0, <3>1, <3>2, <3>3, <3>4 DEF IsTrue
    <2>2. CASE i = m + 4
      <3>1. Touched(log, i - 1) = Changed(lines)
        <4>1. i - 1 \in 1 .. n /\ \A j \in 1 .. m : j + 3 <= i - 1
          BY <1>1, <2>2
        <4>2. Touched(log, i - 1) = {No(j) : j \in 1 .. m}
          BY <1>9, <4>1
        <4>3. {No(j) : j \in 1 .. m} = Changed(lines)
          BY <1>2
        <4> QED
          BY <4>2, <4>3
      <3>2. log[i].event_type = "order_picked" /\ log[i].payload = Picked(lines).payload
        BY <1>1, <2>2, <2>0
      <3> QED
        BY <3>1, <3>2 DEF IsTrue, LineEvents
    <2>3. CASE i \notin 4 .. m + 4
      <3>1. /\ log[i].event_type \notin LineEvents /\ log[i].event_type # "order_picked"
            /\ i = m + 7 => fate.outcome = "returned"
        BY <1>1, <2>0, <2>3
      <3>2. i = m + 7 => fate.returned \in Kept(lines)
        BY <3>1 DEF Fates
      <3> QED
        BY <1>1, <2>0, <3>1, <3>2 DEF IsTrue, LineEvents
    <2> QED
      BY <1>1, <2>1, <2>2, <2>3
  <1> QED
    BY <1>6, <1>7, <1>8, <1>10 DEF Tells, n

\* A lifecycle is a log of the kind the folds expect, and each of its events is
\* legal and true.
LEMMA LifecycleTells ==
    ASSUME NEW fate \in Fates, NEW o
    PROVE  Tells(Lifecycle(o, fate), fate)
  BY LifecycleNumbers, PickedTells, UnpickedTells

\* The log of a lifecycle is a log as the streaming path supposes it: numbered from 1
\* without a hole, opened by order_placed, with at most one pick and one return
\* (orders_generator.py `emit`).
THEOREM LifecycleIsALog ==
    ASSUME NEW fate \in Fates, NEW o
    PROVE  /\ IsOrderLog(Lifecycle(o, fate))
           /\ \A i \in DOMAIN Lifecycle(o, fate) : Lifecycle(o, fate)[i].order_id = o
  <1>1. IsOrderLog(Lifecycle(o, fate))
    BY LifecycleTells DEF Tells
  <1>2. \A i \in DOMAIN Lifecycle(o, fate) : Lifecycle(o, fate)[i].order_id = o
    BY DEF Lifecycle
  <1> QED
    BY <1>1, <1>2

-----------------------------------------------------------------------------
(* The lines of an order in the OLTP.                                      *)

\* The lines of an order of which picking has settled those in T.
Settled(lines, T) ==
    [l \in Line |->
        IF l \notin T THEN [status |-> "placed", line_amount |-> Price[l]]
        ELSE IF lines[l] = "substituted"
        THEN [status |-> "substituted", line_amount |-> SubstitutePrice[l]]
        ELSE [status |-> "removed", line_amount |-> 0]]

\* Rows of the lines of an order.
AreRows(rows) == rows \in Seq(LineRow) /\ Len(rows) = Lines /\ DOMAIN rows = Line

\* A function from the lines to their rows is the sequence of those rows.
LEMMA RowsOnLine ==
    ASSUME NEW rows, rows \in [Line -> LineRow]
    PROVE  AreRows(rows)
  <1>1. Lines \in Nat /\ Line = 1 .. Lines
    BY LinesAre
  <1>2. rows \in [1 .. Lines -> LineRow]
    BY <1>1
  <1>3. rows \in Seq(LineRow) /\ Len(rows) = Lines
    BY <1>1, <1>2
  <1> QED
    BY <1>1, <1>2, <1>3 DEF AreRows

\* The row of a line is one of order_line.
LEMMA RowOfALine ==
    ASSUME NEW rows, AreRows(rows), NEW l \in Line
    PROVE  rows[l] \in LineRow /\ rows = [k \in Line |-> rows[k]]
  <1>1. Lines \in Nat /\ Line = 1 .. Lines
    BY LinesAre
  <1>2. rows \in [1 .. Lines -> LineRow]
    BY <1>1, LenProperties DEF AreRows
  <1> QED
    BY <1>1, <1>2

\* The lines picking has settled in part are rows of order_line.
LEMMA SettledRows ==
    ASSUME NEW lines, NEW T
    PROVE  AreRows(Settled(lines, T))
  <1>1. Settled(lines, T) \in [Line -> LineRow]
    BY LineAssumption DEF Settled, LineRow, LineStatuses
  <1> QED
    BY <1>1, RowsOnLine

\* Turning the placed lines into others keeps the lines that were settled.
LEMMA RelabelledRows ==
    ASSUME NEW rows, AreRows(rows)
    PROVE  /\ AreRows(PickedLines(rows)) /\ AreRows(ClosedLines(rows))
           /\ \A status \in {"substituted", "removed"} :
                /\ InStatus(PickedLines(rows), status) = InStatus(rows, status)
                /\ InStatus(ClosedLines(rows), status) = InStatus(rows, status)
           /\ InStatus(PickedLines(rows), "placed") = {}
           /\ InStatus(ClosedLines(rows), "placed") = {}
  <1> DEFINE picked == PickedLines(rows)
             closed == ClosedLines(rows)
  <1>1. DOMAIN rows = Line /\ \A l \in Line : rows[l] \in LineRow
    BY RowOfALine DEF AreRows
  <1>2. /\ DOMAIN picked = Line /\ DOMAIN closed = Line
        /\ picked = [l \in Line |-> picked[l]] /\ closed = [l \in Line |-> closed[l]]
        /\ \A l \in Line :
             /\ picked[l] = IF rows[l].status = "placed"
                            THEN [rows[l] EXCEPT !.status = "fulfilled"] ELSE rows[l]
             /\ closed[l] = IF rows[l].status = "placed"
                            THEN [status |-> "not_picked", line_amount |-> 0] ELSE rows[l]
    BY <1>1 DEF PickedLines, ClosedLines, Relabelled
  <1>3. \A l \in Line :
          /\ rows[l].status \in LineStatuses /\ rows[l].line_amount \in Nat
          /\ picked[l] = IF rows[l].status = "placed"
                         THEN [status |-> "fulfilled", line_amount |-> rows[l].line_amount]
                         ELSE rows[l]
    BY <1>1, <1>2 DEF LineRow
  <1> HIDE DEF picked, closed
  <1>4. \A l \in Line :
          /\ picked[l] \in LineRow /\ closed[l] \in LineRow
          /\ picked[l].status = IF rows[l].status = "placed" THEN "fulfilled" ELSE rows[l].status
          /\ closed[l].status = IF rows[l].status = "placed" THEN "not_picked" ELSE rows[l].status
    BY <1>1, <1>2, <1>3 DEF LineRow, LineStatuses
  <1>5. picked \in [Line -> LineRow] /\ closed \in [Line -> LineRow]
    BY <1>2, <1>4
  <1>6. AreRows(picked) /\ AreRows(closed)
    BY <1>5, RowsOnLine
  <1>7. /\ \A status \in {"substituted", "removed"} :
             /\ InStatus(picked, status) = InStatus(rows, status)
             /\ InStatus(closed, status) = InStatus(rows, status)
        /\ InStatus(picked, "placed") = {}
        /\ InStatus(closed, "placed") = {}
    BY <1>1, <1>2, <1>4 DEF InStatus
  <1> QED
    BY <1>6, <1>7 DEF picked, closed

\* Setting the row of line l settles it beside those of T.
SettlesOne(lines, T, l) ==
    /\ lines[l] = "substituted" =>
         [Settled(lines, T) EXCEPT ![l] = [status      |-> "substituted",
                                           line_amount |-> SubstitutePrice[l]]]
           = Settled(lines, T \union {l})
    /\ lines[l] = "removed" =>
         [Settled(lines, T) EXCEPT ![l] = [status |-> "removed", line_amount |-> 0]]
           = Settled(lines, T \union {l})

\* One line more is settled.
LEMMA SettledMore ==
    ASSUME NEW lines, NEW T, NEW l \in Line \ T
    PROVE  SettlesOne(lines, T, l)
  <1> DEFINE before == Settled(lines, T)
             after  == Settled(lines, T \union {l})
             row    == IF lines[l] = "substituted"
                       THEN [status |-> "substituted", line_amount |-> SubstitutePrice[l]]
                       ELSE [status |-> "removed", line_amount |-> 0]
  <1>1. \A k \in Line : after[k] = IF k = l THEN row ELSE before[k]
    BY DEF Settled
  <1>2. /\ before = [k \in Line |-> before[k]] /\ DOMAIN before = Line
        /\ after = [k \in Line |-> after[k]]
    BY DEF Settled
  <1> HIDE DEF before, after, row
  <1>3. [before EXCEPT ![l] = row] = after
    BY <1>1, <1>2
  <1> QED
    BY <1>3 DEF before, after, row, SettlesOne

\* Where the settled lines are.
LEMMA SettledStatus ==
    ASSUME NEW lines, NEW T \in SUBSET Line
    PROVE  LET rows == Settled(lines, T)
           IN  /\ InStatus(rows, "placed") = Line \ T
               /\ InStatus(rows, "substituted") = {l \in T : lines[l] = "substituted"}
               /\ InStatus(rows, "removed") = {l \in T : lines[l] # "substituted"}
  BY DEF Settled, InStatus

\* How many lines are in a status.
CountOf(rows, status) == Cardinality(InStatus(rows, status))

\* Sets of lines can be counted.
LEMMA FiniteLines ==
    ASSUME NEW S \in SUBSET Line
    PROVE  IsFiniteSet(S) /\ Cardinality(S) \in Nat
  BY LineAssumption, FS_Subset, FS_CardinalityType

\* The settled line is counted once, in its status.
LEMMA CountMore ==
    ASSUME NEW lines, NEW T \in SUBSET Line, NEW l \in Line \ T
    PROVE  LET before == Settled(lines, T)
               after  == Settled(lines, T \union {l})
               n(rows, status) == Cardinality(InStatus(rows, status))
           IN  /\ n(after, "substituted")
                    = n(before, "substituted") + (IF lines[l] = "substituted" THEN 1 ELSE 0)
               /\ n(after, "removed")
                    = n(before, "removed") + (IF lines[l] = "substituted" THEN 0 ELSE 1)
  <1> DEFINE S(U) == {k \in U : lines[k] = "substituted"}
             R(U) == {k \in U : lines[k] # "substituted"}
             U == T \union {l}
  <1>1. /\ InStatus(Settled(lines, T), "substituted") = S(T)
        /\ InStatus(Settled(lines, T), "removed") = R(T)
        /\ InStatus(Settled(lines, U), "substituted") = S(U)
        /\ InStatus(Settled(lines, U), "removed") = R(U)
    BY SettledStatus
  <1>2. /\ S(T) \in SUBSET Line /\ R(T) \in SUBSET Line /\ l \notin S(T) /\ l \notin R(T)
        /\ S(U) = IF lines[l] = "substituted" THEN S(T) \union {l} ELSE S(T)
        /\ R(U) = IF lines[l] = "substituted" THEN R(T) ELSE R(T) \union {l}
    OBVIOUS
  <1> HIDE DEF S, R, U
  <1>3. /\ Cardinality(S(T) \union {l}) = Cardinality(S(T)) + 1
        /\ Cardinality(R(T) \union {l}) = Cardinality(R(T)) + 1
        /\ Cardinality(S(T)) \in Nat /\ Cardinality(R(T)) \in Nat
    BY <1>2, FiniteLines, FS_AddElement
  <1>4. /\ Cardinality(S(U)) = Cardinality(S(T)) + (IF lines[l] = "substituted" THEN 1 ELSE 0)
        /\ Cardinality(R(U)) = Cardinality(R(T)) + (IF lines[l] = "substituted" THEN 0 ELSE 1)
    BY <1>2, <1>3
  <1> QED
    BY <1>1, <1>4 DEF U

\* The sum of the amounts of lines that are nothing but those of S.
LEMMA LineSumOnly ==
    ASSUME NEW rows, AreRows(rows), NEW a \in [1 .. Lines -> Nat], NEW S,
           \A k \in 1 .. Lines : rows[k].line_amount = Only(a, Lines, S)[k]
    PROVE  LineSum(rows) = SumOf(a, Lines, S)
  <1> DEFINE b == Only(a, Lines, S)
             u == CHOOSE u : Sums(b, Lines, u)
  <1>1. b \in [1 .. Lines -> Nat] /\ Lines \in Nat
    BY LinesAre DEF Only
  <1>2. Sums(b, Lines, u)
    <2> HIDE DEF b
    <2> QED
      BY <1>1, SumsExist
  <1>3. SumOf(a, Lines, S) = u[Lines]
    BY DEF SumOf
  <1>4. Len(rows) = Lines /\ \A k \in 1 .. Lines : b[k] = rows[k].line_amount
    BY DEF AreRows
  <1> HIDE DEF u, b
  <1> QED
    BY <1>1, <1>2, <1>3, <1>4, LineSumIs

\* The sum of the amounts of lines is an amount.
LEMMA LineSumType ==
    ASSUME NEW rows, AreRows(rows)
    PROVE  LineSum(rows) \in Nat
  <1> DEFINE a == [k \in 1 .. Lines |-> rows[k].line_amount]
  <1>1. Lines \in Nat /\ Line = 1 .. Lines
    BY LinesAre
  <1>2. a \in [1 .. Lines -> Nat] /\ \A k \in 1 .. Lines : a[k] = rows[k].line_amount
    BY <1>1, RowOfALine DEF LineRow
  <1> HIDE DEF a
  <1>3. PICK u : Sums(a, Lines, u)
    BY <1>1, <1>2, SumsExist
  <1>4. u[Lines] \in Nat
    BY <1>1, <1>3 DEF Sums
  <1>5. Len(rows) = Lines
    BY DEF AreRows
  <1> QED
    BY <1>1, <1>2, <1>3, <1>4, <1>5, LineSumIs

\* What the lines of an order that was picked amount to, and how many are left.
LEMMA PickedSum ==
    ASSUME NEW lines \in [Line -> LineFates]
    PROVE  LET rows == Settled(lines, Changed(lines))
           IN  /\ LineSum(PickedLines(rows)) = SumOf(Effective(lines), Lines, Kept(lines))
               /\ DOMAIN rows \ InStatus(rows, "removed") = Kept(lines)
  <1> DEFINE rows   == Settled(lines, Changed(lines))
             picked == PickedLines(rows)
             eff    == Effective(lines)
  <1>1. Lines \in Nat /\ Line = 1 .. Lines
    BY LinesAre
  <1>2. AreRows(rows) /\ AreRows(picked)
    BY SettledRows, RelabelledRows
  <1>3. eff \in [1 .. Lines -> Nat]
    BY <1>1, KeptSumIs
  <1>4. \A k \in 1 .. Lines : picked[k].line_amount = Only(eff, Lines, Kept(lines))[k]
    <2> TAKE k \in 1 .. Lines
    <2>1. k \in Line /\ lines[k] \in LineFates
      BY <1>1
    <2>2. Only(eff, Lines, Kept(lines))[k] =
            IF lines[k] = "removed" THEN 0
            ELSE IF lines[k] = "substituted" THEN SubstitutePrice[k] ELSE Price[k]
      BY <2>1 DEF Only, Kept, Effective, EffectivePrice
    <2>3. rows[k] = IF lines[k] = "fulfilled" THEN [status |-> "placed", line_amount |-> Price[k]]
                    ELSE IF lines[k] = "substituted"
                    THEN [status |-> "substituted", line_amount |-> SubstitutePrice[k]]
                    ELSE [status |-> "removed", line_amount |-> 0]
      BY <2>1 DEF Settled, Changed
    <2>4. DOMAIN rows = Line
      BY <1>2 DEF AreRows
    <2> HIDE DEF rows
    <2>5. picked[k] = IF rows[k].status = "placed"
                      THEN [rows[k] EXCEPT !.status = "fulfilled"] ELSE rows[k]
      BY <2>1, <2>4 DEF PickedLines, Relabelled
    <2>6. picked[k].line_amount = rows[k].line_amount
      BY <2>3, <2>5
    <2>7. rows[k].line_amount = IF lines[k] = "fulfilled" THEN Price[k]
                                ELSE IF lines[k] = "substituted" THEN SubstitutePrice[k] ELSE 0
      BY <2>3
    <2> QED
      BY <2>1, <2>2, <2>6, <2>7 DEF LineFates
  <1>5. DOMAIN rows \ InStatus(rows, "removed") = Kept(lines)
    <2>1. InStatus(rows, "removed") = {l \in Changed(lines) : lines[l] # "substituted"}
      BY SettledStatus DEF Changed
    <2>2. DOMAIN rows = Line
      BY <1>2 DEF AreRows
    <2>3. \A l \in Line : lines[l] \in LineFates
      OBVIOUS
    <2> HIDE DEF rows
    <2> QED
      BY <2>1, <2>2, <2>3 DEF Changed, Kept, LineFates
  <1> HIDE DEF rows, picked, eff
  <1>6. LineSum(picked) = SumOf(eff, Lines, Kept(lines))
    BY <1>2, <1>3, <1>4, LineSumOnly
  <1> QED
    BY <1>5, <1>6 DEF rows, picked, eff

\* The lines of an order that died before picking amount to nothing.
LEMMA ClosedSum ==
    ASSUME NEW lines
    PROVE  LineSum(ClosedLines(Settled(lines, {}))) = 0
  <1> DEFINE rows == Settled(lines, {})
             closed == ClosedLines(rows)
             a == [k \in 1 .. Lines |-> 0]
  <1>1. Lines \in Nat /\ Line = 1 .. Lines
    BY LinesAre
  <1>2. AreRows(rows) /\ AreRows(closed)
    BY SettledRows, RelabelledRows
  <1>3. a \in [1 .. Lines -> Nat]
    OBVIOUS
  <1>4. \A k \in 1 .. Lines : closed[k].line_amount = Only(a, Lines, {})[k]
    <2>1. \A k \in Line : rows[k].status = "placed"
      BY DEF Settled
    <2> HIDE DEF rows
    <2>2. \A k \in Line : closed[k].line_amount = 0
      BY <1>2, <2>1 DEF ClosedLines, Relabelled, AreRows
    <2> HIDE DEF closed
    <2> QED
      BY <1>1, <2>2 DEF Only
  <1> HIDE DEF a, closed, rows
  <1>5. LineSum(closed) = SumOf(a, Lines, {})
    BY <1>2, <1>3, <1>4, LineSumOnly
  <1>6. Adds(a, Lines, {})
    BY <1>1, <1>3, SumOfStep
  <1> QED
    BY <1>5, <1>6 DEF Adds, closed, rows

-----------------------------------------------------------------------------
(* One event more.                                                         *)

\* The plan knows every type but order_placed, and the states of the source.
LEMMA PlanTables ==
    ASSUME NEW kind \in EventTypes \ {"order_placed"}
    PROVE  /\ kind \in DOMAIN OltpAfter
           /\ OltpAfter[kind] = SourceAfter[kind]
           /\ OltpBefore[kind] = SourceBefore[kind]
           /\ StateAfter[kind] = SourceAfter[kind]
           /\ SourceAfter[kind] \in States
  <1>1. kind \in DOMAIN OltpAfter
    BY DEF EventTypes, LineEvents, OltpAfter
  <1>2. OltpAfter[kind] = SourceAfter[kind]
    BY DEF EventTypes, LineEvents, OltpAfter, SourceAfter
  <1>3. OltpBefore[kind] = SourceBefore[kind]
    BY DEF EventTypes, LineEvents, OltpBefore, SourceBefore
  <1>4. StateAfter[kind] = SourceAfter[kind]
    BY DEF StateAfter, SourceAfter
  <1>5. SourceAfter[kind] \in States
    BY DEF EventTypes, LineEvents, SourceAfter, States
  <1> QED
    BY <1>1, <1>2, <1>3, <1>4, <1>5

\* The lines one event leaves.
PlanLines(order, event) ==
    LET kind    == event.event_type
        payload == event.payload
    IN  CASE kind = "order_line_substituted" ->
               [order.lines EXCEPT ![payload.line_no] =
                   [status |-> "substituted", line_amount |-> payload.substitute_unit_price]]
          [] kind = "order_line_removed" ->
               [order.lines EXCEPT ![payload.line_no] = [status |-> "removed", line_amount |-> 0]]
          [] kind = "order_picked" -> PickedLines(order.lines)
          [] kind \in {"order_cancelled", "order_payment_failed"} -> ClosedLines(order.lines)
          [] OTHER -> order.lines

\* What the plan of an event makes of each column of an order.
LEMMA PlanColumns ==
    ASSUME NEW order \in OrderRow, NEW event,
           event.event_type \in EventTypes \ {"order_placed"}
    PROVE  LET kind  == event.event_type
               lines == PlanLines(order, event)
           IN  PlanEffect(order, event)
                 = [status            |-> SourceAfter[kind],
                    last_sequence_no  |-> event.sequence_no,
                    line_count        |-> order.line_count,
                    gross_amount      |-> order.gross_amount,
                    picked_line_count |-> IF kind = "order_picked"
                                          THEN event.payload.picked_line_count ELSE order.picked_line_count,
                    net_amount        |-> IF kind \in LineEvents \union {"order_picked"}
                                          THEN LineSum(lines) ELSE order.net_amount,
                    returned_amount   |-> IF kind = "order_returned"
                                          THEN event.payload.returned_amount ELSE order.returned_amount,
                    lines             |-> lines]
  <1> DEFINE kind == event.event_type
  <1>0. kind # "order_placed" /\ OltpAfter[kind] = SourceAfter[kind]
    BY PlanTables
  <1> HIDE DEF kind
  <1>1. CASE kind = "order_line_substituted"
    BY <1>0, <1>1 DEF PlanEffect, PlanLines, Advanced, NetRecomputed, OrderRow, LineEvents, kind
  <1>2. CASE kind = "order_line_removed"
    BY <1>0, <1>2 DEF PlanEffect, PlanLines, Advanced, NetRecomputed, OrderRow, LineEvents, kind
  <1>3. CASE kind = "order_picked"
    BY <1>0, <1>3 DEF PlanEffect, PlanLines, Advanced, NetRecomputed, OrderRow, LineEvents, kind
  <1>4. CASE kind = "order_returned"
    BY <1>0, <1>4 DEF PlanEffect, PlanLines, Advanced, OrderRow, LineEvents, kind
  <1>5. CASE kind \in {"order_cancelled", "order_payment_failed"}
    BY <1>0, <1>5 DEF PlanEffect, PlanLines, Advanced, OrderRow, LineEvents, kind
  <1>6. CASE kind \notin LineEvents \union {"order_picked", "order_returned",
                                            "order_cancelled", "order_payment_failed"}
    BY <1>0, <1>6 DEF PlanEffect, PlanLines, Advanced, OrderRow, LineEvents, kind
  <1> QED
    BY <1>1, <1>2, <1>3, <1>4, <1>5, <1>6 DEF LineEvents

\* The rows of one order in the two tables, after the n-th event left it in s.
SameColumns(row, order, n, s) ==
    /\ row.status = s /\ order.status = s
    /\ row.last_sequence_no = n /\ order.last_sequence_no = n
    /\ order.line_count = row.line_count
    /\ order.gross_amount = row.gross_amount
    /\ order.picked_line_count = row.picked_line_count
    /\ s # "PICKING" => order.net_amount = row.net_amount
    /\ row.substituted_lines = CountOf(order.lines, "substituted")
    /\ row.removed_lines = CountOf(order.lines, "removed")

\* The lines and the amounts of the order: those settled so far while it may be
\* picked, what came of picking once it was, and nothing if it never will be.
Staged(log, fate, n, s, order) ==
    LET late == {"PICKED", "IN_TRANSIT", "DELIVERED", "DELIVERY_FAILED", "RETURNED"}
        sum  == SumOf(Effective(fate.lines), Lines, Kept(fate.lines))
    IN  /\ s \in {"PLACED", "CONFIRMED", "PICKING"} =>
             order.lines = Settled(fate.lines, Touched(log, n))
        /\ s \in {"PAYMENT_FAILED", "CANCELLED"} =>
             order.lines = ClosedLines(Settled(fate.lines, {}))
        /\ s \in {"PLACED", "CONFIRMED", "PAYMENT_FAILED", "CANCELLED"} => order.net_amount = Null
        /\ s \notin late => order.picked_line_count = Null
        /\ s # "RETURNED" => order.returned_amount = 0
        /\ s \in late =>
             /\ order.lines = PickedLines(Settled(fate.lines, Changed(fate.lines)))
             /\ order.net_amount = sum
        /\ order.returned_amount <= sum

\* The n-th event of a log left this row and this order.
Agree(log, fate, n, row, order) ==
    LET s == SourceAfter[log[n].event_type]
    IN  /\ row = PrefixRow(log, n) /\ row \in Row
        /\ order \in OrderRow /\ AreRows(order.lines)
        /\ SameColumns(row, order, n, s)
        /\ Staged(log, fate, n, s, order)

\* The next event, and the states it is legal between.
LEMMA NextEvent ==
    ASSUME NEW fate \in Fates, NEW log, Tells(log, fate), NEW n \in 1 .. Len(log) - 1
    PROVE  LET event == log[n + 1]
               kind  == event.event_type
           IN  /\ kind \in EventTypes \ {"order_placed"}
               /\ event.sequence_no = n + 1
               /\ SourceAfter[log[n].event_type] \in SourceBefore[kind]
               /\ IsTrue(log, fate, n + 1)
               /\ n \in 0 .. Len(log) - 1 /\ n + 1 \in 1 .. Len(log) /\ n \in Nat
  <1>1. Len(log) \in Nat /\ DOMAIN log = 1 .. Len(log)
    BY PrefixFacts, 1 \in 0 .. 1 DEF Tells, IsOrderLog
  <1>2. n \in Nat /\ n \in 0 .. Len(log) - 1 /\ n + 1 \in 1 .. Len(log) /\ n + 1 # 1
    BY <1>1
  <1> QED
    BY <1>1, <1>2 DEF Tells, IsOrderLog, IsLegal

\* What one more event adds to the lines that are touched.
LEMMA TouchedMore ==
    ASSUME NEW log, NEW n \in Nat
    PROVE  Touched(log, n + 1)
             = Touched(log, n) \union (IF log[n + 1].event_type \in LineEvents
                                       THEN {log[n + 1].payload.line_no} ELSE {})
  <1>1. \A i : i \in 1 .. n + 1 <=> i \in 1 .. n \/ i = n + 1
    OBVIOUS
  <1> QED
    BY <1>1 DEF Touched

\* The events of a log name lines of the order.
LEMMA TouchedAreLines ==
    ASSUME NEW fate, NEW log, Tells(log, fate), NEW n \in 0 .. Len(log)
    PROVE  Touched(log, n) \subseteq Line
  <1>1. Len(log) \in Nat
    BY DEF Tells, IsOrderLog
  <1>2. 1 .. n \subseteq 1 .. Len(log)
    BY <1>1
  <1> QED
    BY <1>2 DEF Touched, Tells, IsTrue, Changed

\* What the plan of the next event requires and leaves.
Moves(log, fate, n, order) ==
    LET event == log[n + 1]
        kind  == event.event_type
        new   == PlanLines(order, event)
    IN  /\ PlanHolds(order, event)
        /\ AreRows(new)
        /\ CountOf(new, "substituted") = CountOf(order.lines, "substituted")
                                           + (IF kind = "order_line_substituted" THEN 1 ELSE 0)
        /\ CountOf(new, "removed") = CountOf(order.lines, "removed")
                                           + (IF kind = "order_line_removed" THEN 1 ELSE 0)
        /\ kind = "order_picked" => LineSum(new) = event.payload.picked_amount
        /\ Staged(log, fate, n + 1, SourceAfter[kind], PlanEffect(order, event))

\* What every plan supposes of the order.
LEMMA NextCanAdvance ==
    ASSUME NEW fate \in Fates, NEW log, Tells(log, fate), NEW n \in 1 .. Len(log) - 1,
           NEW row, NEW order, Agree(log, fate, n, row, order)
    PROVE  LET event == log[n + 1]
               kind  == event.event_type
           IN  /\ CanAdvance(order, event) /\ kind \in DOMAIN OltpAfter
               /\ order.status \in SourceBefore[kind]
               /\ order.status = SourceAfter[log[n].event_type]
               /\ CountOf(order.lines, "substituted") \in Nat
               /\ CountOf(order.lines, "removed") \in Nat
  <1> DEFINE event == log[n + 1]
             kind  == event.event_type
             s     == SourceAfter[log[n].event_type]
  <1>1. /\ kind \in EventTypes \ {"order_placed"} /\ event.sequence_no = n + 1
        /\ s \in SourceBefore[kind] /\ n \in Nat
    BY NextEvent
  <1>2. order \in OrderRow /\ order.status = s /\ order.last_sequence_no = n
        /\ AreRows(order.lines)
    BY DEF Agree, SameColumns
  <1>3. order # Null
    BY <1>2, NoOrderAssumption
  <1> HIDE DEF event, s
  <1>4. n = event.sequence_no - 1
    BY <1>1
  <1>5. CanAdvance(order, event)
    BY <1>1, <1>2, <1>3, <1>4, PlanTables DEF CanAdvance
  <1>6. \A status : InStatus(order.lines, status) \in SUBSET Line
    BY <1>2 DEF InStatus, AreRows
  <1>7. \A status : CountOf(order.lines, status) \in Nat
    BY <1>6, FiniteLines DEF CountOf
  <1> QED
    BY <1>1, <1>2, <1>5, <1>7, PlanTables DEF event, s

\* What an order that is picked is paid, and takes back.
LEMMA SumFacts ==
    ASSUME NEW fate \in Fates
    PROVE  LET sum == SumOf(Effective(fate.lines), Lines, Kept(fate.lines))
           IN  /\ sum \in Nat
               /\ fate.returned \in Kept(fate.lines) =>
                    /\ Effective(fate.lines)[fate.returned] \in Nat
                    /\ Effective(fate.lines)[fate.returned] <= sum
  <1> DEFINE eff == Effective(fate.lines)
             kept == Kept(fate.lines)
  <1>1. Lines \in Nat /\ Line = 1 .. Lines /\ fate.lines \in [Line -> LineFates]
    BY LinesAre DEF Fates
  <1>2. eff \in [1 .. Lines -> Nat] /\ kept \in SUBSET (1 .. Lines)
    BY <1>1, KeptSumIs
  <1> HIDE DEF eff, kept
  <1>3. Adds(eff, Lines, kept)
    BY <1>1, <1>2, SumOfStep
  <1>4. fate.returned \in kept => eff[fate.returned] \in Nat
    BY <1>2
  <1> QED
    BY <1>3, <1>4 DEF Adds, eff, kept

\* An event that changes no line.
LEMMA QuietMoves ==
    ASSUME NEW fate \in Fates, NEW log, Tells(log, fate), NEW n \in 1 .. Len(log) - 1,
           NEW row, NEW order, Agree(log, fate, n, row, order),
           log[n + 1].event_type \in {"order_payment_authorized", "order_picking_started",
                                      "order_dispatched", "order_delivered",
                                      "order_delivery_failed", "order_returned"}
    PROVE  Moves(log, fate, n, order)
  <1> DEFINE event == log[n + 1]
             kind  == event.event_type
             s     == SourceAfter[log[n].event_type]
             lines == fate.lines
             sum   == SumOf(Effective(lines), Lines, Kept(lines))
             next  == PlanEffect(order, event)
  <1>1. /\ CanAdvance(order, event) /\ kind \in DOMAIN OltpAfter /\ s \in SourceBefore[kind]
        /\ CountOf(order.lines, "substituted") \in Nat
        /\ CountOf(order.lines, "removed") \in Nat
    BY NextCanAdvance
  <1>2. /\ kind \in EventTypes \ {"order_placed"} /\ IsTrue(log, fate, n + 1) /\ n \in Nat
    BY NextEvent
  <1>3. order \in OrderRow /\ AreRows(order.lines) /\ Staged(log, fate, n, s, order)
    BY DEF Agree
  <1> HIDE DEF s, event
  <1>4. PlanHolds(order, event)
    BY <1>1 DEF PlanHolds, LineEvents, event
  <1>5. PlanLines(order, event) = order.lines
    BY DEF PlanLines, event
  <1>6. /\ next.lines = order.lines /\ next.net_amount = order.net_amount
        /\ next.picked_line_count = order.picked_line_count
        /\ next.returned_amount = IF kind = "order_returned" THEN event.payload.returned_amount
                                  ELSE order.returned_amount
    BY <1>2, <1>3, <1>5, PlanColumns DEF LineEvents, event
  <1>7. Touched(log, n + 1) = Touched(log, n)
    BY <1>2, TouchedMore DEF LineEvents, event
  <1>8. sum \in Nat
    BY SumFacts
  <1> HIDE DEF next, sum
  <1>9. Staged(log, fate, n + 1, SourceAfter[kind], next)
    <2>1. CASE kind = "order_payment_authorized"
      <3>1. s = "PLACED" /\ SourceAfter[kind] = "CONFIRMED"
        BY <1>1, <2>1 DEF SourceBefore, SourceAfter
      <3> QED
        BY <1>3, <1>6, <1>7, <2>1, <3>1 DEF Staged
    <2>2. CASE kind = "order_picking_started"
      <3>1. s = "CONFIRMED" /\ SourceAfter[kind] = "PICKING"
        BY <1>1, <2>2 DEF SourceBefore, SourceAfter
      <3> QED
        BY <1>3, <1>6, <1>7, <2>2, <3>1 DEF Staged
    <2>3. CASE kind = "order_dispatched"
      <3>1. s = "PICKED" /\ SourceAfter[kind] = "IN_TRANSIT"
        BY <1>1, <2>3 DEF SourceBefore, SourceAfter
      <3> QED
        BY <1>3, <1>6, <2>3, <3>1 DEF Staged
    <2>4. CASE kind \in {"order_delivered", "order_delivery_failed"}
      <3>1. s = "IN_TRANSIT" /\ SourceAfter[kind] \in {"DELIVERED", "DELIVERY_FAILED"}
        BY <1>1, <2>4 DEF SourceBefore, SourceAfter
      <3> QED
        BY <1>3, <1>6, <2>4, <3>1 DEF Staged
    <2>5. CASE kind = "order_returned"
      <3>1. s = "DELIVERED" /\ SourceAfter[kind] = "RETURNED"
        BY <1>1, <2>5 DEF SourceBefore, SourceAfter
      <3>2. event.payload = Returned(fate).payload /\ fate.returned \in Kept(lines)
        BY <1>2, <2>5 DEF IsTrue, event
      <3>3. event.payload.returned_amount <= sum
        BY <3>2, PayloadsAreNumbers, SumFacts DEF sum
      <3> QED
        BY <1>3, <1>6, <2>5, <3>1, <3>3 DEF Staged, sum
    <2> QED
      BY <2>1, <2>2, <2>3, <2>4, <2>5 DEF event
  <1>10. kind \notin {"order_line_substituted", "order_line_removed", "order_picked"}
    BY DEF event
  <1> QED
    BY <1>1, <1>3, <1>4, <1>5, <1>9, <1>10 DEF Moves, event, next

\* An event that ends the order before it is picked.
LEMMA EndMoves ==
    ASSUME NEW fate \in Fates, NEW log, Tells(log, fate), NEW n \in 1 .. Len(log) - 1,
           NEW row, NEW order, Agree(log, fate, n, row, order),
           log[n + 1].event_type \in {"order_payment_failed", "order_cancelled"}
    PROVE  Moves(log, fate, n, order)
  <1> DEFINE event == log[n + 1]
             kind  == event.event_type
             s     == SourceAfter[log[n].event_type]
             lines == fate.lines
             sum   == SumOf(Effective(lines), Lines, Kept(lines))
             next  == PlanEffect(order, event)
             new   == ClosedLines(order.lines)
  <1>1. /\ CanAdvance(order, event) /\ kind \in DOMAIN OltpAfter /\ s \in SourceBefore[kind]
        /\ CountOf(order.lines, "substituted") \in Nat
        /\ CountOf(order.lines, "removed") \in Nat
    BY NextCanAdvance
  <1>2. kind \in EventTypes \ {"order_placed"} /\ IsTrue(log, fate, n + 1) /\ n \in Nat
    BY NextEvent
  <1>3. order \in OrderRow /\ AreRows(order.lines) /\ Staged(log, fate, n, s, order)
    BY DEF Agree
  <1> HIDE DEF s, event
  <1>4. PlanHolds(order, event)
    BY <1>1 DEF PlanHolds, LineEvents, event
  <1>5. PlanLines(order, event) = new
    BY DEF PlanLines, event
  <1>6. /\ next.lines = new /\ next.net_amount = order.net_amount
        /\ next.picked_line_count = order.picked_line_count
        /\ next.returned_amount = order.returned_amount
    BY <1>2, <1>3, <1>5, PlanColumns DEF LineEvents, event
  <1>7. s \in {"PLACED", "CONFIRMED"} /\ SourceAfter[kind] \in {"PAYMENT_FAILED", "CANCELLED"}
    BY <1>1 DEF SourceBefore, SourceAfter, event
  <1>8. order.lines = Settled(lines, {})
    <2>1. Touched(log, n + 1) = {}
      BY <1>2 DEF IsTrue, event
    <2>2. Touched(log, n) = {}
      BY <1>2, <2>1, TouchedMore
    <2> QED
      BY <1>3, <1>7, <2>2 DEF Staged
  <1> HIDE DEF next
  <1>9. Staged(log, fate, n + 1, SourceAfter[kind], next)
    BY <1>3, <1>6, <1>7, <1>8 DEF Staged
  <1>10. /\ AreRows(new)
         /\ CountOf(new, "substituted") = CountOf(order.lines, "substituted")
         /\ CountOf(new, "removed") = CountOf(order.lines, "removed")
    BY <1>3, RelabelledRows DEF CountOf
  <1>11. kind \notin {"order_line_substituted", "order_line_removed", "order_picked"}
    BY DEF event
  <1> HIDE DEF new
  <1> QED
    BY <1>1, <1>4, <1>5, <1>9, <1>10, <1>11 DEF Moves, event, next

\* An event of a line.
LEMMA LineMoves ==
    ASSUME NEW fate \in Fates, NEW log, Tells(log, fate), NEW n \in 1 .. Len(log) - 1,
           NEW row, NEW order, Agree(log, fate, n, row, order),
           log[n + 1].event_type \in LineEvents
    PROVE  Moves(log, fate, n, order)
  <1> DEFINE event == log[n + 1]
             kind  == event.event_type
             l     == event.payload.line_no
             s     == SourceAfter[log[n].event_type]
             lines == fate.lines
             T     == Touched(log, n)
             next  == PlanEffect(order, event)
             new   == Settled(lines, T \union {l})
  <1>1. /\ CanAdvance(order, event) /\ kind \in DOMAIN OltpAfter /\ s \in SourceBefore[kind]
        /\ CountOf(order.lines, "substituted") \in Nat
        /\ CountOf(order.lines, "removed") \in Nat
    BY NextCanAdvance
  <1>2. kind \in EventTypes \ {"order_placed"} /\ IsTrue(log, fate, n + 1) /\ n \in Nat
    BY NextEvent
  <1>3. order \in OrderRow /\ AreRows(order.lines) /\ Staged(log, fate, n, s, order)
    BY DEF Agree
  <1>4. T \in SUBSET Line
    <2>1. n \in 0 .. Len(log)
      BY NextEvent
    <2> QED
      BY <2>1, TouchedAreLines
  <1>5. Touched(log, n + 1) = T \union {l}
    BY <1>2, TouchedMore
  <1> HIDE DEF s, T, event
  <1>6. /\ l \in Line \ T
        /\ kind = "order_line_substituted" =>
             lines[l] = "substituted" /\ event.payload.substitute_unit_price = SubstitutePrice[l]
        /\ kind = "order_line_removed" => lines[l] = "removed"
    BY <1>2 DEF IsTrue, event, T, Changed
  <1> HIDE DEF l
  <1>7. s = "PICKING" /\ SourceAfter[kind] = "PICKING"
    BY <1>1 DEF SourceBefore, SourceAfter, event, LineEvents
  <1>8. order.lines = Settled(lines, T)
    BY <1>3, <1>7 DEF Staged, T
  <1>9. PlanHolds(order, event)
    <2>1. l \in InStatus(order.lines, "placed")
      BY <1>4, <1>6, <1>8, SettledStatus
    <2> QED
      BY <1>1, <2>1 DEF PlanHolds, LineEvents, event, l
  <1>10. PlanLines(order, event) = new
    <2>0. SettlesOne(lines, T, l)
      BY <1>6, SettledMore
    <2>1. CASE kind = "order_line_substituted"
      <3>1. PlanLines(order, event) =
              [order.lines EXCEPT ![l] = [status      |-> "substituted",
                                          line_amount |-> SubstitutePrice[l]]]
        BY <1>6, <2>1 DEF PlanLines, l
      <3>2. [Settled(lines, T) EXCEPT ![l] = [status      |-> "substituted",
                                              line_amount |-> SubstitutePrice[l]]] = new
        BY <1>6, <2>1, <2>0 DEF SettlesOne, new
      <3> QED
        BY <1>8, <3>1, <3>2, Zenon
    <2>2. CASE kind = "order_line_removed"
      <3>1. PlanLines(order, event) =
              [order.lines EXCEPT ![l] = [status |-> "removed", line_amount |-> 0]]
        BY <2>2 DEF PlanLines, l
      <3>2. [Settled(lines, T) EXCEPT ![l] = [status |-> "removed", line_amount |-> 0]] = new
        BY <1>6, <2>2, <2>0 DEF SettlesOne, new
      <3> QED
        BY <1>8, <3>1, <3>2, Zenon
    <2> QED
      BY <2>1, <2>2 DEF event, LineEvents
  <1>11. /\ next.lines = new
         /\ next.picked_line_count = order.picked_line_count
         /\ next.returned_amount = order.returned_amount
    BY <1>2, <1>3, <1>10, PlanColumns DEF LineEvents, event
  <1>12. AreRows(new)
    BY SettledRows
  <1>13. /\ CountOf(new, "substituted") = CountOf(order.lines, "substituted")
                                           + (IF kind = "order_line_substituted" THEN 1 ELSE 0)
         /\ CountOf(new, "removed") = CountOf(order.lines, "removed")
                                           + (IF kind = "order_line_removed" THEN 1 ELSE 0)
    <2>1. /\ CountOf(new, "substituted") = CountOf(order.lines, "substituted")
                                             + (IF lines[l] = "substituted" THEN 1 ELSE 0)
          /\ CountOf(new, "removed") = CountOf(order.lines, "removed")
                                             + (IF lines[l] = "substituted" THEN 0 ELSE 1)
      BY <1>4, <1>6, <1>8, CountMore DEF CountOf
    <2>2. kind = "order_line_substituted" \/ kind = "order_line_removed"
      BY DEF event, LineEvents
    <2> QED
      BY <1>6, <2>1, <2>2
  <1> HIDE DEF new, next
  <1>14. Staged(log, fate, n + 1, SourceAfter[kind], next)
    <2>1. new = Settled(lines, Touched(log, n + 1))
      BY <1>5 DEF new
    <2> QED
      BY <1>3, <1>7, <1>11, <2>1 DEF Staged
  <1>15. kind # "order_picked"
    BY DEF event, LineEvents
  <1> QED
    BY <1>9, <1>10, <1>12, <1>13, <1>14, <1>15 DEF Moves, event, next

\* The event that closes picking.
LEMMA PickMoves ==
    ASSUME NEW fate \in Fates, NEW log, Tells(log, fate), NEW n \in 1 .. Len(log) - 1,
           NEW row, NEW order, Agree(log, fate, n, row, order),
           log[n + 1].event_type = "order_picked"
    PROVE  Moves(log, fate, n, order)
  <1> DEFINE event == log[n + 1]
             s     == SourceAfter[log[n].event_type]
             lines == fate.lines
             sum   == SumOf(Effective(lines), Lines, Kept(lines))
             next  == PlanEffect(order, event)
             new   == PickedLines(order.lines)
  <1>1. /\ CanAdvance(order, event) /\ s \in SourceBefore["order_picked"]
        /\ CountOf(order.lines, "substituted") \in Nat
        /\ CountOf(order.lines, "removed") \in Nat
    BY NextCanAdvance
  <1>2. IsTrue(log, fate, n + 1) /\ n \in Nat
    BY NextEvent
  <1>3. order \in OrderRow /\ AreRows(order.lines) /\ Staged(log, fate, n, s, order)
    BY DEF Agree
  <1>4. lines \in [Line -> LineFates]
    BY DEF Fates
  <1> HIDE DEF s, event
  <1>5. event.event_type = "order_picked" /\ event.event_type \in EventTypes \ {"order_placed"}
    BY DEF event, EventTypes
  <1>6. event.payload = Picked(lines).payload /\ Touched(log, n) = Changed(lines)
    <2>1. (n + 1) - 1 = n
      BY <1>2
    <2> QED
      BY <1>2, <1>5, <2>1 DEF IsTrue, event
  <1>7. s = "PICKING" /\ SourceAfter["order_picked"] = "PICKED"
    BY <1>1 DEF SourceBefore, SourceAfter
  <1>8. order.lines = Settled(lines, Changed(lines))
    BY <1>3, <1>6, <1>7 DEF Staged
  <1>9. /\ LineSum(new) = sum
        /\ DOMAIN order.lines \ InStatus(order.lines, "removed") = Kept(lines)
    BY <1>4, <1>8, PickedSum
  <1>10. /\ event.payload.picked_line_count = Cardinality(Kept(lines))
         /\ event.payload.picked_amount = sum
    BY <1>6, PayloadsAreNumbers
  <1>11. PlanHolds(order, event)
    BY <1>1, <1>5, <1>9, <1>10 DEF PlanHolds, LineEvents
  <1>12. PlanLines(order, event) = new
    BY <1>5 DEF PlanLines
  <1>13. /\ next.lines = new /\ next.net_amount = LineSum(new)
         /\ next.returned_amount = order.returned_amount
    BY <1>3, <1>5, <1>12, PlanColumns
  <1>14. /\ AreRows(new)
         /\ CountOf(new, "substituted") = CountOf(order.lines, "substituted")
         /\ CountOf(new, "removed") = CountOf(order.lines, "removed")
    BY <1>3, RelabelledRows DEF CountOf
  <1> HIDE DEF next
  <1>15. Staged(log, fate, n + 1, "PICKED", next)
    BY <1>3, <1>7, <1>8, <1>9, <1>13 DEF Staged
  <1> HIDE DEF new, sum
  <1> QED
    BY <1>1, <1>5, <1>7, <1>9, <1>10, <1>11, <1>12, <1>14, <1>15 DEF Moves, event, next

\* The four kinds of event.
LEMMA AllMoves ==
    ASSUME NEW fate \in Fates, NEW log, Tells(log, fate), NEW n \in 1 .. Len(log) - 1,
           NEW row, NEW order, Agree(log, fate, n, row, order)
    PROVE  Moves(log, fate, n, order)
  <1> DEFINE kind == log[n + 1].event_type
  <1>1. kind \in EventTypes \ {"order_placed"}
    BY NextEvent
  <1>2. CASE kind \in LineEvents
    BY <1>2, LineMoves
  <1>3. CASE kind = "order_picked"
    BY <1>3, PickMoves
  <1>4. CASE kind \in {"order_payment_failed", "order_cancelled"}
    BY <1>4, EndMoves
  <1>5. CASE kind \in {"order_payment_authorized", "order_picking_started",
                       "order_dispatched", "order_delivered",
                       "order_delivery_failed", "order_returned"}
    BY <1>5, QuietMoves
  <1> QED
    BY <1>1, <1>2, <1>3, <1>4, <1>5 DEF EventTypes

\* The streaming fold's row after one event more.
LEMMA RowMoves ==
    ASSUME NEW log, IsOrderLog(log), NEW n \in 1 .. Len(log) - 1,
           NEW row \in Row, row = PrefixRow(log, n)
    PROVE  /\ fold_event(row, log[n + 1]) = PrefixRow(log, n + 1)
           /\ fold_event(row, log[n + 1]) \in Row
  <1>1. n \in 0 .. Len(log) - 1 /\ n + 1 \in 1 .. Len(log)
    <2>1. Len(log) \in Nat
      BY DEF IsOrderLog
    <2> QED
      BY <2>1
  <1>2. fold_event(row, log[n + 1]) = PrefixRow(log, n + 1)
    BY <1>1, FoldStep
  <1>3. PrefixRow(log, n + 1) = Columns(log, n + 1) /\ Columns(log, n + 1) \in Row
    BY <1>1, PrefixRowIs, ColumnsType
  <1> QED
    BY <1>2, <1>3

\* The order the plan of a legal event leaves is an order.
LEMMA PlanType ==
    ASSUME NEW fate \in Fates, NEW log, Tells(log, fate), NEW n \in 1 .. Len(log) - 1,
           NEW order \in OrderRow, Moves(log, fate, n, order)
    PROVE  PlanEffect(order, log[n + 1]) \in OrderRow
  <1> DEFINE event == log[n + 1]
             kind  == event.event_type
             lines == PlanLines(order, event)
  <1>1. kind \in EventTypes \ {"order_placed"} /\ event.sequence_no \in Nat
        /\ n + 1 \in 1 .. Len(log)
    BY NextEvent
  <1>2. AreRows(lines)
    BY DEF Moves
  <1>3. lines \in Seq(LineRow) /\ LineSum(lines) \in Nat
    BY <1>2, LineSumType DEF AreRows
  <1>4. SourceAfter[kind] \in States
    BY <1>1, PlanTables
  <1>5. /\ kind = "order_picked" => event.payload.picked_line_count \in Nat
        /\ kind = "order_returned" => event.payload.returned_amount \in Nat
    <2>1. DOMAIN log = 1 .. Len(log)
      BY DEF Tells, IsOrderLog
    <2> QED
      BY <1>1, <2>1 DEF Tells, IsOrderLog
  <1>6. PlanEffect(order, event)
          = [status            |-> SourceAfter[kind],
             last_sequence_no  |-> event.sequence_no,
             line_count        |-> order.line_count,
             gross_amount      |-> order.gross_amount,
             picked_line_count |-> IF kind = "order_picked"
                                   THEN event.payload.picked_line_count ELSE order.picked_line_count,
             net_amount        |-> IF kind \in LineEvents \union {"order_picked"}
                                   THEN LineSum(lines) ELSE order.net_amount,
             returned_amount   |-> IF kind = "order_returned"
                                   THEN event.payload.returned_amount ELSE order.returned_amount,
             lines             |-> lines]
    BY <1>1, PlanColumns
  <1> HIDE DEF lines, kind
  <1>7. /\ (IF kind = "order_picked" THEN event.payload.picked_line_count
            ELSE order.picked_line_count) \in Nat \union {Null}
        /\ (IF kind \in LineEvents \union {"order_picked"} THEN LineSum(lines)
            ELSE order.net_amount) \in Nat \union {Null}
        /\ (IF kind = "order_returned" THEN event.payload.returned_amount
            ELSE order.returned_amount) \in Nat
        /\ order.line_count \in Nat /\ order.gross_amount \in Nat
    BY <1>3, <1>5 DEF OrderRow
  <1> HIDE DEF event
  <1> QED
    BY <1>1, <1>3, <1>4, <1>6, <1>7 DEF OrderRow, event

\* Both folds take the same columns from the next event.
LEMMA ColumnsMove ==
    ASSUME NEW fate \in Fates, NEW log, Tells(log, fate), NEW n \in 1 .. Len(log) - 1,
           NEW row, NEW order, Agree(log, fate, n, row, order), Moves(log, fate, n, order)
    PROVE  SameColumns(fold_event(row, log[n + 1]), PlanEffect(order, log[n + 1]), n + 1,
                       SourceAfter[log[n + 1].event_type])
  <1> DEFINE event == log[n + 1]
             kind  == event.event_type
             s     == SourceAfter[log[n].event_type]
             lines == PlanLines(order, event)
             next  == PlanEffect(order, event)
             fold  == fold_event(row, event)
  <1>1. kind \in EventTypes \ {"order_placed"} /\ event.sequence_no = n + 1
        /\ s \in SourceBefore[kind]
    BY NextEvent
  <1>2. row \in Row /\ order \in OrderRow /\ SameColumns(row, order, n, s)
    BY DEF Agree
  <1>3. /\ next.status = SourceAfter[kind] /\ next.last_sequence_no = n + 1
        /\ next.line_count = order.line_count /\ next.gross_amount = order.gross_amount
        /\ next.picked_line_count = (IF kind = "order_picked"
                                     THEN event.payload.picked_line_count ELSE order.picked_line_count)
        /\ next.net_amount = (IF kind \in LineEvents \union {"order_picked"}
                              THEN LineSum(lines) ELSE order.net_amount)
        /\ next.lines = lines
    BY <1>1, <1>2, PlanColumns
  <1>4. /\ fold.status = StateAfter[kind] /\ fold.last_sequence_no = n + 1
        /\ fold.line_count = row.line_count /\ fold.gross_amount = row.gross_amount
        /\ fold.picked_line_count = (IF kind = "order_picked"
                                     THEN event.payload.picked_line_count ELSE row.picked_line_count)
        /\ fold.net_amount = (IF kind = "order_picked"
                              THEN event.payload.picked_amount ELSE row.net_amount)
        /\ fold.substituted_lines = (IF kind = "order_line_substituted"
                                     THEN row.substituted_lines + 1 ELSE row.substituted_lines)
        /\ fold.removed_lines = (IF kind = "order_line_removed"
                                 THEN row.removed_lines + 1 ELSE row.removed_lines)
    BY <1>1, <1>2, FoldColumns
  <1>5. StateAfter[kind] = SourceAfter[kind]
    BY <1>1, PlanTables
  <1>6. /\ CountOf(lines, "substituted") = CountOf(order.lines, "substituted")
                                             + (IF kind = "order_line_substituted" THEN 1 ELSE 0)
        /\ CountOf(lines, "removed") = CountOf(order.lines, "removed")
                                             + (IF kind = "order_line_removed" THEN 1 ELSE 0)
        /\ kind = "order_picked" => LineSum(lines) = event.payload.picked_amount
    BY DEF Moves
  <1>7. row.substituted_lines \in Nat /\ row.removed_lines \in Nat
    BY <1>2 DEF Row
  <1> HIDE DEF next, fold, lines, s, kind
  <1>8. /\ fold.substituted_lines = CountOf(next.lines, "substituted")
        /\ fold.removed_lines = CountOf(next.lines, "removed")
    BY <1>2, <1>3, <1>4, <1>6, <1>7 DEF SameColumns
  <1>9. SourceAfter[kind] # "PICKING" => next.net_amount = fold.net_amount
    <2>1. CASE kind = "order_picked"
      BY <1>3, <1>4, <1>6, <2>1
    <2>2. CASE kind \in LineEvents
      BY <2>2 DEF LineEvents, SourceAfter
    <2>3. CASE kind \notin LineEvents \union {"order_picked"}
      <3>1. s # "PICKING"
        BY <1>1, <2>3 DEF EventTypes, LineEvents, SourceBefore
      <3> QED
        BY <1>2, <1>3, <1>4, <2>3, <3>1 DEF SameColumns
    <2> QED
      BY <2>1, <2>2, <2>3
  <1>10. SameColumns(fold, next, n + 1, SourceAfter[kind])
    BY <1>2, <1>3, <1>4, <1>5, <1>8, <1>9 DEF SameColumns
  <1> QED
    BY <1>10 DEF fold, next, kind

\* One event more: the plan of it holds, and the two folds agree after it.
LEMMA AgreeMoves ==
    ASSUME NEW fate \in Fates, NEW log, Tells(log, fate), NEW n \in 1 .. Len(log) - 1,
           NEW row, NEW order, Agree(log, fate, n, row, order)
    PROVE  /\ PlanHolds(order, log[n + 1])
           /\ Agree(log, fate, n + 1, fold_event(row, log[n + 1]), PlanEffect(order, log[n + 1]))
  <1> DEFINE event == log[n + 1]
             s     == SourceAfter[event.event_type]
             next  == PlanEffect(order, event)
             fold  == fold_event(row, event)
  <1>1. Moves(log, fate, n, order)
    BY AllMoves
  <1>2. row = PrefixRow(log, n) /\ row \in Row /\ order \in OrderRow
    BY DEF Agree
  <1>3. fold = PrefixRow(log, n + 1) /\ fold \in Row
    BY <1>2, RowMoves DEF Tells
  <1>4. next \in OrderRow
    BY <1>1, <1>2, PlanType
  <1>5. SameColumns(fold, next, n + 1, s)
    BY <1>1, ColumnsMove
  <1>6. next.lines = PlanLines(order, event)
    <2>1. event.event_type \in EventTypes \ {"order_placed"}
      BY NextEvent
    <2> QED
      BY <1>2, <2>1, PlanColumns
  <1>7. AreRows(next.lines)
    <2>1. AreRows(PlanLines(order, event))
      BY <1>1 DEF Moves
    <2> QED
      BY <1>6, <2>1, Zenon
  <1>8. Staged(log, fate, n + 1, s, next) /\ PlanHolds(order, event)
    BY <1>1 DEF Moves
  <1> HIDE DEF event, s, next, fold
  <1>9. Agree(log, fate, n + 1, fold, next)
    BY <1>3, <1>4, <1>5, <1>7, <1>8 DEF Agree, s, event
  <1> QED
    BY <1>8, <1>9 DEF fold, next, event

\* The first event: the order is placed in both folds.
LEMMA AgreeFirst ==
    ASSUME NEW fate \in Fates, NEW log, Tells(log, fate)
    PROVE  /\ PlanHolds(Null, log[1])
           /\ Agree(log, fate, 1, fold_event(Null, log[1]), PlanEffect(Null, log[1]))
  <1> DEFINE event == log[1]
             fold  == fold_event(Null, event)
             order == PlanEffect(Null, event)
  <1>1. IsOrderLog(log) /\ Len(log) > 0 /\ Len(log) \in Nat /\ 1 \in 1 .. Len(log)
        /\ DOMAIN log = 1 .. Len(log)
    BY DEF Tells, IsOrderLog
  <1>2. event.event_type = "order_placed" /\ event.sequence_no = 1
    BY <1>1 DEF IsOrderLog
  <1>3. event.payload = Placed.payload
    BY <1>1, <1>2 DEF Tells, IsTrue
  <1>4. /\ event.payload.line_count = Lines
        /\ event.payload.gross_amount = SumOf(Price, Lines, Line)
        /\ event.payload.lines = Price
        /\ SumOf(Price, Lines, Line) \in Nat
        /\ SumOf(Effective(fate.lines), Lines, Kept(fate.lines)) \in Nat
    BY <1>3, PayloadsAreNumbers
  <1>5. Lines \in Nat /\ DOMAIN Price = Line
    BY LinesAre, LineAssumption
  <1> HIDE DEF event
  <1>6. Settled(fate.lines, {}) = [l \in Line |-> [status |-> "placed", line_amount |-> Price[l]]]
    BY DEF Settled
  <1>7. order = [status            |-> "PLACED",
                 last_sequence_no  |-> 1,
                 line_count        |-> Lines,
                 gross_amount      |-> SumOf(Price, Lines, Line),
                 picked_line_count |-> Null,
                 net_amount        |-> Null,
                 returned_amount   |-> 0,
                 lines             |-> Settled(fate.lines, {})]
    BY <1>2, <1>4, <1>5, <1>6 DEF PlanEffect, InsertedOrder
  <1>8. fold = [status            |-> "PLACED",
                last_sequence_no  |-> 1,
                events_applied    |-> 1,
                line_count        |-> Lines,
                gross_amount      |-> SumOf(Price, Lines, Line),
                substituted_lines |-> 0,
                removed_lines     |-> 0,
                picked_line_count |-> Null,
                net_amount        |-> Null,
                returned_amount   |-> Null]
    BY <1>2, <1>4 DEF fold_event, PlacedRow
  <1>9. fold = PrefixRow(log, 1) /\ fold \in Row
    <2>1. PrefixRow(log, 0) = Null
      BY <1>1, NoRowAtZero
    <2>2. fold = PrefixRow(log, 1)
      BY <1>1, <2>1, FoldFirst DEF event
    <2>3. PrefixRow(log, 1) = Columns(log, 1) /\ Columns(log, 1) \in Row
      BY <1>1, PrefixRowIs, ColumnsType
    <2> QED
      BY <2>2, <2>3
  <1>10. AreRows(Settled(fate.lines, {}))
    BY SettledRows
  <1>11. Settled(fate.lines, {}) \in Seq(LineRow)
    BY <1>10 DEF AreRows
  <1>12. order \in OrderRow
    <2> HIDE DEF order
    <2> QED
      BY <1>4, <1>5, <1>7, <1>11 DEF OrderRow, States
  <1>13. Touched(log, 1) = {}
    BY <1>2 DEF Touched, LineEvents, event
  <1>14. CountOf(order.lines, "substituted") = 0 /\ CountOf(order.lines, "removed") = 0
    <2>1. InStatus(Settled(fate.lines, {}), "substituted") = {}
          /\ InStatus(Settled(fate.lines, {}), "removed") = {}
      BY SettledStatus
    <2> QED
      BY <1>7, <2>1, FS_EmptySet DEF CountOf
  <1>15. SourceAfter[event.event_type] = "PLACED"
    BY <1>2 DEF SourceAfter
  <1> HIDE DEF fold, order
  <1>16. SameColumns(fold, order, 1, "PLACED")
    BY <1>7, <1>8, <1>14 DEF SameColumns
  <1>17. Staged(log, fate, 1, "PLACED", order)
    BY <1>4, <1>7, <1>13 DEF Staged
  <1>18. AreRows(order.lines)
    BY <1>7, <1>10
  <1>19. Agree(log, fate, 1, fold, order)
    BY <1>9, <1>12, <1>15, <1>16, <1>17, <1>18 DEF Agree, event
  <1>20. PlanHolds(Null, event)
    BY <1>2 DEF PlanHolds, LineEvents
  <1> QED
    BY <1>19, <1>20 DEF fold, order, event

\* What holds of an order that has been folded so far.
FoldedTo(log, fate, n, row, order) ==
    /\ fate \in Fates /\ Tells(log, fate) /\ n \in 0 .. Len(log)
    /\ n = 0 => row = Null /\ order = Null
    /\ n > 0 => Agree(log, fate, n, row, order)

\* The streaming row is the Silver row of the prefix, from the start.
LEMMA FoldedRow ==
    ASSUME NEW log, NEW fate, NEW n, NEW row, NEW order, FoldedTo(log, fate, n, row, order)
    PROVE  /\ IsOrderLog(log) /\ row = PrefixRow(log, n)
           /\ n \in Nat /\ (n = 0 \/ n > 0)
           /\ row = Null <=> n = 0
           /\ order = Null <=> n = 0
           /\ n < Len(log) => n \in 0 .. Len(log) - 1 /\ n + 1 \in 1 .. Len(log)
  <1>1. IsOrderLog(log) /\ n \in 0 .. Len(log) /\ Len(log) \in Nat
    BY DEF FoldedTo, Tells, IsOrderLog
  <1>2. n \in Nat /\ (n = 0 \/ n > 0)
    BY <1>1
  <1>3. row = PrefixRow(log, n)
    BY <1>1, <1>2, NoRowAtZero DEF FoldedTo, Agree
  <1>4. row = Null <=> n = 0
    BY <1>1, <1>3, LastSeqOfPrefix
  <1>5. order = Null <=> n = 0
    BY <1>2, NoOrderAssumption DEF FoldedTo, Agree
  <1>6. n < Len(log) => n \in 0 .. Len(log) - 1 /\ n + 1 \in 1 .. Len(log)
    BY <1>1
  <1> QED
    BY <1>1, <1>2, <1>3, <1>4, <1>5, <1>6

\* The next event is accepted by all, and leaves an order that is folded too.
LEMMA FoldedNext ==
    ASSUME NEW log, NEW fate, NEW n, NEW row, NEW order, FoldedTo(log, fate, n, row, order),
           n < Len(log)
    PROVE  /\ decide(row, log[n + 1]) = "apply"
           /\ ~FoldRaises(row, log[n + 1])
           /\ PlanHolds(order, log[n + 1])
           /\ TransitionAllowed(IF order = Null THEN Null ELSE order.status,
                                log[n + 1].event_type)
           /\ FoldedTo(log, fate, n + 1, fold_event(row, log[n + 1]),
                     PlanEffect(order, log[n + 1]))
  <1> DEFINE event == log[n + 1]
  <1>1. /\ IsOrderLog(log) /\ row = PrefixRow(log, n)
        /\ n \in Nat /\ (n = 0 \/ n > 0)
        /\ row = Null <=> n = 0
        /\ order = Null <=> n = 0
        /\ n \in 0 .. Len(log) - 1 /\ n + 1 \in 1 .. Len(log) /\ n \in 0 .. Len(log)
        /\ Len(log) \in Nat
    <2>1. Len(log) \in Nat /\ n \in 0 .. Len(log)
      BY DEF FoldedTo, Tells, IsOrderLog
    <2> QED
      BY <2>1, FoldedRow
  <1>2. /\ event.sequence_no = n + 1 /\ event.event_type \in EventTypes
        /\ event.event_type = "order_placed" <=> n = 0
    BY <1>1 DEF IsOrderLog
  <1>3. decide(row, event) = "apply"
    <2>1. LastSeq(row) = n
      BY <1>1, LastSeqOfPrefix
    <2> HIDE DEF event
    <2> QED
      BY <1>1, <1>2, <2>1 DEF decide
  <1>4. ~FoldRaises(row, event)
    <2>1. event.event_type \in DOMAIN StateAfter
      BY <1>2 DEF EventTypes, LineEvents, StateAfter
    <2> QED
      BY <1>1, <1>2, <2>1 DEF FoldRaises
  <1>5. /\ PlanHolds(order, event)
        /\ Agree(log, fate, n + 1, fold_event(row, event), PlanEffect(order, event))
    <2>1. CASE n = 0
      <3>1. row = Null /\ order = Null /\ n + 1 = 1
        BY <1>1, <2>1
      <3>2. /\ PlanHolds(Null, log[1])
            /\ Agree(log, fate, 1, fold_event(Null, log[1]), PlanEffect(Null, log[1]))
        BY AgreeFirst DEF FoldedTo
      <3> QED
        BY <3>1, <3>2
    <2>2. CASE n > 0
      <3>1. n \in 1 .. Len(log) - 1
        BY <1>1, <2>2
      <3> QED
        BY <2>2, <3>1, AgreeMoves DEF FoldedTo
    <2> QED
      BY <1>1, <2>1, <2>2
  <1>6. TransitionAllowed(IF order = Null THEN Null ELSE order.status, event.event_type)
    <2>1. CASE n = 0
      BY <1>1, <1>2, <2>1, FoldAssumption DEF TransitionAllowed, SourceBefore, SourceTerminal, States
    <2>2. CASE n > 0
      <3>1. n \in 1 .. Len(log) - 1
        BY <1>1, <2>2
      <3>2. order.status \in SourceBefore[event.event_type] /\ order # Null
        BY <1>1, <2>2, <3>1, NextEvent DEF FoldedTo, Agree, SameColumns
      <3>3. \A kind \in EventTypes \ {"order_placed"} :
              \A s \in SourceBefore[kind] : s \notin SourceTerminal
        BY DEF EventTypes, LineEvents, SourceBefore, SourceTerminal
      <3> HIDE DEF event
      <3> QED
        BY <1>2, <2>2, <3>2, <3>3 DEF TransitionAllowed
    <2> QED
      BY <1>1, <2>1, <2>2
  <1>7. n + 1 \in 0 .. Len(log) /\ n + 1 # 0
    BY <1>1
  <1>8. FoldedTo(log, fate, n + 1, fold_event(row, event), PlanEffect(order, event))
    BY <1>5, <1>7 DEF FoldedTo
  <1> QED
    BY <1>3, <1>4, <1>5, <1>6, <1>8

\* What a folded order says of the two rows and of its money.
LEMMA FoldedAgrees ==
    ASSUME NEW log, NEW fate, NEW n, NEW row, NEW order, FoldedTo(log, fate, n, row, order),
           order # Null
    PROVE  /\ row.status \in States /\ row.events_applied \in Nat
           /\ order.status \in States
           /\ \A l \in DOMAIN order.lines : order.lines[l].status \in LineStatuses
           /\ Divergences(OltpRow(order), row) \subseteq
                (IF order.status = "PICKING" THEN {"net_amount"} ELSE {})
           /\ order.picked_line_count # Null =>
                /\ order.net_amount = LineSum(order.lines)
                /\ order.returned_amount <= order.net_amount
           /\ order.status \notin {"PLACED", "CONFIRMED", "PICKING"} =>
                InStatus(order.lines, "placed") = {}
           /\ order.status \in {"PAYMENT_FAILED", "CANCELLED"} =>
                order.net_amount = Null /\ LineSum(order.lines) = 0
  <1> DEFINE s == SourceAfter[log[n].event_type]
  <1>1. fate \in Fates /\ n > 0
    BY FoldedRow DEF FoldedTo
  <1>2. /\ row \in Row /\ order \in OrderRow /\ AreRows(order.lines)
        /\ SameColumns(row, order, n, s) /\ Staged(log, fate, n, s, order)
    BY <1>1 DEF FoldedTo, Agree
  <1> HIDE DEF s
  <1>3. order.status = s /\ s \in States /\ row.status \in States /\ row.events_applied \in Nat
    BY <1>2 DEF SameColumns, OrderRow, Row
  <1>4. \A l \in DOMAIN order.lines : order.lines[l].status \in LineStatuses
    BY <1>2, RowOfALine DEF AreRows, LineRow
  <1>5. Divergences(OltpRow(order), row) \subseteq (IF s = "PICKING" THEN {"net_amount"} ELSE {})
    BY <1>2 DEF Divergences, OltpRow, Compared, SameColumns, CountOf
  <1> DEFINE late  == {"PICKED", "IN_TRANSIT", "DELIVERED", "DELIVERY_FAILED", "RETURNED"}
             start == Settled(fate.lines, {})
             done  == Settled(fate.lines, Changed(fate.lines))
             sum   == SumOf(Effective(fate.lines), Lines, Kept(fate.lines))
  <1>6. /\ s \in late => order.lines = PickedLines(done) /\ order.net_amount = sum
        /\ s \notin late => order.picked_line_count = Null
        /\ order.returned_amount <= sum
        /\ s \in {"PAYMENT_FAILED", "CANCELLED"} =>
             order.lines = ClosedLines(start) /\ order.net_amount = Null
    BY <1>2 DEF Staged
  <1>7. /\ LineSum(PickedLines(done)) = sum
        /\ InStatus(PickedLines(done), "placed") = {}
        /\ InStatus(ClosedLines(start), "placed") = {}
        /\ LineSum(ClosedLines(start)) = 0
    <2>1. AreRows(done) /\ AreRows(start)
      BY SettledRows
    <2>2. fate.lines \in [Line -> LineFates]
      BY <1>1 DEF Fates
    <2>3. LineSum(PickedLines(done)) = sum
      BY <2>2, PickedSum
    <2>4. LineSum(ClosedLines(start)) = 0
      BY ClosedSum
    <2> HIDE DEF done, start
    <2>5. InStatus(PickedLines(done), "placed") = {} /\ InStatus(ClosedLines(start), "placed") = {}
      BY <2>1, RelabelledRows
    <2> QED
      BY <2>3, <2>4, <2>5
  <1> HIDE DEF done, start, sum
  <1>8. order.picked_line_count # Null =>
          /\ order.net_amount = LineSum(order.lines)
          /\ order.returned_amount <= order.net_amount
    BY <1>6, <1>7
  <1>9. s \notin {"PLACED", "CONFIRMED", "PICKING"} => InStatus(order.lines, "placed") = {}
    BY <1>3, <1>6, <1>7 DEF States
  <1>10. s \in {"PAYMENT_FAILED", "CANCELLED"} =>
           order.net_amount = Null /\ LineSum(order.lines) = 0
    BY <1>6, <1>7
  <1> QED
    BY <1>3, <1>4, <1>5, <1>8, <1>9, <1>10

-----------------------------------------------------------------------------
\* Some fate of the order accounts for the log and for what both folds made of
\* the events read so far.
FoldInvariant == \E fate \in Fates : FoldedTo(foldLog, fate, foldRead, foldRow, foldOrder)

\* Before the first event the log is a lifecycle and neither fold has a row.
LEMMA FoldInvariantInit == FoldsInit => FoldInvariant
  <1> SUFFICES ASSUME FoldsInit
               PROVE  FoldInvariant
    OBVIOUS
  <1>1. PICK fate \in Fates : foldLog = Lifecycle(OrderId, fate)
    BY DEF FoldsInit
  <1>2. Tells(foldLog, fate)
    BY <1>1, LifecycleTells
  <1>3. Len(foldLog) \in Nat
    BY <1>2 DEF Tells, IsOrderLog
  <1>4. FoldedTo(foldLog, fate, foldRead, foldRow, foldOrder)
    BY <1>2, <1>3 DEF FoldedTo, FoldsInit
  <1> QED
    BY <1>4 DEF FoldInvariant

\* One event more, or the end of the log, keeps that account.
LEMMA FoldInvariantStep == FoldInvariant /\ [FoldsNext]_foldVars => FoldInvariant'
  <1> SUFFICES ASSUME FoldInvariant, [FoldsNext]_foldVars
               PROVE  FoldInvariant'
    OBVIOUS
  <1>1. PICK fate \in Fates : FoldedTo(foldLog, fate, foldRead, foldRow, foldOrder)
    BY DEF FoldInvariant
  <1>2. CASE ApplyNext
    <2>1. foldRead < Len(foldLog)
      BY <1>2 DEF ApplyNext
    <2>2. FoldedTo(foldLog, fate, foldRead + 1, fold_event(foldRow, foldLog[foldRead + 1]),
                 PlanEffect(foldOrder, foldLog[foldRead + 1]))
      BY <1>1, <2>1, FoldedNext
    <2>3. FoldedTo(foldLog', fate, foldRead', foldRow', foldOrder')
      BY <1>2, <2>2 DEF ApplyNext
    <2> QED
      BY <2>3 DEF FoldInvariant
  <1>3. CASE UNCHANGED foldVars
    BY <1>1, <1>3 DEF foldVars, FoldInvariant
  <1>4. AllRead => UNCHANGED foldVars
    BY DEF AllRead
  <1> QED
    BY <1>2, <1>3, <1>4 DEF FoldsNext

\* Such an account leaves nothing to report.
LEMMA FoldInvariantAgrees == FoldInvariant => ThreeFoldsAgree
  <1> SUFFICES ASSUME FoldInvariant
               PROVE  ThreeFoldsAgree
    OBVIOUS
  <1>1. PICK fate \in Fates : FoldedTo(foldLog, fate, foldRead, foldRow, foldOrder)
    BY DEF FoldInvariant
  <1>2. /\ IsOrderLog(foldLog) /\ foldRow = PrefixRow(foldLog, foldRead)
        /\ foldRow = Null <=> foldRead = 0
        /\ foldOrder = Null <=> foldRead = 0
    BY <1>1, FoldedRow
  <1>3. FoldTypeOK
    <2>1. foldRead \in 0 .. Len(foldLog)
      BY <1>1 DEF FoldedTo
    <2>2. \A i \in DOMAIN foldLog : foldLog[i].event_type \in EventTypes
      BY <1>2 DEF IsOrderLog
    <2> QED
      BY <1>1, <1>2, <2>1, <2>2, FoldedAgrees DEF FoldTypeOK
  <1>4. StreamFoldIsSilver
    BY <1>2 DEF StreamFoldIsSilver, PrefixRow, Prefix
  <1>5. NothingRaises
    BY <1>1, FoldedNext DEF NothingRaises
  <1>6. FoldsAgree
    BY <1>1, FoldedAgrees DEF FoldsAgree
  <1>7. AmountsCloseOnLines
    BY <1>1, FoldedAgrees DEF AmountsCloseOnLines
  <1> QED
    BY <1>3, <1>4, <1>5, <1>6, <1>7 DEF ThreeFoldsAgree

\* Reconciliation finds the three folds in agreement after every event of every
\* order the source can write, whatever its lines, prices and fate
\* (orders_generator.py _lifecycle; orders_stream.py fold_event; orders_oltp.py
\* plan; silver_order.sql; orders_projection.py reconcile).
THEOREM FoldsAlwaysAgree == FoldsSpec => []ThreeFoldsAgree
  BY FoldInvariantInit, FoldInvariantStep, FoldInvariantAgrees, PTL DEF FoldsSpec
=============================================================================
