----------------------------- MODULE OutboxCheck -----------------------------
(***************************************************************************)
(* orders-outbox --verify: the log of a partition rebuilt from the outbox  *)
(* and compared with the log of the source, over the appliers of           *)
(* OrdersOltp, which apply the logs of several days at once.               *)
(***************************************************************************)
EXTENDS OrdersOltp

CONSTANTS
    LogDay,      \* [Applier -> the ingestion date of the partition it applies]
    Day,         \* [Order -> the day it was placed]
    OccurredAt,  \* [Order -> [sequence_no -> the moment of the event]]
    DayOf(_),    \* the day of a moment
    Before(_, _) \* the order of the ids

At(event) == OccurredAt[event.order_id][event.sequence_no]

\* order by occurred_at, order_id, sequence_no
Precedes(e, f) ==
    \/ At(e) < At(f)
    \/ At(e) = At(f) /\ Before(e.order_id, f.order_id)
    \/ At(e) = At(f) /\ e.order_id = f.order_id /\ e.sequence_no < f.sequence_no

\* A partition has the orders placed on its day, in the order its contract
\* declares and its validator checks.
ASSUME CheckAssumption ==
    /\ \A a \in Applier :
         /\ \A i \in DOMAIN File[a] :
              /\ Day[File[a][i].order_id] = LogDay[a]
              /\ At(File[a][i]) \in Nat
         /\ \A i, j \in DOMAIN File[a] : i < j => Precedes(File[a][i], File[a][j])
    /\ \A o, p \in Order : Before(o, p) => ~Before(p, o)

\* Mutant of RowsOf: by the day of the event.
RowsOfEventDay(day) ==
    {i \in DOMAIN outbox :
        LET event == outbox[i].event
        IN  outbox[i].tx = Null /\ orders[event.order_id] # Null /\ DayOf(At(event)) = day}
\* The committed rows whose order was placed that day.
RowsOf(day) ==
    {i \in DOMAIN outbox :
        LET event == outbox[i].event
        IN  outbox[i].tx = Null /\ orders[event.order_id] # Null /\ Day[event.order_id] = day}

\* The place of a row among others: after the ones that precede it.  It is not
\* the order of outbox_id, though one log alone is inserted in that order.
Place(i, rows) ==
    1 + Cardinality({j \in rows : Precedes(outbox[j].event, outbox[i].event)})

Rebuilt(day) ==
    LET rows  == RowsOf(day)
        place == [i \in rows |-> Place(i, rows)]
    IN  [n \in 1 .. Cardinality(rows) |->
            outbox[CHOOSE i \in rows : place[i] = n].event]

\* verify_outbox: the digests are equal when the bytes are.
Matches(a) == Rebuilt(LogDay[a]) = File[a]

-----------------------------------------------------------------------------
\* Once a log has been applied to its end the check finds it again, byte for
\* byte, whatever other logs and other appliers put between its rows, and
\* though an order's last events fall on the day after.
AppliedIsVerified == \A a \in Applier : Done(a) => Matches(a)

\* The events of an order in a log, by their number.
LogIn(a, o) ==
    [n \in {File[a][i].sequence_no : i \in LinesOf(a, o)} |->
        File[a][CHOOSE i \in LinesOf(a, o) : File[a][i].sequence_no = n]]

\* A log that the check finds is applied: every order of its day is in the
\* state the log leaves it in, though the check never looks at the state.
VerifiedIsApplied ==
    \A a \in Applier : Matches(a) =>
        \A o \in Order : Day[o] = LogDay[a] => orders[o] = OrderAfter(LogIn(a, o))

\* verify_outbox finds a day's log in the outbox exactly when it was applied,
\* and no event of a log is refused on the way.
OutboxIsTheLog == AppliedIsVerified /\ VerifiedIsApplied /\ NeverRaises

\* There is one log of a day, whoever applies it.
OneLogOfADay ==
    \A a, b \in Applier : LogDay[a] = LogDay[b] => File[a] = File[b]
=============================================================================
