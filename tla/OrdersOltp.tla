----------------------------- MODULE OrdersOltp -----------------------------
(***************************************************************************)
(* The applier of the OLTP (orders_oltp.py): apply_partition replicates a  *)
(* log into Postgres, one transaction per event.  Nothing keeps two of     *)
(* them from running on the same log, and a killed one is run again from   *)
(* the first line.  Three guards have to agree: the unique event_id of the *)
(* outbox, the order guard and the state guard of the update.              *)
(*                                                                         *)
(* Postgres, READ COMMITTED: a transaction sees what the others committed; *)
(* a second insert of an event_id waits for the transaction that holds the *)
(* first; so does a second write of an order.                              *)
(***************************************************************************)
EXTENDS OltpFold, SequencesExt

CONSTANTS
    Order,     \* order ids
    Applier,   \* processes running orders-apply
    File,      \* [Applier -> Seq(event)]: the log each one reads, in file order
    MaxCrash   \* bound: appliers killed, over all of them

\* The lines of the file of a that are about order o.
LinesOf(a, o) == {i \in DOMAIN File[a] : File[a][i].order_id = o}

\* What verify_log vouches for: a file the source wrote and validated, with the
\* events of an order numbered from 1 without a gap and in that order.
ASSUME OltpAssumption ==
    /\ \A a \in Applier :
         /\ File[a] \in Seq(Range(File[a]))
         /\ \A i \in DOMAIN File[a] :
              /\ File[a][i].order_id \in Order
              /\ IsReadable(File[a][i])
              /\ File[a][i].event_type = "order_placed" => File[a][i].sequence_no = 1
         /\ \A o \in Order :
              /\ \E n \in 0 .. Len(File[a]) :
                   {File[a][i].sequence_no : i \in LinesOf(a, o)} = 1 .. n
              /\ \A i, j \in LinesOf(a, o) :
                   i < j => File[a][i].sequence_no < File[a][j].sequence_no
    /\ Null \notin Applier
    /\ MaxCrash \in Nat

VARIABLES
    orders,   \* orders and order_line as committed; Null for no row
    outbox,   \* outbox rows in the order of outbox_id: [event, tx], tx the applier whose
              \* transaction is open, Null once committed
    next,     \* next[a]: line of its file a is at
    stage,    \* stage[a]: what a has done of that line's transaction
    work,     \* work[a]: the order as the open transaction of a leaves it
    crashes

vars == << orders, outbox, next, stage, work, crashes >>

Stages == {"begin", "inserted", "planned", "raised"}

Init ==
    /\ orders = [o \in Order |-> Null]
    /\ outbox = << >>
    /\ next = [a \in Applier |-> 1]
    /\ stage = [a \in Applier |-> "begin"]
    /\ work = [a \in Applier |-> Null]
    /\ crashes = 0

Done(a) == next[a] > Len(File[a])

EventOf(a) == File[a][next[a]]

\* The rows with the event_id of an event.
SameId(event) ==
    {i \in DOMAIN outbox : /\ outbox[i].event.order_id = event.order_id
                           /\ outbox[i].event.sequence_no = event.sequence_no}

\* Mutant of Held: event_id is not unique, so nobody waits.
HeldNever(event) == FALSE

\* Some transaction has inserted the event_id and not ended.
Held(event) == \E i \in SameId(event) : outbox[i].tx # Null

AlreadyApplied(event) == \E i \in SameId(event) : outbox[i].tx = Null

\* Mutant of Skip: a row another transaction may still roll back counts.
SkipUncommitted(a) ==
    /\ stage[a] = "begin"
    /\ ~Done(a)
    /\ SameId(EventOf(a)) # {}
    /\ next' = [next EXCEPT ![a] = @ + 1]
    /\ UNCHANGED << orders, outbox, stage, work, crashes >>

\* insert into outbox ... on conflict do nothing affects no row: the event is
\* already applied, and the transaction is rolled back.
Skip(a) ==
    /\ stage[a] = "begin"
    /\ ~Done(a)
    /\ AlreadyApplied(EventOf(a))
    /\ next' = [next EXCEPT ![a] = @ + 1]
    /\ UNCHANGED << orders, outbox, stage, work, crashes >>

\* Mutant of InsertOutbox: one more commit, between the outbox and the state.
InsertOutboxCommitted(a) ==
    /\ stage[a] = "begin"
    /\ ~Done(a)
    /\ ~AlreadyApplied(EventOf(a))
    /\ ~Held(EventOf(a))
    /\ outbox' = Append(outbox, [event |-> EventOf(a), tx |-> Null])
    /\ stage' = [stage EXCEPT ![a] = "inserted"]
    /\ UNCHANGED << orders, next, work, crashes >>

\* It inserts the row; outbox_id is taken now.
InsertOutbox(a) ==
    /\ stage[a] = "begin"
    /\ ~Done(a)
    /\ ~AlreadyApplied(EventOf(a))
    /\ ~Held(EventOf(a))
    /\ outbox' = Append(outbox, [event |-> EventOf(a), tx |-> a])
    /\ stage' = [stage EXCEPT ![a] = "inserted"]
    /\ UNCHANGED << orders, next, work, crashes >>

\* No other open transaction has written the order.
RowIsFree(a) ==
    \A b \in Applier \ {a} :
        stage[b] = "planned" => EventOf(b).order_id # EventOf(a).order_id

\* Every statement and check of the plan goes through.  They touch one order
\* and begin with its row, so no other transaction comes between them.
ExecutePlan(a) ==
    /\ stage[a] = "inserted"
    /\ RowIsFree(a)
    /\ PlanHolds(orders[EventOf(a).order_id], EventOf(a))
    /\ work' = [work EXCEPT ![a] = PlanEffect(orders[EventOf(a).order_id], EventOf(a))]
    /\ stage' = [stage EXCEPT ![a] = "planned"]
    /\ UNCHANGED << orders, outbox, next, crashes >>

\* The rows left when the transaction of a, which has one row or none, is rolled
\* back.
WithoutRowOf(a) ==
    LET rows == {i \in DOMAIN outbox : outbox[i].tx = a}
    IN  IF rows = {} THEN outbox ELSE RemoveAt(outbox, CHOOSE i \in rows : TRUE)

\* A statement affects other rows than it expects, or a check reads another
\* value: roll back and raise, and the run ends.
PlanFails(a) ==
    /\ stage[a] = "inserted"
    /\ RowIsFree(a)
    /\ ~PlanHolds(orders[EventOf(a).order_id], EventOf(a))
    /\ outbox' = WithoutRowOf(a)
    /\ stage' = [stage EXCEPT ![a] = "raised"]
    /\ UNCHANGED << orders, next, work, crashes >>

\* The one commit of apply_event: the order and the row become visible.
Commit(a) ==
    /\ stage[a] = "planned"
    /\ orders' = [orders EXCEPT ![EventOf(a).order_id] = work[a]]
    /\ outbox' = [i \in DOMAIN outbox |->
                    IF outbox[i].tx = a THEN [outbox[i] EXCEPT !.tx = Null]
                                        ELSE outbox[i]]
    /\ next' = [next EXCEPT ![a] = @ + 1]
    /\ stage' = [stage EXCEPT ![a] = "begin"]
    /\ work' = [work EXCEPT ![a] = Null]
    /\ UNCHANGED crashes

\* The process is killed, the server rolls its transaction back, and the
\* command is run again on the whole file.
Crash(a) ==
    /\ ~Done(a)
    /\ stage[a] # "raised"
    /\ crashes < MaxCrash
    /\ outbox' = WithoutRowOf(a)
    /\ next' = [next EXCEPT ![a] = 1]
    /\ stage' = [stage EXCEPT ![a] = "begin"]
    /\ work' = [work EXCEPT ![a] = Null]
    /\ crashes' = crashes + 1
    /\ UNCHANGED orders

Apply(a) == Skip(a) \/ InsertOutbox(a) \/ ExecutePlan(a) \/ PlanFails(a) \/ Commit(a)

\* Every applier has come to the end of its file or raised.
Finished ==
    /\ \A a \in Applier : Done(a) \/ stage[a] = "raised"
    /\ UNCHANGED vars

Next == Finished \/ \E a \in Applier : Apply(a) \/ Crash(a)

Spec == Init /\ [][Next]_vars

\* A process that is not waiting for a lock goes on.
FairSpec == Spec /\ \A a \in Applier : WF_vars(Apply(a))

-----------------------------------------------------------------------------
TypeOK ==
    /\ orders \in [Order -> OrderRow \union {Null}]
    /\ \A i \in DOMAIN outbox : outbox[i].tx \in Applier \union {Null}
    /\ \A a \in Applier : next[a] \in 1 .. Len(File[a]) + 1
    /\ stage \in [Applier -> Stages]
    /\ crashes \in 0 .. MaxCrash

\* Row i of the outbox is a committed one of order o.
IsRowOf(o, i) == outbox[i].tx = Null /\ outbox[i].event.order_id = o

\* The committed outbox rows of an order, by outbox_id.
EventsOf(o) ==
    LET upTo[n \in 0 .. Len(outbox)] ==
            IF n = 0 THEN << >>
            ELSE IF IsRowOf(o, n) THEN Append(upTo[n - 1], outbox[n].event)
            ELSE upTo[n - 1]
    IN  upTo[Len(outbox)]

\* last_sequence_no of an order, 0 when it has no row.
LastOf(order) == IF order = Null THEN 0 ELSE order.last_sequence_no

\* State and event fall together: the rows an order has in the outbox are the
\* events 1 to last_sequence_no, each once and in the order of outbox_id,
\* whatever was killed, repeated or refused on the way.
StateAndEventTogether ==
    \A o \in Order :
        LET events == EventsOf(o)
        IN  /\ Len(events) = LastOf(orders[o])
            /\ \A n \in DOMAIN events : events[n].sequence_no = n

\* An order is what its own events in the outbox amount to, also when two
\* different logs of the same orders were applied one over the other.
OrdersFoldTheirOutbox == \A o \in Order : orders[o] = OrderAfter(EventsOf(o))

\* An applier never moves past an event that is not committed: what it skips
\* because another one inserted it cannot be rolled back afterwards.
PassedIsCommitted ==
    \A a \in Applier : \A i \in 1 .. next[a] - 1 :
        \E k \in SameId(File[a][i]) : outbox[k].tx = Null

\* apply_event and apply_partition, whichever applier comes first and whoever
\* dies: no event is passed over before it is committed, each is committed once
\* and together with what it does to its order.
NothingIsLost ==
    /\ TypeOK
    /\ StateAndEventTogether
    /\ OrdersFoldTheirOutbox
    /\ PassedIsCommitted

\* Applying a log never raises on an order that some applier of the same log
\* has touched: what one has committed the other skips.
NeverRaises == \A a \in Applier : stage[a] # "raised"

Completed == \A a \in Applier : Done(a)

\* Every applier reaches the end: waiting for one another's rows never locks
\* them up.
AllApplied == <>[]Completed

\* The log of an order, from an applier that has it.
LogOf(o) ==
    LET reader == CHOOSE a \in Applier : LinesOf(a, o) # {}
        log    == {File[reader][i] : i \in LinesOf(reader, o)}
    IN  [n \in {event.sequence_no : event \in log} |->
            CHOOSE event \in log : event.sequence_no = n]

\* Appliers that have an order have the same events of it: they read one log.
SameLog ==
    \A a, b \in Applier : \A o \in Order :
        LinesOf(a, o) # {} /\ LinesOf(b, o) # {} =>
            {File[a][i] : i \in LinesOf(a, o)} = {File[b][i] : i \in LinesOf(b, o)}

\* The plan accepts the log of every order, event after event from the first.
LogIsAccepted ==
    \A a \in Applier : \A i \in DOMAIN File[a] :
        LET event == File[a][i]
        IN  PlanHolds(OrderAfter(SubSeq(LogOf(event.order_id), 1, event.sequence_no - 1)),
                      event)

\* What the log of an order promises to readers of the database, when every
\* applier that has the order reads the same log of it.
Promise ==
    INSTANCE EventSourcedOrders WITH
        Log    <- [o \in Order |-> LogOf(o)],
        state  <- orders,
        events <- [o \in Order |-> EventsOf(o)]

ImplementsOutbox == Promise!Spec
=============================================================================
