---------------------------- MODULE OrdersStream ----------------------------
(***************************************************************************)
(* The streaming path of an order event: OLTP outbox, publishers, topic,   *)
(* projector, read model in Postgres (orders_stream.py).                   *)
(*                                                                         *)
(* No transaction spans two of those systems, so each action is one commit *)
(* or one call: a publisher dies with a batch half produced, or produced   *)
(* and not marked; the projector dies between the write of the read model  *)
(* and the commit of its offsets; every such death ends in redelivery, and *)
(* `decide` is what has to make redelivery harmless.                       *)
(***************************************************************************)
EXTENDS OrderFolds, SequencesExt

CONSTANTS
    Order,         \* order ids: the key of a message
    Partition,     \* partitions of the topic
    PartitionOf,   \* [Order -> Partition]: where the broker puts a key
    Log,           \* [Order -> Seq(event)]: the events of each order
    Publisher,     \* processes running orders-publish
    BatchSize,     \* batch_size of publish_batch
    PollBatch,     \* batch_size of project
    Strict,        \* FALSE when orders-project runs with --allow-gaps
    MaxCrash,      \* bound: processes killed in the middle of their work
    MaxReject,     \* bound: messages the broker refuses
    MaxReplay      \* bound: times orders-replay rewinds the group

ASSUME StreamAssumption ==
    /\ PartitionOf \in [Order -> Partition]
    /\ \A o \in Order :
         /\ IsOrderLog(Log[o])
         /\ \A i \in DOMAIN Log[o] : Log[o][i].order_id = o
    /\ BatchSize \in Nat \ {0}
    /\ PollBatch \in Nat \ {0}
    /\ Strict \in BOOLEAN
    /\ {MaxCrash, MaxReject, MaxReplay} \subseteq Nat

VARIABLES
    \* the OLTP database
    oltp_sequence,   \* orders.last_sequence_no, 0 when there is no row
    outbox,          \* the outbox rows; outbox_id is the position
    published,       \* the outbox_ids with published_at set
    \* the publishers
    batch,           \* the rows publish_batch holds locked: {} when idle
    sent,            \* those of them the broker has answered for
    failed,          \* TRUE: a delivery callback reported an error
    \* the broker
    topic,           \* topic[q]: the messages of partition q
    committed,       \* committed[q]: the group's committed offset
    \* the projector
    phase,           \* what the process is doing
    position,        \* position[q]: next offset poll returns
    pending,         \* messages polled and not folded yet
    current,         \* the rows project_batch has loaded or folded
    touched,         \* the orders project_batch has to save
    refused,         \* TRUE: this batch met a gap
    \* the read model
    live,            \* live_order_state: a row per order, Null for none
    \* bounds
    faults           \* crashes, rejections and replays so far

oltp      == << oltp_sequence, outbox, published >>
publisher == << batch, sent, failed >>
broker    == << topic, committed >>
projector == << phase, position, pending, current, touched, refused >>
vars      == << oltp, publisher, broker, projector, live, faults >>

Phases == {"stopped", "polling", "folding", "written"}

NoRows == [o \in Order |-> Null]
Origin == [q \in Partition |-> 0]

Init ==
    /\ oltp_sequence = [o \in Order |-> 0]
    /\ outbox = << >>
    /\ published = {}
    /\ batch = [p \in Publisher |-> {}]
    /\ sent = [p \in Publisher |-> {}]
    /\ failed = [p \in Publisher |-> FALSE]
    /\ topic = [q \in Partition |-> << >>]
    /\ committed = Origin
    /\ phase = "stopped"
    /\ position = Origin
    /\ pending = << >>
    /\ current = NoRows
    /\ touched = {}
    /\ refused = FALSE
    /\ live = NoRows
    /\ faults = [crash |-> 0, reject |-> 0, replay |-> 0]

-----------------------------------------------------------------------------
(* The OLTP.                                                               *)

\* apply_event commits the next event of an order: the state change and the
\* outbox row in one transaction.
AppendOutbox(o) ==
    /\ oltp_sequence[o] < Len(Log[o])
    /\ oltp_sequence' = [oltp_sequence EXCEPT ![o] = @ + 1]
    /\ outbox' = Append(outbox, Log[o][oltp_sequence[o] + 1])
    /\ UNCHANGED << published, publisher, broker, projector, live, faults >>

-----------------------------------------------------------------------------
(* The publishers: publish_batch, in one database transaction each.        *)

Locked == UNION {batch[p] : p \in Publisher}

\* where published_at is null for update skip locked
Takeable == (DOMAIN outbox \ published) \ Locked

\* Mutant of FirstOf: the rows come newest first.
LastOf(ids, n) == {i \in ids : Cardinality({j \in ids : j >= i}) <= n}

\* order by outbox_id limit n
FirstOf(ids, n) == {i \in ids : Cardinality({j \in ids : j <= i}) <= n}

PartitionOfRow(i) == PartitionOf[outbox[i].order_id]

\* Mutant of TakeBatch: marks before publishing.
TakeBatchMarksFirst(p) ==
    /\ batch[p] = {}
    /\ Takeable # {}
    /\ batch' = [batch EXCEPT ![p] = FirstOf(Takeable, BatchSize)]
    /\ published' = published \union FirstOf(Takeable, BatchSize)
    /\ UNCHANGED << oltp_sequence, outbox, sent, failed, broker, projector, live, faults >>

TakeBatch(p) ==
    /\ batch[p] = {}
    /\ Takeable # {}
    /\ batch' = [batch EXCEPT ![p] = FirstOf(Takeable, BatchSize)]
    /\ UNCHANGED << oltp, sent, failed, broker, projector, live, faults >>

\* Mutant of NextToSend: retries in flight overtake one another.
AnyToSend(p, i) == i \in batch[p] \ sent[p]

\* The row p's client sends next to its partition: the client keeps the
\* order of produce() within a partition and none across partitions.
NextToSend(p, i) ==
    /\ i \in batch[p] \ sent[p]
    /\ \A j \in batch[p] \ sent[p] : PartitionOfRow(j) = PartitionOfRow(i) => i <= j

Appended(i) == [topic EXCEPT ![PartitionOfRow(i)] = Append(@, outbox[i])]

\* The broker takes the message and acknowledges it.
Accept(p, i) ==
    /\ NextToSend(p, i)
    /\ topic' = Appended(i)
    /\ sent' = [sent EXCEPT ![p] = @ \union {i}]
    /\ UNCHANGED << oltp, batch, failed, committed, projector, live, faults >>

\* on_delivery reports an error: the broker refused the message, or took it
\* and its answer never came.
Reject(p, i) ==
    /\ NextToSend(p, i)
    /\ faults.reject < MaxReject
    /\ \/ UNCHANGED topic
       \/ topic' = Appended(i)
    /\ sent' = [sent EXCEPT ![p] = @ \union {i}]
    /\ failed' = [failed EXCEPT ![p] = TRUE]
    /\ faults' = [faults EXCEPT !.reject = @ + 1]
    /\ UNCHANGED << oltp, batch, committed, projector, live >>

\* The transaction of p ends, and its row locks with it.
Release(p) ==
    /\ batch' = [batch EXCEPT ![p] = {}]
    /\ sent' = [sent EXCEPT ![p] = {}]
    /\ failed' = [failed EXCEPT ![p] = FALSE]

\* Mutant of MarkPublished: the delivery errors are not looked at.
MarkPublishedAnyway(p) ==
    /\ batch[p] # {}
    /\ sent[p] = batch[p]
    /\ published' = published \union sent[p]
    /\ Release(p)
    /\ UNCHANGED << oltp_sequence, outbox, broker, projector, live, faults >>

\* flush() returned and nothing failed: set published_at, commit.
MarkPublished(p) ==
    /\ batch[p] # {}
    /\ sent[p] = batch[p]
    /\ ~failed[p]
    /\ published' = published \union sent[p]
    /\ Release(p)
    /\ UNCHANGED << oltp_sequence, outbox, broker, projector, live, faults >>

\* flush() returned and something failed: roll back, mark nothing, raise.
FailBatch(p) ==
    /\ batch[p] # {}
    /\ sent[p] = batch[p]
    /\ failed[p]
    /\ Release(p)
    /\ UNCHANGED << oltp, broker, projector, live, faults >>

\* The process dies with a batch in its hands; what it sent stays sent.
CrashPublisher(p) ==
    /\ batch[p] # {}
    /\ faults.crash < MaxCrash
    /\ faults' = [faults EXCEPT !.crash = @ + 1]
    /\ Release(p)
    /\ UNCHANGED << oltp, broker, projector, live >>

-----------------------------------------------------------------------------
(* The projector: project, _flush and project_batch.                       *)

\* The process is gone, its batch and rows with it; the next one will poll
\* from these offsets.
StopAt(offsets) ==
    /\ phase' = "stopped"
    /\ position' = offsets
    /\ pending' = << >>
    /\ current' = NoRows
    /\ touched' = {}
    /\ refused' = FALSE

\* A run joins the group and resumes at the committed offsets.
StartProjector ==
    /\ phase = "stopped"
    /\ phase' = "polling"
    /\ position' = committed
    /\ UNCHANGED << oltp, publisher, broker, pending, current, touched, refused,
                    live, faults >>

\* Mutant of Poll: enable.auto.commit.
PollAutoCommit(q) ==
    /\ phase = "polling"
    /\ Len(pending) < PollBatch
    /\ position[q] < Len(topic[q])
    /\ pending' = Append(pending, topic[q][position[q] + 1])
    /\ position' = [position EXCEPT ![q] = @ + 1]
    /\ committed' = position'
    /\ UNCHANGED << oltp, publisher, topic, phase, current, touched, refused,
                    live, faults >>

\* poll() returns the next message of some partition.
Poll(q) ==
    /\ phase = "polling"
    /\ Len(pending) < PollBatch
    /\ position[q] < Len(topic[q])
    /\ pending' = Append(pending, topic[q][position[q] + 1])
    /\ position' = [position EXCEPT ![q] = @ + 1]
    /\ UNCHANGED << oltp, publisher, broker, phase, current, touched, refused,
                    live, faults >>

\* The batch is full, or a poll timed out with a batch pending: _flush calls
\* project_batch, which loads the rows of the batch's orders.
BeginFlush ==
    /\ phase = "polling"
    /\ pending # << >>
    /\ phase' = "folding"
    /\ current' = [o \in Order |->
                     IF \E i \in DOMAIN pending : pending[i].order_id = o
                     THEN live[o] ELSE Null]
    /\ UNCHANGED << oltp, publisher, broker, position, pending, touched, refused,
                    live, faults >>

\* One turn of project_batch's loop.  A duplicate and a gap leave the rows
\* alone; a gap is remembered.
FoldNext ==
    /\ phase = "folding"
    /\ pending # << >>
    /\ LET event   == Head(pending)
           o       == event.order_id
           verdict == decide(current[o], event)
       IN  \/ /\ verdict = "duplicate"
              /\ UNCHANGED << current, touched, refused >>
           \/ /\ verdict = "gap"
              /\ refused' = TRUE
              /\ UNCHANGED << current, touched >>
           \/ /\ verdict = "apply"
              /\ ~FoldRaises(current[o], event)
              /\ current' = [current EXCEPT ![o] = fold_event(@, event)]
              /\ touched' = touched \union {o}
              /\ UNCHANGED refused
    /\ pending' = Tail(pending)
    /\ UNCHANGED << oltp, publisher, broker, phase, position, live, faults >>

\* save and projection.commit(): the touched rows, in one transaction.
SaveAndCommit ==
    /\ phase = "folding"
    /\ pending = << >>
    /\ live' = [o \in Order |-> IF o \in touched THEN current[o] ELSE live[o]]
    /\ phase' = "written"
    /\ current' = NoRows
    /\ touched' = {}
    /\ UNCHANGED << oltp, publisher, broker, position, pending, refused, faults >>

\* consumer.commit() of everything polled; then, when the batch met a gap and
\* the run is strict, the run raises.
CommitOffset ==
    /\ phase = "written"
    /\ committed' = position
    /\ UNCHANGED << oltp, publisher, topic, live, faults >>
    /\ IF refused /\ Strict
       THEN StopAt(position)
       ELSE /\ phase' = "polling"
            /\ refused' = FALSE
            /\ UNCHANGED << position, pending, current, touched >>

\* Nothing arrives for idle_timeout: the run ends.
IdleExit ==
    /\ phase = "polling"
    /\ pending = << >>
    /\ \A q \in Partition : position[q] = Len(topic[q])
    /\ StopAt(committed)
    /\ UNCHANGED << oltp, publisher, broker, live, faults >>

\* The process dies.  An open projection transaction is rolled back; one that
\* was committed stays, with the offsets not yet committed.
CrashProjector ==
    /\ phase # "stopped"
    /\ faults.crash < MaxCrash
    /\ faults' = [faults EXCEPT !.crash = @ + 1]
    /\ StopAt(committed)
    /\ UNCHANGED << oltp, publisher, broker, live >>

\* Mutant of Replay: the read model is emptied first.
ReplayFromScratch ==
    /\ phase = "stopped"
    /\ faults.replay < MaxReplay
    /\ faults' = [faults EXCEPT !.replay = @ + 1]
    /\ committed' = Origin
    /\ position' = Origin
    /\ live' = NoRows
    /\ UNCHANGED << oltp, publisher, topic, phase, pending, current, touched, refused >>

\* orders-replay: with no active member, the group goes back to the start of
\* every partition.  The read model is not touched.
Replay ==
    /\ phase = "stopped"
    /\ faults.replay < MaxReplay
    /\ faults' = [faults EXCEPT !.replay = @ + 1]
    /\ committed' = Origin
    /\ position' = Origin
    /\ UNCHANGED << oltp, publisher, topic, phase, pending, current, touched,
                    refused, live >>

-----------------------------------------------------------------------------
Publish(p) ==
    \/ TakeBatch(p)
    \/ \E i \in batch[p] : Accept(p, i)
    \/ MarkPublished(p)
    \/ FailBatch(p)

Projection ==
    \/ StartProjector
    \/ \E q \in Partition : Poll(q)
    \/ BeginFlush
    \/ FoldNext
    \/ SaveAndCommit
    \/ CommitOffset

Fault ==
    \/ \E p \in Publisher : CrashPublisher(p) \/ \E i \in batch[p] : Reject(p, i)
    \/ CrashProjector
    \/ Replay

Next ==
    \/ \E o \in Order : AppendOutbox(o)
    \/ \E p \in Publisher : Publish(p)
    \/ Projection
    \/ IdleExit
    \/ Fault

Spec == Init /\ [][Next]_vars

\* The log goes on being applied, and orders-publish and orders-project are
\* run again after they end, whatever ended them.  Faults are not fair.
Fairness ==
    /\ \A o \in Order : WF_vars(AppendOutbox(o))
    /\ \A p \in Publisher : WF_vars(Publish(p))
    /\ WF_vars(Projection)

FairSpec == Spec /\ Fairness

-----------------------------------------------------------------------------
Event == UNION {Range(Log[o]) : o \in Order}

TypeOK ==
    /\ oltp_sequence \in [Order -> Nat]
    /\ outbox \in Seq(Event)
    /\ published \subseteq DOMAIN outbox
    /\ batch \in [Publisher -> SUBSET (DOMAIN outbox)]
    /\ sent \in [Publisher -> SUBSET (DOMAIN outbox)]
    /\ failed \in [Publisher -> BOOLEAN]
    /\ topic \in [Partition -> Seq(Event)]
    /\ committed \in [Partition -> Nat]
    /\ phase \in Phases
    /\ position \in [Partition -> Nat]
    /\ pending \in Seq(Event)
    /\ current \in [Order -> Row \union {Null}]
    /\ touched \subseteq Order
    /\ refused \in BOOLEAN
    /\ live \in [Order -> Row \union {Null}]
    /\ faults \in [crash : 0 .. MaxCrash, reject : 0 .. MaxReject,
                   replay : 0 .. MaxReplay]

ReadModel == INSTANCE LiveOrderState WITH emitted <- oltp_sequence

\* Every row of the read model is, at all times and after any redelivery, the
\* Silver fold of a prefix of its order's log that the OLTP has committed.
\* `decide` and fold_event are what keeps a duplicate or an early event out.
RowsAreSilverPrefixes ==
    \A o \in Order :
        /\ LastSeq(live[o]) <= oltp_sequence[o]
        /\ live[o] = PrefixRow(Log[o], LastSeq(live[o]))

\* The same of the rows project_batch is working on; none is older than the
\* stored one.
LoadedRowsAreSilverPrefixes ==
    \A o \in Order : current[o] # Null =>
        /\ LastSeq(live[o]) <= LastSeq(current[o])
        /\ LastSeq(current[o]) <= oltp_sequence[o]
        /\ current[o] = PrefixRow(Log[o], LastSeq(current[o]))

\* While a batch is folded, an order of the batch without a loaded row has no
\* stored one either; what is going to be saved is a row.
LoadedAsStored ==
    /\ phase = "folding" =>
         \A i \in DOMAIN pending :
             current[pending[i].order_id] = Null => live[pending[i].order_id] = Null
    /\ \A o \in touched : current[o] # Null
    /\ phase # "folding" => touched = {}

IsCommitted(event) == event.sequence_no <= oltp_sequence[event.order_id]

\* Only what the OLTP has committed is in the outbox, in the topic or in hand.
EventsAreCommitted ==
    /\ \A i \in DOMAIN outbox : IsCommitted(outbox[i])
    /\ \A q \in Partition : \A i \in DOMAIN topic[q] : IsCommitted(topic[q][i])
    /\ \A i \in DOMAIN pending : IsCommitted(pending[i])

\* What makes RowsAreSilverPrefixes inductive: at no point between two commits
\* does the projector hold a row of which it could not be said.
ProjectorInvariant ==
    /\ LoadedRowsAreSilverPrefixes
    /\ LoadedAsStored
    /\ EventsAreCommitted

\* A row is never replaced by an older one, not by redelivery, a crash, nor a
\* replay of the topic from its start: the upsert of PostgresProjection has
\* no guard of its own.
RowsNeverGoBack ==
    [][\A o \in Order : LastSeq(live'[o]) >= LastSeq(live[o])]_vars

\* The read model is an implementation of what LiveOrderState promises.
ImplementsReadModel == ReadModel!Spec

\* fold_event never raises on an event `decide` lets through: the rows and
\* the offsets of the batch are never lost to an exception.
FoldNeverRaises ==
    (phase = "folding" /\ pending # << >>) =>
        LET event == Head(pending)
            row   == current[event.order_id]
        IN  decide(row, event) = "apply" => ~FoldRaises(row, event)

\* Message j of partition q is event n of order o.
IsEventAt(q, j, o, n) ==
    /\ topic[q][j].order_id = o
    /\ topic[q][j].sequence_no = n

\* A reader of the partition of o from its start can apply the first n events
\* of o in order, whatever it has to skip between them.
Recoverable(o, n) ==
    LET q == PartitionOf[o]
    IN  \E at \in [1 .. n -> DOMAIN topic[q]] :
            \A k \in 1 .. n :
                /\ IsEventAt(q, at[k], o, k)
                /\ \A l \in 1 .. k - 1 : at[l] < at[k]

\* What is marked published is never lost for good: reading its partition from
\* the start yields every event of its order up to it, in order.  This holds
\* through publisher deaths and refused messages because a batch is marked
\* as a whole, after the broker has answered for all of it.
PublishedIsRecoverable ==
    \A i \in published : Recoverable(outbox[i].order_id, outbox[i].sequence_no)

\* Per-key order is guaranteed (module header, point 3): a message is either a
\* repetition or the next event of its order.
KeysArriveInOrder ==
    \A q \in Partition :
        \A i \in DOMAIN topic[q] :
            \A n \in 1 .. topic[q][i].sequence_no :
                \E j \in 1 .. i : IsEventAt(q, j, topic[q][i].order_id, n)

\* The offset is committed after the write, never before: what the group will
\* not be given again is in the read model.
CommittedIsWritten ==
    \A q \in Partition :
        \A i \in 1 .. committed[q] :
            topic[q][i].sequence_no <= LastSeq(live[topic[q][i].order_id])

\* A strict run never stops on a gap.
NeverRefused == ~refused

\* publish_batch by one publisher: the events of an order reach the topic in
\* their order, whoever dies, and so decide never meets a gap, not even on a
\* replay.
NoGapArises ==
    /\ KeysArriveInOrder
    /\ NeverRefused

\* Every event the OLTP commits reaches the read model.
Converges ==
    <>[](\A o \in Order : LastSeq(live[o]) = Len(Log[o]))
=============================================================================
