--------------------------- MODULE ProjectorGroup ---------------------------
(***************************************************************************)
(* Several orders-project processes in one consumer group (orders_stream.py*)
(* build_consumer, project, _flush) over either sink.                      *)
(*                                                                         *)
(* The coordinator's view of the group and what each process holds are     *)
(* apart: a process that is thrown out while it handles a batch finishes   *)
(* the batch.  A row is its last_sequence_no and each order has the        *)
(* messages of one publisher, in order; OrdersStream is about the rest.    *)
(***************************************************************************)
EXTENDS Integers, Sequences, FiniteSets, SequencesExt

CONSTANTS
    Key,             \* message keys: order ids
    Messages,        \* [Key -> Nat]: events in the log of each order
    Partition,       \* partitions of the topic
    PartitionOf,     \* [Key -> Partition]
    Member,          \* processes running orders-project with one group id
    BatchSize,       \* batch_size of project
    Sink,            \* --sink: "postgres" or "iceberg"
    FromBeginning,   \* --from-beginning
    AllowGaps,       \* --allow-gaps
    MaxEvict,        \* bound: members that miss the session timeout
    MaxKill          \* bound: members killed

Nobody == "nobody"
Unset == -1      \* no offset

ASSUME GroupAssumption ==
    /\ Messages \in [Key -> Nat]
    /\ PartitionOf \in [Key -> Partition]
    /\ Nobody \notin Member
    /\ {BatchSize, MaxEvict, MaxKill} \subseteq Nat
    /\ {FromBeginning, AllowGaps} \subseteq BOOLEAN

VARIABLES
    topic,        \* topic[p]: the events of a partition
    offsets,      \* offsets[p]: what the group committed, or Unset
    group,        \* the members the coordinator counts on
    owner,        \* owner[p]: the member p is assigned to
    balanced,     \* FALSE: the group has changed and must be assigned anew
    read,         \* read[m][p]: next offset m reads, Unset when not its own
    stored,       \* stored[m]: m has read something of this assignment
    doing,        \* doing[m]: what the process is at
    pending,      \* pending[m]: messages read and not flushed
    fold,         \* fold[m]: rows the flush is about to save, 0 for none
    metGap,       \* metGap[m]: the batch met a gap
    live,         \* live_order_state: last_sequence_no, 0 for no row
    faults        \* evictions and crashes so far

log == << topic, live >>
coordinator == << offsets, group, owner, balanced >>
memory == << read, stored, doing, pending, fold, metGap >>
groupVars == << log, coordinator, memory, faults >>

Event == [order_id : Key, sequence_no : Nat]
NoRow == [o \in Key |-> 0]
NoPosition == [p \in Partition |-> Unset]

GroupInit ==
    /\ topic = [p \in Partition |-> << >>]
    /\ offsets = NoPosition
    /\ group = {}
    /\ owner = [p \in Partition |-> Nobody]
    /\ balanced = TRUE
    /\ read = [m \in Member |-> NoPosition]
    /\ stored = [m \in Member |-> FALSE]
    /\ doing = [m \in Member |-> "stopped"]
    /\ pending = [m \in Member |-> << >>]
    /\ fold = [m \in Member |-> NoRow]
    /\ metGap = [m \in Member |-> FALSE]
    /\ live = NoRow
    /\ faults = [evict |-> 0, crash |-> 0]

\* Events of an order among some messages.
Count(messages, o) == Cardinality({i \in DOMAIN messages : messages[i].order_id = o})

Produce(o) ==
    LET p == PartitionOf[o]
        n == Count(topic[p], o) + 1
    IN  /\ n <= Messages[o]
        /\ topic' = [topic EXCEPT ![p] = Append(@, [order_id |-> o, sequence_no |-> n])]
        /\ UNCHANGED << live, coordinator, memory, faults >>

-----------------------------------------------------------------------------
(* The group.                                                              *)

\* subscribe, then the first poll.
Join(m) ==
    /\ doing[m] = "stopped"
    /\ doing' = [doing EXCEPT ![m] = "polling"]
    /\ group' = group \union {m}
    /\ balanced' = FALSE
    /\ UNCHANGED << log, offsets, owner, read, stored, pending, fold, metGap, faults >>

\* A poll finds out that the group went on without this member.
Rejoin(m) ==
    /\ doing[m] = "polling"
    /\ m \notin group
    /\ group' = group \union {m}
    /\ balanced' = FALSE
    /\ read' = [read EXCEPT ![m] = NoPosition]
    /\ stored' = [stored EXCEPT ![m] = FALSE]
    /\ UNCHANGED << log, offsets, owner, doing, pending, fold, metGap, faults >>

\* The coordinator stops counting on m.
Dropped(m) ==
    /\ group' = group \ {m}
    /\ owner' = [p \in Partition |-> IF owner[p] = m THEN Nobody ELSE owner[p]]
    /\ balanced' = (balanced /\ m \notin group)
    /\ UNCHANGED offsets

\* Where auto.offset.reset and the committed offset let a partition start.
StartAt(p) ==
    IF offsets[p] # Unset THEN offsets[p]
    ELSE IF FromBeginning THEN 0 ELSE Len(topic[p])

\* Every member has come to a poll: the partitions are assigned anew, and all
\* of them are read from the committed offset, those a member keeps included.
\* What a member has pending stays in its hands.
Rebalance ==
    /\ ~balanced
    /\ group # {}
    /\ \A m \in group : doing[m] = "polling"
    /\ owner' \in [Partition -> group]
    /\ balanced' = TRUE
    /\ read' = [m \in Member |->
          IF m \in group
          THEN [p \in Partition |-> IF owner'[p] = m THEN StartAt(p) ELSE Unset]
          ELSE read[m]]
    /\ stored' = [m \in Member |-> stored[m] /\ m \notin group]
    /\ UNCHANGED << log, offsets, group, doing, pending, fold, metGap, faults >>

\* No heartbeat for session.timeout.ms, while the process is still running.
Evict(m) ==
    /\ m \in group
    /\ faults.evict < MaxEvict
    /\ faults' = [faults EXCEPT !.evict = @ + 1]
    /\ Dropped(m)
    /\ UNCHANGED << log, memory >>

\* consumer.close() and the end of the process.
Closed(m) ==
    /\ doing' = [doing EXCEPT ![m] = "stopped"]
    /\ pending' = [pending EXCEPT ![m] = << >>]
    /\ fold' = [fold EXCEPT ![m] = NoRow]
    /\ metGap' = [metGap EXCEPT ![m] = FALSE]
    /\ read' = [read EXCEPT ![m] = NoPosition]
    /\ stored' = [stored EXCEPT ![m] = FALSE]

Kill(m) ==
    /\ doing[m] # "stopped"
    /\ faults.crash < MaxKill
    /\ faults' = [faults EXCEPT !.crash = @ + 1]
    /\ Dropped(m)
    /\ Closed(m)
    /\ UNCHANGED log

-----------------------------------------------------------------------------
(* One process.                                                            *)

Poll(m) ==
    /\ doing[m] = "polling"
    /\ Len(pending[m]) < BatchSize
    /\ \E p \in Partition :
         /\ m \in group
         /\ owner[p] = m
         /\ read[m][p] \in 0 .. Len(topic[p]) - 1
         /\ pending' = [pending EXCEPT ![m] = Append(@, topic[p][read[m][p] + 1])]
         /\ read' = [read EXCEPT ![m][p] = @ + 1]
    /\ stored' = [stored EXCEPT ![m] = TRUE]
    /\ UNCHANGED << log, coordinator, doing, fold, metGap, faults >>

\* project_batch: the row of an order after the messages of a batch.
Applied(seq, messages, o) ==
    LET upTo[n \in 0 .. Len(messages)] ==
            IF n = 0 THEN seq
            ELSE IF /\ messages[n].order_id = o
                    /\ messages[n].sequence_no = upTo[n - 1] + 1
            THEN messages[n].sequence_no
            ELSE upTo[n - 1]
    IN  upTo[Len(messages)]

\* An event of the batch comes before the one it follows.
FindsGap(seq, messages) ==
    \E i \in DOMAIN messages :
        messages[i].sequence_no
          > Applied(seq[messages[i].order_id], SubSeq(messages, 1, i), messages[i].order_id)

\* _flush: load and fold.  The batch is full, or a poll returned nothing.
BeginFlush(m) ==
    /\ doing[m] = "polling"
    /\ pending[m] # << >>
    /\ fold' = [fold EXCEPT ![m] = [o \in Key |->
                  LET n == Applied(live[o], pending[m], o) IN IF n > live[o] THEN n ELSE 0]]
    /\ metGap' = [metGap EXCEPT ![m] = FindsGap(live, pending[m])]
    /\ doing' = [doing EXCEPT ![m] = "folded"]
    /\ UNCHANGED << log, coordinator, read, stored, pending, faults >>

\* PostgresProjection.save writes what was folded; IcebergProjection.commit
\* keeps of it what moves its order on.
Kept(m, o) ==
    /\ fold[m][o] # 0
    /\ Sink = "iceberg" => fold[m][o] > live[o]

\* save and commit of the sink.
Write(m) ==
    /\ doing[m] = "folded"
    /\ live' = [o \in Key |-> IF Kept(m, o) THEN fold[m][o] ELSE live[o]]
    /\ fold' = [fold EXCEPT ![m] = NoRow]
    /\ doing' = [doing EXCEPT ![m] = "written"]
    /\ UNCHANGED << topic, coordinator, read, stored, pending, metGap, faults >>

\* Mutant of CommitOffsets: a commit the coordinator refuses is not noticed,
\* and the offset is the end of what was polled by anyone.
CommitOffsetsUnfenced(m) ==
    /\ doing[m] = "written"
    /\ offsets' = [p \in Partition |->
                     IF read[m][p] # Unset THEN Len(topic[p]) ELSE offsets[p]]
    /\ doing' = [doing EXCEPT ![m] = "polling"]
    /\ pending' = [pending EXCEPT ![m] = << >>]
    /\ metGap' = [metGap EXCEPT ![m] = FALSE]
    /\ UNCHANGED << log, group, owner, balanced, read, stored, fold, faults >>

\* consumer.commit().  It raises when the member is no longer in the group,
\* or when nothing was read since the last assignment; nobody catches it.
CommitOffsets(m) ==
    /\ doing[m] = "written"
    /\ IF m \in group /\ stored[m]
       THEN /\ offsets' = [p \in Partition |->
                  IF owner[p] = m THEN read[m][p] ELSE offsets[p]]
            /\ IF metGap[m] /\ ~AllowGaps
               THEN /\ Closed(m)
                    /\ group' = group \ {m}
                    /\ owner' = [p \in Partition |-> IF owner[p] = m THEN Nobody ELSE owner[p]]
                    /\ balanced' = FALSE
               ELSE /\ doing' = [doing EXCEPT ![m] = "polling"]
                    /\ pending' = [pending EXCEPT ![m] = << >>]
                    /\ metGap' = [metGap EXCEPT ![m] = FALSE]
                    /\ UNCHANGED << group, owner, balanced, read, stored, fold >>
       ELSE Dropped(m) /\ Closed(m)
    /\ UNCHANGED << log, faults >>

\* Nothing arrives for idle_timeout.
EndsIdle(m) ==
    /\ doing[m] = "polling"
    /\ pending[m] = << >>
    /\ m \in group => \A p \in Partition : owner[p] = m => read[m][p] = Len(topic[p])
    /\ Dropped(m)
    /\ Closed(m)
    /\ UNCHANGED << log, faults >>

-----------------------------------------------------------------------------
Work(m) ==
    \/ Join(m) \/ Rejoin(m) \/ Poll(m)
    \/ BeginFlush(m) \/ Write(m) \/ CommitOffsets(m)

GroupNext ==
    \/ \E o \in Key : Produce(o)
    \/ Rebalance
    \/ \E m \in Member : Work(m) \/ EndsIdle(m) \/ Evict(m) \/ Kill(m)

GroupSpec == GroupInit /\ [][GroupNext]_groupVars

\* Events go on arriving, a process that ends is run again, and each of them
\* goes on.
GroupFairness ==
    /\ \A o \in Key : WF_groupVars(Produce(o))
    /\ WF_groupVars(Rebalance)
    /\ \A m \in Member : WF_groupVars(Work(m))

GroupFairSpec == GroupSpec /\ GroupFairness

-----------------------------------------------------------------------------
GroupTypeOK ==
    /\ topic \in [Partition -> Seq(Event)]
    /\ offsets \in [Partition -> Nat \union {Unset}]
    /\ group \subseteq Member
    /\ owner \in [Partition -> Member \union {Nobody}]
    /\ balanced \in BOOLEAN
    /\ read \in [Member -> [Partition -> Nat \union {Unset}]]
    /\ {stored, metGap} \subseteq [Member -> BOOLEAN]
    /\ doing \in [Member -> {"stopped", "polling", "folded", "written"}]
    /\ pending \in [Member -> Seq(Event)]
    /\ fold \in [Member -> [Key -> Nat]]
    /\ live \in [Key -> Nat]
    /\ faults \in [evict : 0 .. MaxEvict, crash : 0 .. MaxKill]

\* An order that is handed from one member to another in the middle of a
\* batch never goes back (the monotonic merge of the Iceberg sink; for the
\* Postgres sink, the coordinator waiting for every batch to end).
RowsNeverGoBack == [][\A o \in Key : live'[o] >= live[o]]_live

\* What the group will not read again is in the read model, whoever committed.
OffsetsAreWritten ==
    \A p \in Partition, o \in Key :
        offsets[p] > 0 =>
            Count(SubSeq(topic[p], 1, offsets[p]), o) <= live[o]

\* No member is ever refused an event, whatever it took over from another.
NobodyMeetsAGap == \A m \in Member : ~metGap[m]

\* build_consumer, _flush: whichever members come, go and are thrown out, no
\* offset passes an event the read model does not hold, and no member meets a gap.
GroupIsSound ==
    /\ GroupTypeOK
    /\ OffsetsAreWritten
    /\ NobodyMeetsAGap

\* Once members stop coming and going, every event reaches the read model.
\* (While they do, a member whose assignment changes under a batch dies of the
\* commit, and two of them can go on doing that to one another.)
ConvergesOnceSettled ==
    <>[](balanced /\ group # {}) => <>[](\A o \in Key : live[o] = Messages[o])
=============================================================================
