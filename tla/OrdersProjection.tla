-------------------------- MODULE OrdersProjection --------------------------
(***************************************************************************)
(* live_order_state as an Iceberg table with two kinds of writers          *)
(* (orders_projection.py): the streaming consumer with IcebergProjection   *)
(* as its sink, and orders-rebuild-projection, which folds the log of RAW. *)
(*                                                                         *)
(* A writer works on its own handle of the table, which stays at the       *)
(* snapshot it was loaded at; a commit from an old handle is refused.  A   *)
(* row is its last_sequence_no: that equal numbers mean equal rows is what *)
(* OrderFolds is about.                                                    *)
(***************************************************************************)
EXTENDS Naturals, FiniteSets, FiniteSetsExt

CONSTANTS
    Order,               \* order ids
    LogLength,           \* [Order -> Nat]: events in the log of each order
    InRaw,               \* the orders of the partitions a rebuild is given
    Rebuild,             \* processes running orders-rebuild-projection
    RebuildBatch,        \* batch_size of rebuild
    MaxCommitAttempts,   \* MAX_COMMIT_ATTEMPTS
    Strict,              \* FALSE when orders-project runs with --allow-gaps
    MaxRebuild,          \* bound: rebuilds started
    MaxReset,            \* bound: those of them with --reset
    MaxCrash             \* bound: processes killed in the middle of their work

ASSUME ProjectionAssumption ==
    /\ LogLength \in [Order -> Nat \ {0}]
    /\ InRaw \subseteq Order
    /\ "stream" \notin Rebuild
    /\ {RebuildBatch, MaxCommitAttempts} \subseteq Nat \ {0}
    /\ Strict \in BOOLEAN
    /\ {MaxRebuild, MaxReset, MaxCrash} \subseteq Nat

Writer == Rebuild \union {"stream"}

VARIABLES
    emitted,     \* emitted[o]: events of o in the topic, in order
    committed,   \* committed[o]: offset of the group in the messages of o
    position,    \* position[o]: messages of o the running consumer has polled
    refused,     \* TRUE: the batch in hand met a gap
    table,       \* the table as the catalog has it
    handle,      \* handle[w]: the table as w last loaded it
    phase,       \* phase[w]: what the process is doing
    buffer,      \* buffer[w]: rows saved and not committed, 0 for none
    attempt,     \* attempt[w]: refused commits of this buffer
    todo,        \* todo[r]: orders the rebuild has still to write
    used         \* rebuilds, resets and crashes so far

consumer == << committed, position, refused >>
vars == << emitted, consumer, table, handle, phase, buffer, attempt, todo, used >>

Phases == {"stopped", "polling", "committing", "written", "recreating",
           "appending", "merging"}

NoRows == [o \in Order |-> 0]
NoTable == [exists |-> FALSE, snapshot |-> 0, rows |-> {}]

Init ==
    /\ emitted = NoRows
    /\ committed = NoRows
    /\ position = NoRows
    /\ refused = FALSE
    /\ table = NoTable
    /\ handle = [w \in Writer |-> NoTable]
    /\ phase = [w \in Writer |-> "stopped"]
    /\ buffer = [w \in Writer |-> NoRows]
    /\ attempt = [w \in Writer |-> 0]
    /\ todo = [r \in Rebuild |-> {}]
    /\ used = [rebuild |-> 0, reset |-> 0, crash |-> 0]

-----------------------------------------------------------------------------
(* The catalog and the table.                                              *)

\* last_sequence_no of an order in some rows, 0 when it has none.
SeqIn(rows, o) ==
    Max({0} \union {row.last_sequence_no : row \in {r \in rows : r.order_id = o}})

\* _current: what a reader makes of some rows, last_sequence_no by order.  Of
\* two rows of one order it keeps the one the scan gives last.
Current(rows) ==
    {seq \in [Order -> 0 .. Max({SeqIn(rows, o) : o \in Order})] :
        \A o \in Order :
            IF \E row \in rows : row.order_id = o
            THEN \E row \in rows : row.order_id = o /\ row.last_sequence_no = seq[o]
            ELSE seq[o] = 0}

\* pyiceberg refuses to upsert onto an order that already has two rows.
Ambiguous(rows, orders) ==
    \E row, other \in rows :
        row # other /\ row.order_id = other.order_id /\ row.order_id \in orders

\* The table ensure_table returns: created when it was not there.
Ensured ==
    IF table.exists THEN table
    ELSE [exists |-> TRUE, snapshot |-> table.snapshot + 1, rows |-> {}]

\* The catalog takes a commit only on top of the snapshot it was made from.
IsNewest(w) == table.exists /\ handle[w].snapshot = table.snapshot

\* Mutant of Upserted: the new rows are only added.
UpsertedBeside(rows, new) == rows \union new

\* upsert(join_cols=["order_id"]) of the given rows.
Upserted(rows, new) ==
    {row \in rows : \A n \in new : n.order_id # row.order_id} \union new

\* The new snapshot w commits.
CommitRows(w, rows) ==
    /\ table' = [exists |-> TRUE, snapshot |-> table.snapshot + 1, rows |-> rows]
    /\ handle' = [handle EXCEPT ![w] = table']

\* Mutant of AsRow: every row carries the name of the streaming writer.
AsRowUnmarked(w, o, n) ==
    [order_id |-> o, last_sequence_no |-> n, written_by |-> "stream"]

\* _normalize: a row as it is stored, with who wrote it.
AsRow(w, o, n) ==
    [order_id |-> o, last_sequence_no |-> n,
     written_by |-> IF w = "stream" THEN "stream" ELSE "rebuild"]

Emit(o) ==
    /\ emitted[o] < LogLength[o]
    /\ emitted' = [emitted EXCEPT ![o] = @ + 1]
    /\ UNCHANGED << consumer, table, handle, phase, buffer, attempt, todo, used >>

-----------------------------------------------------------------------------
(* IcebergProjection: load, save, commit.                                  *)

\* Mutant of Candidates: a retry that does not compare.
CandidatesBlind(w) == {{o \in Order : buffer[w][o] # 0}}

\* The rows of the buffer that move their order on, as far as w can see.
Candidates(w) ==
    {{o \in Order : buffer[w][o] > seq[o]} : seq \in Current(handle[w].rows)}

\* The buffer is empty and the next step of the process is due.
Done(w) ==
    /\ buffer' = [buffer EXCEPT ![w] = NoRows]
    /\ attempt' = [attempt EXCEPT ![w] = 0]
    /\ phase' = [phase EXCEPT ![w] = IF w = "stream" THEN "written" ELSE "merging"]

\* The process ends, with what it had in memory.
Stopped(w) ==
    /\ phase' = [phase EXCEPT ![w] = "stopped"]
    /\ buffer' = [buffer EXCEPT ![w] = NoRows]
    /\ attempt' = [attempt EXCEPT ![w] = 0]
    /\ IF w \in Rebuild
       THEN todo' = [todo EXCEPT ![w] = {}] /\ UNCHANGED << position, refused >>
       ELSE /\ position' = NoRows
            /\ refused' = FALSE
            /\ UNCHANGED todo

\* Nothing to write: no row of the buffer moves on.
DropStale(w) ==
    /\ phase[w] = "committing"
    /\ {} \in Candidates(w)
    /\ Done(w)
    /\ UNCHANGED << emitted, consumer, table, handle, todo, used >>

\* The upsert is made on the newest snapshot and becomes the next one.
CommitUpsert(w) ==
    /\ phase[w] = "committing"
    /\ IsNewest(w)
    /\ \E orders \in Candidates(w) \ {{}} :
         /\ ~Ambiguous(table.rows, orders)
         /\ CommitRows(w, Upserted(table.rows, {AsRow(w, o, buffer[w][o]) : o \in orders}))
    /\ Done(w)
    /\ UNCHANGED << emitted, consumer, todo, used >>

\* Mutant of RetryCommit: gives up as if it had written.
RetryCommitQuietly(w) ==
    /\ phase[w] = "committing"
    /\ ~IsNewest(w)
    /\ \E orders \in Candidates(w) \ {{}} : ~Ambiguous(handle[w].rows, orders)
    /\ IF attempt[w] + 1 < MaxCommitAttempts /\ table.exists
       THEN /\ handle' = [handle EXCEPT ![w] = table]
            /\ attempt' = [attempt EXCEPT ![w] = @ + 1]
            /\ UNCHANGED << phase, buffer, todo, position, refused >>
       ELSE Done(w) /\ UNCHANGED << handle, todo, position, refused >>
    /\ UNCHANGED << emitted, committed, table, used >>

\* Mutant of RetryCommit: the attempts are not counted out.
RetryCommitForEver(w) ==
    /\ phase[w] = "committing"
    /\ ~IsNewest(w)
    /\ \E orders \in Candidates(w) \ {{}} : ~Ambiguous(handle[w].rows, orders)
    /\ handle' = [handle EXCEPT ![w] = table]
    /\ attempt' = [attempt EXCEPT ![w] = @ + 1]
    /\ UNCHANGED << emitted, consumer, table, phase, buffer, todo, used >>

\* CommitFailedException: reload the table and try again; the last attempt
\* raises, and so does reloading a table that has been dropped.  A process
\* that ends this way has not committed its offsets.
RetryCommit(w) ==
    /\ phase[w] = "committing"
    /\ ~IsNewest(w)
    /\ \E orders \in Candidates(w) \ {{}} : ~Ambiguous(handle[w].rows, orders)
    /\ IF attempt[w] + 1 < MaxCommitAttempts /\ table.exists
       THEN /\ handle' = [handle EXCEPT ![w] = table]
            /\ attempt' = [attempt EXCEPT ![w] = @ + 1]
            /\ UNCHANGED << phase, buffer, todo, position, refused >>
       ELSE Stopped(w) /\ UNCHANGED handle
    /\ UNCHANGED << emitted, committed, table, used >>

\* The upsert raises something commit does not catch.
AbortUpsert(w) ==
    /\ phase[w] = "committing"
    /\ \E orders \in Candidates(w) : Ambiguous(handle[w].rows, orders)
    /\ Stopped(w)
    /\ UNCHANGED << emitted, committed, table, handle, used >>

-----------------------------------------------------------------------------
(* orders-project --sink iceberg.                                          *)

StartStream ==
    /\ phase["stream"] = "stopped"
    /\ table' = Ensured
    /\ handle' = [handle EXCEPT !["stream"] = Ensured]
    /\ position' = committed
    /\ phase' = [phase EXCEPT !["stream"] = "polling"]
    /\ UNCHANGED << emitted, committed, refused, buffer, attempt, todo, used >>

\* project_batch: what the messages m + 1 .. n of an order make of a row at s.
Folded(s, m, n) == IF s < m \/ n <= s THEN 0 ELSE n
MeetsGap(s, m, n) == s < m /\ n > m

\* A batch of messages is polled, folded over the rows of the handle, saved
\* to the buffer.
ProjectBatch ==
    /\ phase["stream"] = "polling"
    /\ \E upto \in {f \in [Order -> 0 .. Cardinality(UNION {0 .. emitted[o] : o \in Order})] :
                      \A o \in Order : position[o] <= f[o] /\ f[o] <= emitted[o]} :
         /\ upto # position
         /\ position' = upto
         /\ \E seq \in Current(handle["stream"].rows) :
                /\ buffer' = [buffer EXCEPT !["stream"] =
                                [o \in Order |-> Folded(seq[o], position[o], upto[o])]]
                /\ refused' = \E o \in Order : MeetsGap(seq[o], position[o], upto[o])
    /\ phase' = [phase EXCEPT !["stream"] =
                   IF buffer'["stream"] = NoRows THEN "written" ELSE "committing"]
    /\ UNCHANGED << emitted, committed, table, handle, attempt, todo, used >>

\* Mutant of CommitOffset: commits what is in the topic, not what was polled.
CommitOffsetAhead ==
    /\ phase["stream"] = "written"
    /\ committed' = emitted
    /\ IF refused /\ Strict
       THEN Stopped("stream")
       ELSE /\ phase' = [phase EXCEPT !["stream"] = "polling"]
            /\ refused' = FALSE
            /\ UNCHANGED << position, buffer, attempt, todo >>
    /\ UNCHANGED << emitted, table, handle, used >>

\* consumer.commit(), then the error of a strict run that met a gap.
CommitOffset ==
    /\ phase["stream"] = "written"
    /\ committed' = position
    /\ IF refused /\ Strict
       THEN Stopped("stream")
       ELSE /\ phase' = [phase EXCEPT !["stream"] = "polling"]
            /\ refused' = FALSE
            /\ UNCHANGED << position, buffer, attempt, todo >>
    /\ UNCHANGED << emitted, table, handle, used >>

\* Nothing arrives for idle_timeout.
IdleExit ==
    /\ phase["stream"] = "polling"
    /\ position = emitted
    /\ Stopped("stream")
    /\ UNCHANGED << emitted, committed, table, handle, used >>

-----------------------------------------------------------------------------
(* orders-rebuild-projection.                                              *)

\* ensure_table; then verify_log and the fold of every partition.
StartRebuild(r) ==
    /\ phase[r] = "stopped"
    /\ used.rebuild < MaxRebuild
    /\ used' = [used EXCEPT !.rebuild = @ + 1]
    /\ table' = Ensured
    /\ handle' = [handle EXCEPT ![r] = Ensured]
    /\ todo' = [todo EXCEPT ![r] = InRaw]
    /\ phase' = [phase EXCEPT ![r] = "merging"]
    /\ UNCHANGED << emitted, consumer, buffer, attempt >>

\* save of the next batch_size states.
SaveBatch(r) ==
    /\ phase[r] = "merging"
    /\ todo[r] # {}
    /\ \E batch \in SUBSET todo[r] :
         /\ \/ Cardinality(batch) = RebuildBatch
            \/ batch = todo[r] /\ Cardinality(batch) < RebuildBatch
         /\ buffer' = [buffer EXCEPT ![r] =
                         [o \in Order |-> IF o \in batch THEN LogLength[o] ELSE 0]]
         /\ todo' = [todo EXCEPT ![r] = @ \ batch]
    /\ phase' = [phase EXCEPT ![r] = "committing"]
    /\ UNCHANGED << emitted, consumer, table, handle, attempt, used >>

EndRebuild(r) ==
    /\ phase[r] = "merging"
    /\ todo[r] = {}
    /\ Stopped(r)
    /\ UNCHANGED << emitted, committed, table, handle, used >>

\* reset_table: drop_table when the table exists.
ResetTable(r) ==
    /\ phase[r] = "stopped"
    /\ used.rebuild < MaxRebuild
    /\ used.reset < MaxReset
    /\ used' = [used EXCEPT !.rebuild = @ + 1, !.reset = @ + 1]
    /\ table' = [table EXCEPT !.exists = FALSE, !.rows = {}]
    /\ phase' = [phase EXCEPT ![r] = "recreating"]
    /\ UNCHANGED << emitted, consumer, handle, buffer, attempt, todo >>

\* reset_table: ensure_table.
RecreateTable(r) ==
    /\ phase[r] = "recreating"
    /\ table' = Ensured
    /\ handle' = [handle EXCEPT ![r] = Ensured]
    /\ phase' = [phase EXCEPT ![r] = "appending"]
    /\ UNCHANGED << emitted, consumer, buffer, attempt, todo, used >>

Appended(r) == table.rows \union {AsRow(r, o, LogLength[o]) : o \in InRaw}

\* Mutant of AppendAll: the append does not look at the snapshot.
AppendAllAnyway(r) ==
    /\ phase[r] = "appending"
    /\ CommitRows(r, Appended(r))
    /\ Stopped(r)
    /\ UNCHANGED << emitted, committed, used >>

\* table.append of everything that was folded.  When another writer committed
\* since ensure_table the append is refused, and nothing tries it again.
AppendAll(r) ==
    /\ phase[r] = "appending"
    /\ IF IsNewest(r)
       THEN CommitRows(r, Appended(r))
       ELSE UNCHANGED << table, handle >>
    /\ Stopped(r)
    /\ UNCHANGED << emitted, committed, used >>

\* Any of the processes is killed.
Crash(w) ==
    /\ phase[w] # "stopped"
    /\ used.crash < MaxCrash
    /\ used' = [used EXCEPT !.crash = @ + 1]
    /\ Stopped(w)
    /\ UNCHANGED << emitted, committed, table, handle >>

-----------------------------------------------------------------------------
Commit(w) ==
    DropStale(w) \/ CommitUpsert(w) \/ RetryCommit(w) \/ AbortUpsert(w)

Stream == StartStream \/ ProjectBatch \/ Commit("stream") \/ CommitOffset

Batch(r) ==
    \/ SaveBatch(r) \/ Commit(r) \/ EndRebuild(r)
    \/ RecreateTable(r) \/ AppendAll(r)

Next ==
    \/ \E o \in Order : Emit(o)
    \/ Stream
    \/ IdleExit
    \/ \E r \in Rebuild : StartRebuild(r) \/ ResetTable(r) \/ Batch(r)
    \/ \E w \in Writer : Crash(w)

Spec == Init /\ [][Next]_vars

\* Events go on arriving, orders-project is run again whenever it ends, and a
\* rebuild that was started goes on.  Nobody has to start one.
Fairness ==
    /\ \A o \in Order : WF_vars(Emit(o))
    /\ WF_vars(Stream)
    /\ \A r \in Rebuild : WF_vars(Batch(r))

FairSpec == Spec /\ Fairness

-----------------------------------------------------------------------------
Rows == [order_id : Order, last_sequence_no : Nat, written_by : {"stream", "rebuild"}]
Table == [exists : BOOLEAN, snapshot : Nat, rows : SUBSET Rows]

TypeOK ==
    /\ {emitted, committed, position} \subseteq [Order -> Nat]
    /\ refused \in BOOLEAN
    /\ table \in Table
    /\ handle \in [Writer -> Table]
    /\ phase \in [Writer -> Phases]
    /\ buffer \in [Writer -> [Order -> Nat]]
    /\ attempt \in [Writer -> 0 .. MaxCommitAttempts]
    /\ todo \in [Rebuild -> SUBSET Order]
    /\ used \in [rebuild : 0 .. MaxRebuild, reset : 0 .. MaxReset, crash : 0 .. MaxCrash]

\* No snapshot holds two rows of one order: an upsert replaces what is there,
\* whichever writer wrote it.  (Only without a reset: the one append of rebuild
\* adds to what is streamed between the drop and the create.)
OneRowPerOrder ==
    used.reset = 0 =>
    \A row, other \in table.rows : row.order_id = other.order_id => row = other

\* Two writers, conflicts, retries and crashes never make an order go back
\* (module header: "the merge must be monotonic").
Seen == INSTANCE MonotonicTable
    WITH reached <- [o \in Order |-> SeqIn(table.rows, o)]

ImplementsMonotonicTable == Seen!Spec

\* No row is ahead of the log of its order, and a row the rebuild did not
\* write is not ahead of the topic.
RowsAreFolds ==
    \A row \in table.rows :
        /\ row.last_sequence_no <= LogLength[row.order_id]
        /\ row.written_by = "stream" => row.last_sequence_no <= emitted[row.order_id]

\* Without a reset: what the group will not be given again is in the table,
\* also when a commit loses MAX_COMMIT_ATTEMPTS times and the process ends.
CommittedIsWritten ==
    used.reset = 0 => \A o \in Order : committed[o] <= SeqIn(table.rows, o)

\* Without a reset the consumer never meets a gap, although it folds over a
\* handle the other writer's commits do not refresh.
NeverRefused == used.reset = 0 => ~refused

\* IcebergProjection.commit and _flush: whoever commits, gives up or dies, an
\* order has one row, the fold of a prefix of its log; no offset passes an
\* event the table does not hold, and so nobody who resumes meets a gap.
TableIsSound ==
    /\ TypeOK
    /\ OneRowPerOrder
    /\ RowsAreFolds
    /\ CommittedIsWritten
    /\ NeverRefused

\* _current: "Current state, re-read from the newest snapshot".
ReadsNewestSnapshot == [][ProjectBatch => IsNewest("stream")]_vars

\* rebuild, on --reset: "the table is EMPTY and this writer is alone on it".
AloneAfterReset ==
    \A r \in Rebuild : phase[r] = "appending" => IsNewest(r) /\ table.rows = {}

\* Unless somebody resets it, every event reaches the table, whatever the
\* other writer does meanwhile.
Converges ==
    [](used.reset = 0) => <>[](\A o \in Order : SeqIn(table.rows, o) = LogLength[o])
=============================================================================
