-------------------------- MODULE ReadModelProofs --------------------------
(***************************************************************************)
(* The two ways into live_order_state that have several processes.         *)
(*                                                                         *)
(* For any number of orders and rebuilds, any batch sizes, commit attempts *)
(* and crashes: the Iceberg read model with its two kinds of writers is    *)
(* sound (TableIsSound) and no commit takes an order back, a --reset       *)
(* dropping the table being the one exception (MonotonicTable).            *)
(*                                                                         *)
(* For any number of orders, partitions and members, any batch size, and   *)
(* whoever joins, is thrown out or dies: a consumer group over that table  *)
(* is sound (GroupIsSound) and takes no order back.                        *)
(***************************************************************************)
EXTENDS OrdersProjection, ProjectorGroup, WellFoundedInduction, FiniteSetTheorems, TLAPS

-----------------------------------------------------------------------------
(* The inductive invariant.                                                *)

Bounded(rows) == \A row \in rows : row.last_sequence_no <= LogLength[row.order_id]

OneRow(rows) == \A row, other \in rows : row.order_id = other.order_id => row = other

\* Offsets are offsets of messages, and what is in hand was in the log.
WithinTheLog ==
    \A o \in Order :
        /\ emitted[o] <= LogLength[o]
        /\ committed[o] <= emitted[o]
        /\ position[o] <= emitted[o]
        /\ buffer["stream"][o] <= emitted[o]
        /\ \A w \in Writer : buffer[w][o] <= LogLength[o]

\* What the catalog compares, the number of the snapshot, says which rows the
\* handle has: this is what makes a commit on the newest snapshot a merge.
HandlesAreSnapshots ==
    /\ ~table.exists => table.rows = {}
    /\ \A w \in Writer :
         /\ Bounded(handle[w].rows)
         /\ handle[w].snapshot <= table.snapshot
         /\ table.exists /\ handle[w].snapshot = table.snapshot
              => handle[w].rows = table.rows

\* Messages the consumer has polled and not committed are in the rows it can
\* see, or in the buffer.
PolledIsHeld ==
    \A o \in Order :
        /\ phase["stream"] \in {"polling", "written"} =>
             position[o] <= SeqIn(handle["stream"].rows, o)
        /\ phase["stream"] = "committing" =>
             \/ position[o] <= SeqIn(handle["stream"].rows, o)
             \/ position[o] <= buffer["stream"][o]

\* As long as nobody resets the table, a handle is behind it in every order.
NobodyReset ==
    /\ \A w \in Writer :
         /\ phase[w] \notin {"recreating", "appending"}
         /\ OneRow(handle[w].rows)
         /\ \A o \in Order : SeqIn(handle[w].rows, o) <= SeqIn(table.rows, o)
    /\ PolledIsHeld

TableInvariant ==
    /\ TableIsSound
    /\ WithinTheLog
    /\ HandlesAreSnapshots
    /\ used.reset = 0 => NobodyReset

-----------------------------------------------------------------------------
(* Numbers.                                                                *)

\* A set of numbers that is not empty has a smallest one.
LEMMA SmallestExists ==
    ASSUME NEW S \in SUBSET Nat, S # {}
    PROVE  \E n \in S : \A m \in S : n <= m
  <1> DEFINE R == OpToRel(<, Nat)
  <1>1. \E x \in S : \A y \in S : ~(<< y, x >> \in R)
    BY NatLessThanWellFounded, WFMin, Zenon
  <1>2. \A x, y \in Nat : x < y => << x, y >> \in R
    <2> SUFFICES ASSUME NEW x \in Nat, NEW y \in Nat, x < y
                 PROVE  << x, y >> \in R
      OBVIOUS
    <2>1. << x, y >> \in Nat \X Nat
      OBVIOUS
    <2>2. << x, y >>[1] < << x, y >>[2]
      OBVIOUS
    <2> QED
      BY <2>1, <2>2, Zenon DEF OpToRel
  <1> HIDE DEF R
  <1>3. PICK x \in S : \A y \in S : ~(<< y, x >> \in R)
    BY <1>1
  <1>4. ASSUME NEW m \in S
        PROVE  x <= m
    <2>1. m \in Nat /\ x \in Nat
      OBVIOUS
    <2>2. ~(m < x)
      BY <1>2, <1>3, <2>1, Zenon
    <2> QED
      BY <2>1, <2>2
  <1> QED
    BY <1>4

\* A set of numbers that is not empty and has a bound has a greatest one.
LEMMA MaxOfBounded ==
    ASSUME NEW N \in Nat, NEW S \in SUBSET (0 .. N), S # {}
    PROVE  Max(S) \in S /\ \A x \in S : x <= Max(S)
  <1> DEFINE T == {n \in Nat : N - n \in S}
  <1>1. PICK x \in S : TRUE
    OBVIOUS
  <1>2. N - x \in T
    <2>1. x \in Nat /\ N - x \in Nat /\ N - (N - x) = x
      OBVIOUS
    <2> QED
      BY <2>1
  <1>3. PICK n \in T : \A m \in T : n <= m
    BY <1>2, SmallestExists
  <1>4. \A y \in S : N - n >= y
    <2> TAKE y \in S
    <2>1. y \in Nat /\ N - y \in Nat /\ N - (N - y) = y
      OBVIOUS
    <2>2. N - y \in T
      BY <2>1
    <2>3. n <= N - y
      BY <1>3, <2>2
    <2> QED
      BY <2>1, <2>3
  <1>5. N - n \in S
    OBVIOUS
  <1>6. \E z \in S : \A y \in S : z >= y
    BY <1>4, <1>5
  <1>7. Max(S) \in S /\ \A y \in S : Max(S) >= y
    BY <1>6 DEF Max
  <1> QED
    BY <1>7

\* last_sequence_no of an order in some rows is that of its newest row.
LEMMA SeqFacts ==
    ASSUME NEW rows \in SUBSET Rows, Bounded(rows), NEW o \in Order
    PROVE  /\ SeqIn(rows, o) \in Nat
           /\ SeqIn(rows, o) <= LogLength[o]
           /\ \A row \in rows : row.order_id = o => row.last_sequence_no <= SeqIn(rows, o)
           /\ \/ SeqIn(rows, o) = 0
              \/ \E row \in rows : row.order_id = o /\ row.last_sequence_no = SeqIn(rows, o)
  <1> DEFINE S == {0} \union {row.last_sequence_no : row \in {r \in rows : r.order_id = o}}
  <1>1. LogLength[o] \in Nat
    BY ProjectionAssumption
  <1>2. \A row \in rows : row.last_sequence_no \in Nat
    BY DEF Rows
  <1>3. S \in SUBSET (0 .. LogLength[o])
    BY <1>1, <1>2 DEF Bounded
  <1>4. Max(S) \in S /\ \A x \in S : x <= Max(S)
    BY <1>1, <1>3, MaxOfBounded
  <1>5. SeqIn(rows, o) = Max(S)
    BY DEF SeqIn
  <1> HIDE DEF S
  <1>6. SeqIn(rows, o) \in 0 .. LogLength[o]
    BY <1>3, <1>4, <1>5
  <1>7. \A row \in rows : row.order_id = o => row.last_sequence_no <= SeqIn(rows, o)
    BY <1>4, <1>5 DEF S
  <1>8. SeqIn(rows, o) = 0 \/ \E row \in rows : row.order_id = o /\ row.last_sequence_no = SeqIn(rows, o)
    BY <1>4, <1>5 DEF S
  <1> QED
    BY <1>1, <1>6, <1>7, <1>8

\* What a reader makes of some rows; of rows that are one per order, exactly
\* their last_sequence_no.
LEMMA CurrentFacts ==
    ASSUME NEW rows \in SUBSET Rows, Bounded(rows), NEW seq \in Current(rows)
    PROVE  /\ \A o \in Order : seq[o] \in Nat /\ seq[o] <= SeqIn(rows, o)
           /\ \A o \in Order : ~Ambiguous(rows, {o}) => seq[o] = SeqIn(rows, o)
  <1>1. ASSUME NEW o \in Order
        PROVE  \/ \E row \in rows : row.order_id = o /\ row.last_sequence_no = seq[o]
               \/ seq[o] = 0 /\ ~\E row \in rows : row.order_id = o
    BY DEF Current
  <1> SUFFICES ASSUME NEW o \in Order
               PROVE  /\ seq[o] \in Nat /\ seq[o] <= SeqIn(rows, o)
                      /\ ~Ambiguous(rows, {o}) => seq[o] = SeqIn(rows, o)
    OBVIOUS
  <1>2. /\ SeqIn(rows, o) \in Nat
        /\ \A row \in rows : row.last_sequence_no \in Nat
        /\ \A row \in rows : row.order_id = o => row.last_sequence_no <= SeqIn(rows, o)
        /\ \/ SeqIn(rows, o) = 0
           \/ \E row \in rows : row.order_id = o /\ row.last_sequence_no = SeqIn(rows, o)
    BY SeqFacts DEF Rows
  <1>3. CASE \E row \in rows : row.order_id = o /\ row.last_sequence_no = seq[o]
    <2>1. PICK row \in rows : row.order_id = o /\ row.last_sequence_no = seq[o]
      BY <1>3
    <2>2. seq[o] \in Nat /\ seq[o] <= SeqIn(rows, o)
      BY <1>2, <2>1
    <2>3. ASSUME ~Ambiguous(rows, {o})
          PROVE  seq[o] = SeqIn(rows, o)
      <3>1. \A other \in rows : other.order_id = o => other = row
        BY <2>1, <2>3 DEF Ambiguous
      <3> QED
        BY <1>2, <2>1, <2>2, <3>1
    <2> QED
      BY <2>2, <2>3
  <1>4. CASE seq[o] = 0 /\ ~\E row \in rows : row.order_id = o
    BY <1>2, <1>4
  <1> QED
    BY <1>1, <1>3, <1>4

-----------------------------------------------------------------------------
(* Types.                                                                  *)

LEMMA WriterFacts ==
    /\ "stream" \in Writer
    /\ \A r \in Rebuild : r \in Writer /\ r # "stream"
    /\ \A w \in Writer : w \in Rebuild \/ w = "stream"
  BY ProjectionAssumption DEF Writer

\* The process that ends leaves well-typed state.
LEMMA StoppedType ==
    ASSUME TypeOK, NEW w \in Writer, Stopped(w)
    PROVE  /\ phase' \in [Writer -> Phases]
           /\ buffer' \in [Writer -> [Order -> Nat]]
           /\ attempt' \in [Writer -> 0 .. MaxCommitAttempts]
           /\ todo' \in [Rebuild -> SUBSET Order]
           /\ position' \in [Order -> Nat]
           /\ refused' \in BOOLEAN
  <1>1. MaxCommitAttempts \in Nat \ {0}
    BY ProjectionAssumption
  <1>2. NoRows \in [Order -> Nat] /\ "stopped" \in Phases /\ 0 \in 0 .. MaxCommitAttempts
    BY <1>1 DEF NoRows, Phases
  <1> QED
    BY <1>2 DEF TypeOK, Stopped

LEMMA DoneType ==
    ASSUME TypeOK, NEW w \in Writer, Done(w)
    PROVE  /\ phase' \in [Writer -> Phases]
           /\ buffer' \in [Writer -> [Order -> Nat]]
           /\ attempt' \in [Writer -> 0 .. MaxCommitAttempts]
  <1>1. MaxCommitAttempts \in Nat \ {0}
    BY ProjectionAssumption
  <1>2. /\ NoRows \in [Order -> Nat] /\ 0 \in 0 .. MaxCommitAttempts
        /\ {"written", "merging"} \subseteq Phases
    BY <1>1 DEF NoRows, Phases
  <1> QED
    BY <1>2 DEF TypeOK, Done

\* The counters of rebuilds, resets and crashes stay within their bounds.
LEMMA UsedType ==
    ASSUME TypeOK
    PROVE  LET Used == [rebuild : 0 .. MaxRebuild, reset : 0 .. MaxReset, crash : 0 .. MaxCrash]
           IN  /\ used.rebuild < MaxRebuild => [used EXCEPT !.rebuild = @ + 1] \in Used
               /\ used.rebuild < MaxRebuild /\ used.reset < MaxReset
                    => [used EXCEPT !.rebuild = @ + 1, !.reset = @ + 1] \in Used
               /\ used.crash < MaxCrash => [used EXCEPT !.crash = @ + 1] \in Used
  <1>1. /\ MaxRebuild \in Nat /\ MaxReset \in Nat /\ MaxCrash \in Nat
        /\ used \in [rebuild : 0 .. MaxRebuild, reset : 0 .. MaxReset, crash : 0 .. MaxCrash]
    BY ProjectionAssumption DEF TypeOK
  <1>2. ASSUME used.rebuild < MaxRebuild
        PROVE  [used EXCEPT !.rebuild = @ + 1]
                 \in [rebuild : 0 .. MaxRebuild, reset : 0 .. MaxReset, crash : 0 .. MaxCrash]
    BY <1>1, <1>2
  <1>3. ASSUME used.rebuild < MaxRebuild, used.reset < MaxReset
        PROVE  [used EXCEPT !.rebuild = @ + 1, !.reset = @ + 1]
                 \in [rebuild : 0 .. MaxRebuild, reset : 0 .. MaxReset, crash : 0 .. MaxCrash]
    <2>1. [used EXCEPT !.rebuild = @ + 1, !.reset = @ + 1]
            = [used EXCEPT !.rebuild = used.rebuild + 1, !.reset = used.reset + 1]
      OBVIOUS
    <2>2. used.rebuild + 1 \in 0 .. MaxRebuild /\ used.reset + 1 \in 0 .. MaxReset
      BY <1>1, <1>3
    <2>3. \A A, B, C : \A u \in [rebuild : A, reset : B, crash : C] : \A a \in A, b \in B :
            [u EXCEPT !.rebuild = a, !.reset = b] \in [rebuild : A, reset : B, crash : C]
      OBVIOUS
    <2>4. [used EXCEPT !.rebuild = used.rebuild + 1, !.reset = used.reset + 1]
            \in [rebuild : 0 .. MaxRebuild, reset : 0 .. MaxReset, crash : 0 .. MaxCrash]
      BY <1>1, <2>2, <2>3, Zenon
    <2> QED
      BY <2>1, <2>4, Zenon
  <1>4. ASSUME used.crash < MaxCrash
        PROVE  [used EXCEPT !.crash = @ + 1]
                 \in [rebuild : 0 .. MaxRebuild, reset : 0 .. MaxReset, crash : 0 .. MaxCrash]
    BY <1>1, <1>4
  <1> QED
    BY <1>2, <1>3, <1>4

LEMMA TableTypes ==
    ASSUME TypeOK
    PROVE  /\ Ensured \in Table
           /\ table.rows \in SUBSET Rows /\ table.snapshot \in Nat /\ table.exists \in BOOLEAN
           /\ \A w \in Writer : handle[w].rows \in SUBSET Rows /\ handle[w].snapshot \in Nat
           /\ \A w \in Writer, o \in Order, n \in Nat :
                /\ AsRow(w, o, n) \in Rows
                /\ AsRow(w, o, n).order_id = o
                /\ AsRow(w, o, n).last_sequence_no = n
                /\ AsRow(w, o, n).written_by = "stream" <=> w = "stream"
  BY DEF TypeOK, Table, Ensured, AsRow, Rows

\* A commit puts well-typed rows into the table and the handle.
LEMMA CommitRowsType ==
    ASSUME TypeOK, NEW w \in Writer, NEW rows \in SUBSET Rows, CommitRows(w, rows)
    PROVE  table' \in Table /\ handle' \in [Writer -> Table]
  BY DEF TypeOK, Table, CommitRows

\* The rows of an upsert.
LEMMA UpsertType ==
    ASSUME TypeOK, NEW w \in Writer, NEW orders \in SUBSET Order
    PROVE  Upserted(table.rows, {AsRow(w, o, buffer[w][o]) : o \in orders}) \in SUBSET Rows
  <1>1. \A o \in orders : AsRow(w, o, buffer[w][o]) \in Rows
    BY TableTypes DEF TypeOK
  <1> QED
    BY <1>1, TableTypes DEF Upserted

LEMMA CandidatesAreOrders ==
    ASSUME NEW w \in Writer, NEW orders \in Candidates(w)
    PROVE  orders \in SUBSET Order
  BY DEF Candidates

LEMMA InitTypeOK == Init => TypeOK
  <1> SUFFICES ASSUME Init
               PROVE  TypeOK
    OBVIOUS
  <1>1. MaxCommitAttempts \in Nat /\ MaxRebuild \in Nat /\ MaxReset \in Nat /\ MaxCrash \in Nat
    BY ProjectionAssumption
  <1>2. NoRows \in [Order -> Nat] /\ NoTable \in Table
    BY DEF NoRows, NoTable, Table
  <1>3. /\ table \in Table
        /\ handle \in [Writer -> Table]
        /\ phase \in [Writer -> Phases]
        /\ buffer \in [Writer -> [Order -> Nat]]
        /\ attempt \in [Writer -> 0 .. MaxCommitAttempts]
        /\ todo \in [Rebuild -> SUBSET Order]
    BY <1>1, <1>2 DEF Init, Phases
  <1>4. used \in [rebuild : 0 .. MaxRebuild, reset : 0 .. MaxReset, crash : 0 .. MaxCrash]
    BY <1>1 DEF Init
  <1> QED
    BY <1>2, <1>3, <1>4 DEF Init, TypeOK

\* Every action keeps every type.
LEMMA TypeStep ==
    ASSUME TypeOK, [Next]_vars
    PROVE  TypeOK'
  <1>0. /\ MaxCommitAttempts \in Nat /\ MaxRebuild \in Nat /\ MaxReset \in Nat
        /\ MaxCrash \in Nat /\ InRaw \in SUBSET Order
        /\ \A o \in Order : LogLength[o] \in Nat
    BY ProjectionAssumption DEF TypeOK
  <1> USE DEF consumer
  <1>1. ASSUME NEW o \in Order, Emit(o)
        PROVE  TypeOK'
    BY <1>1 DEF TypeOK, Emit
  <1>2. ASSUME NEW w \in Writer, DropStale(w)
        PROVE  TypeOK'
    BY <1>2, DoneType DEF TypeOK, DropStale
  <1>3. ASSUME NEW w \in Writer, CommitUpsert(w)
        PROVE  TypeOK'
    <2>1. PICK orders \in Candidates(w) :
            CommitRows(w, Upserted(table.rows, {AsRow(w, o, buffer[w][o]) : o \in orders}))
      BY <1>3 DEF CommitUpsert
    <2>2. table' \in Table /\ handle' \in [Writer -> Table]
      BY <2>1, CandidatesAreOrders, UpsertType, CommitRowsType
    <2> QED
      BY <1>3, <2>2, DoneType DEF TypeOK, CommitUpsert
  <1>4. ASSUME NEW w \in Writer, RetryCommit(w)
        PROVE  TypeOK'
    <2>1. CASE attempt[w] + 1 < MaxCommitAttempts /\ table.exists
      <3>1. attempt' \in [Writer -> 0 .. MaxCommitAttempts]
        BY <1>0, <1>4, <2>1 DEF TypeOK, RetryCommit
      <3> QED
        BY <1>4, <2>1, <3>1 DEF TypeOK, RetryCommit
    <2>2. CASE ~(attempt[w] + 1 < MaxCommitAttempts /\ table.exists)
      <3>1. Stopped(w) /\ UNCHANGED << handle, emitted, committed, table, used >>
        BY <1>4, <2>2 DEF RetryCommit
      <3> QED
        BY <3>1, StoppedType DEF TypeOK
    <2> QED
      BY <2>1, <2>2
  <1>5. ASSUME NEW w \in Writer, AbortUpsert(w)
        PROVE  TypeOK'
    BY <1>5, StoppedType DEF TypeOK, AbortUpsert
  <1>6. ASSUME StartStream
        PROVE  TypeOK'
    BY <1>6, WriterFacts, TableTypes DEF TypeOK, StartStream, Phases
  <1>7. ASSUME ProjectBatch
        PROVE  TypeOK'
    <2>1. PICK upto \in {f \in [Order -> 0 .. Cardinality(UNION {0 .. emitted[o] : o \in Order})] :
                      \A o \in Order : position[o] <= f[o] /\ f[o] <= emitted[o]} :
            /\ position' = upto
            /\ \E seq \in Current(handle["stream"].rows) :
                /\ buffer' = [buffer EXCEPT !["stream"] =
                                [o \in Order |-> Folded(seq[o], position[o], upto[o])]]
                /\ refused' = \E o \in Order : MeetsGap(seq[o], position[o], upto[o])
      BY <1>7 DEF ProjectBatch
    <2>2. PICK seq :
                /\ buffer' = [buffer EXCEPT !["stream"] =
                                [o \in Order |-> Folded(seq[o], position[o], upto[o])]]
                /\ refused' = \E o \in Order : MeetsGap(seq[o], position[o], upto[o])
      BY <2>1
    <2>3. upto \in [Order -> Nat]
      <3> DEFINE most == Cardinality(UNION {0 .. emitted[o] : o \in Order})
      <3>1. upto \in [Order -> 0 .. most]
        OBVIOUS
      <3> HIDE DEF most
      <3>2. \A n \in 0 .. most : n \in Nat
        OBVIOUS
      <3> QED
        BY <3>1, <3>2
    <2>4. [o \in Order |-> Folded(seq[o], position[o], upto[o])] \in [Order -> Nat]
      BY <2>3 DEF Folded
    <2>5. /\ phase' \in [Writer -> Phases]
          /\ UNCHANGED << emitted, committed, table, handle, attempt, todo, used >>
      BY <1>7 DEF ProjectBatch, TypeOK, Phases
    <2> QED
      BY <2>1, <2>2, <2>3, <2>4, <2>5 DEF TypeOK
  <1>8. ASSUME CommitOffset
        PROVE  TypeOK'
    <2>1. CASE refused /\ Strict
      BY <1>8, <2>1, WriterFacts, StoppedType DEF TypeOK, CommitOffset
    <2>2. CASE ~(refused /\ Strict)
      BY <1>8, <2>2 DEF TypeOK, CommitOffset, Phases
    <2> QED
      BY <2>1, <2>2
  <1>9. ASSUME IdleExit
        PROVE  TypeOK'
    BY <1>9, WriterFacts, StoppedType DEF TypeOK, IdleExit
  <1>10. ASSUME NEW r \in Rebuild, StartRebuild(r)
         PROVE  TypeOK'
    BY <1>0, <1>10, WriterFacts, UsedType, TableTypes DEF TypeOK, StartRebuild, Phases
  <1>11. ASSUME NEW r \in Rebuild, SaveBatch(r)
         PROVE  TypeOK'
    <2>1. PICK batch \in SUBSET todo[r] :
            /\ buffer' = [buffer EXCEPT ![r] =
                            [o \in Order |-> IF o \in batch THEN LogLength[o] ELSE 0]]
            /\ todo' = [todo EXCEPT ![r] = @ \ batch]
      BY <1>11 DEF SaveBatch
    <2>2. [o \in Order |-> IF o \in batch THEN LogLength[o] ELSE 0] \in [Order -> Nat]
      BY <1>0
    <2> QED
      BY <1>11, <2>1, <2>2 DEF TypeOK, SaveBatch, Phases
  <1>12. ASSUME NEW r \in Rebuild, EndRebuild(r)
         PROVE  TypeOK'
    BY <1>12, WriterFacts, StoppedType DEF TypeOK, EndRebuild
  <1>13. ASSUME NEW r \in Rebuild, ResetTable(r)
         PROVE  TypeOK'
    BY <1>13, UsedType DEF TypeOK, ResetTable, Phases, Table
  <1>14. ASSUME NEW r \in Rebuild, RecreateTable(r)
         PROVE  TypeOK'
    BY <1>14, TableTypes DEF TypeOK, RecreateTable, Phases
  <1>15. ASSUME NEW r \in Rebuild, AppendAll(r)
         PROVE  TypeOK'
    <2>1. Appended(r) \in SUBSET Rows
      BY <1>0, WriterFacts, TableTypes DEF Appended
    <2>2. table' \in Table /\ handle' \in [Writer -> Table]
      <3>1. CASE IsNewest(r)
        BY <1>15, <2>1, <3>1, WriterFacts, CommitRowsType DEF AppendAll
      <3>2. CASE ~IsNewest(r)
        BY <1>15, <3>2 DEF AppendAll, TypeOK
      <3> QED
        BY <3>1, <3>2
    <2> QED
      BY <1>15, <2>2, WriterFacts, StoppedType DEF TypeOK, AppendAll
  <1>16. ASSUME NEW w \in Writer, Crash(w)
         PROVE  TypeOK'
    BY <1>16, UsedType, StoppedType DEF TypeOK, Crash
  <1>17. CASE UNCHANGED vars
    BY <1>17 DEF TypeOK, vars
  <1> QED
    BY <1>1, <1>2, <1>3, <1>4, <1>5, <1>6, <1>7, <1>8, <1>9, <1>10, <1>11, <1>12,
       <1>13, <1>14, <1>15, <1>16, <1>17, WriterFacts
       DEF Next, Stream, Batch, Commit

\* Every variable keeps its type, through any number of writers and crashes.
THEOREM TypeCorrect == Spec => []TypeOK
  BY InitTypeOK, TypeStep, PTL DEF Spec

-----------------------------------------------------------------------------
(* What the actions do, said once.                                         *)

LEMMA StoppedFacts ==
    ASSUME TypeOK, NEW w \in Writer, Stopped(w)
    PROVE  /\ \A x \in Writer : phase'[x] = IF x = w THEN "stopped" ELSE phase[x]
           /\ \A x \in Writer : \A o \in Order : buffer'[x][o] = IF x = w THEN 0 ELSE buffer[x][o]
           /\ \/ position' = position /\ refused' = refused /\ w # "stream"
              \/ position' = NoRows /\ refused' = FALSE /\ w = "stream"
  <1>1. \A x \in Writer : phase'[x] = IF x = w THEN "stopped" ELSE phase[x]
    BY DEF TypeOK, Stopped
  <1>2. \A x \in Writer : \A o \in Order : buffer'[x][o] = IF x = w THEN 0 ELSE buffer[x][o]
    BY DEF TypeOK, Stopped, NoRows
  <1>3. \/ position' = position /\ refused' = refused /\ w # "stream"
        \/ position' = NoRows /\ refused' = FALSE /\ w = "stream"
    BY WriterFacts DEF Stopped
  <1> QED
    BY <1>1, <1>2, <1>3

LEMMA DoneFacts ==
    ASSUME TypeOK, NEW w \in Writer, Done(w)
    PROVE  /\ \A x \in Writer : \A o \in Order : buffer'[x][o] = IF x = w THEN 0 ELSE buffer[x][o]
           /\ \A x \in Writer : x # w => phase'[x] = phase[x]
           /\ phase'[w] = IF w = "stream" THEN "written" ELSE "merging"
  <1>1. \A x \in Writer : \A o \in Order : buffer'[x][o] = IF x = w THEN 0 ELSE buffer[x][o]
    BY DEF TypeOK, Done, NoRows
  <1> QED
    BY <1>1 DEF TypeOK, Done

\* A batch of the stream: offsets within the topic, and in the buffer nothing
\* that was not polled.
LEMMA BatchFacts ==
    ASSUME TypeOK, ProjectBatch
    PROVE  /\ position' \in [Order -> Nat]
           /\ \A o \in Order : position[o] <= position'[o] /\ position'[o] <= emitted[o]
           /\ \A x \in Writer : x # "stream" =>
                buffer'[x] = buffer[x] /\ phase'[x] = phase[x]
           /\ phase'["stream"] = IF buffer'["stream"] = NoRows THEN "written" ELSE "committing"
           /\ phase["stream"] = "polling"
           /\ \E seq \in Current(handle["stream"].rows) :
                /\ \A o \in Order :
                     buffer'["stream"][o] = Folded(seq[o], position[o], position'[o])
                /\ refused' = \E o \in Order : MeetsGap(seq[o], position[o], position'[o])
  <1>0. position' \in [Order -> Nat]
    BY TypeStep DEF Next, Stream, TypeOK
  <1>1. PICK upto \in {f \in [Order -> 0 .. Cardinality(UNION {0 .. emitted[o] : o \in Order})] :
                      \A o \in Order : position[o] <= f[o] /\ f[o] <= emitted[o]} :
            /\ position' = upto
            /\ \E seq \in Current(handle["stream"].rows) :
                /\ buffer' = [buffer EXCEPT !["stream"] =
                                [o \in Order |-> Folded(seq[o], position[o], upto[o])]]
                /\ refused' = \E o \in Order : MeetsGap(seq[o], position[o], upto[o])
    BY DEF ProjectBatch
  <1>2. \A o \in Order : position[o] <= position'[o] /\ position'[o] <= emitted[o]
    BY <1>1
  <1>3. PICK seq \in Current(handle["stream"].rows) :
                /\ buffer' = [buffer EXCEPT !["stream"] =
                                [o \in Order |-> Folded(seq[o], position[o], position'[o])]]
                /\ refused' = \E o \in Order : MeetsGap(seq[o], position[o], position'[o])
    BY <1>1
  <1>4. \A o \in Order : buffer'["stream"][o] = Folded(seq[o], position[o], position'[o])
    BY <1>3, WriterFacts DEF TypeOK
  <1>5. \A x \in Writer : x # "stream" => buffer'[x] = buffer[x]
    BY <1>3 DEF TypeOK
  <1>6. /\ phase["stream"] = "polling"
        /\ phase'["stream"] = IF buffer'["stream"] = NoRows THEN "written" ELSE "committing"
        /\ \A x \in Writer : x # "stream" => phase'[x] = phase[x]
    BY WriterFacts DEF TypeOK, ProjectBatch
  <1> QED
    BY <1>0, <1>2, <1>3, <1>4, <1>5, <1>6

-----------------------------------------------------------------------------
(* Offsets and buffers.                                                    *)

LEMMA WithinTheLogStep ==
    ASSUME TypeOK, WithinTheLog, [Next]_vars
    PROVE  WithinTheLog'
  <1>0. /\ TypeOK'
        /\ \A o \in Order :
             /\ LogLength[o] \in Nat
             /\ emitted[o] \in Nat /\ committed[o] \in Nat /\ position[o] \in Nat
             /\ \A w \in Writer : buffer[w][o] \in Nat
    BY TypeStep, ProjectionAssumption DEF TypeOK
  <1> USE DEF consumer
  <1>1. ASSUME NEW x \in Order, Emit(x)
        PROVE  WithinTheLog'
    <2>1. \A o \in Order : /\ emitted'[o] <= LogLength[o] /\ emitted[o] <= emitted'[o]
                           /\ emitted'[o] \in Nat
      BY <1>0, <1>1 DEF Emit, TypeOK, WithinTheLog
    <2> QED
      BY <1>0, <1>1, <2>1, WriterFacts DEF Emit, WithinTheLog
  <1>2. ASSUME NEW w \in Writer, Stopped(w), UNCHANGED << emitted, committed >>
        PROVE  WithinTheLog'
    <2>1. \A o \in Order : position'[o] = position[o] \/ position'[o] = 0
      BY <1>2, StoppedFacts DEF NoRows
    <2>2. \A x \in Writer : \A o \in Order : buffer'[x][o] = buffer[x][o] \/ buffer'[x][o] = 0
      BY <1>2, StoppedFacts
    <2> QED
      BY <1>0, <1>2, <2>1, <2>2, WriterFacts DEF WithinTheLog
  <1>3. ASSUME NEW w \in Writer, Done(w), UNCHANGED << emitted, committed, position >>
        PROVE  WithinTheLog'
    <2>1. \A x \in Writer : \A o \in Order : buffer'[x][o] = buffer[x][o] \/ buffer'[x][o] = 0
      BY <1>3, DoneFacts
    <2> QED
      BY <1>0, <1>3, <2>1, WriterFacts DEF WithinTheLog
  <1>4. CASE UNCHANGED << emitted, committed, position, buffer >>
    BY <1>4 DEF WithinTheLog
  <1>5. CASE StartStream
    BY <1>5 DEF StartStream, WithinTheLog
  <1>6. CASE ProjectBatch
    <2>1. \A o \in Order : /\ position'[o] \in Nat /\ position'[o] <= emitted[o]
                           /\ buffer'["stream"][o] = 0 \/ buffer'["stream"][o] = position'[o]
      BY <1>6, BatchFacts DEF Folded
    <2>2. \A x \in Writer : x # "stream" => buffer'[x] = buffer[x]
      BY <1>6, BatchFacts
    <2>3. UNCHANGED << emitted, committed >>
      BY <1>6 DEF ProjectBatch
    <2>4. \A w \in Writer : \A o \in Order : buffer'[w][o] <= LogLength[o]
      BY <1>0, <2>1, <2>2 DEF WithinTheLog
    <2> QED
      BY <1>0, <2>1, <2>3, <2>4, WriterFacts DEF WithinTheLog
  <1>7. CASE CommitOffset
    <2>1. committed' = position /\ emitted' = emitted
      BY <1>7 DEF CommitOffset
    <2>2. \A o \in Order : position'[o] = position[o] \/ position'[o] = 0
      <3>1. CASE refused /\ Strict
        BY <1>7, <3>1, StoppedFacts, WriterFacts DEF CommitOffset, NoRows
      <3>2. CASE ~(refused /\ Strict)
        BY <1>7, <3>2 DEF CommitOffset
      <3> QED
        BY <3>1, <3>2
    <2>3. \A x \in Writer : \A o \in Order : buffer'[x][o] = buffer[x][o] \/ buffer'[x][o] = 0
      <3>1. CASE refused /\ Strict
        BY <1>7, <3>1, StoppedFacts, WriterFacts DEF CommitOffset
      <3>2. CASE ~(refused /\ Strict)
        BY <1>7, <3>2 DEF CommitOffset
      <3> QED
        BY <3>1, <3>2
    <2> QED
      BY <1>0, <2>1, <2>2, <2>3, WriterFacts DEF WithinTheLog
  <1>8. ASSUME NEW r \in Rebuild, SaveBatch(r)
        PROVE  WithinTheLog'
    <2>1. \A x \in Writer : \A o \in Order :
            buffer'[x][o] = IF x = r THEN buffer'[r][o] ELSE buffer[x][o]
      BY <1>8, WriterFacts DEF SaveBatch, TypeOK
    <2>2. \A o \in Order : buffer'[r][o] = LogLength[o] \/ buffer'[r][o] = 0
      BY <1>8, WriterFacts DEF SaveBatch, TypeOK
    <2>3. UNCHANGED << emitted, committed, position >>
      BY <1>8 DEF SaveBatch
    <2> QED
      BY <1>0, <2>1, <2>2, <2>3, WriterFacts DEF WithinTheLog
  <1>9. ASSUME NEW w \in Writer, DropStale(w) \/ CommitUpsert(w)
        PROVE  WithinTheLog'
    BY <1>3, <1>9 DEF DropStale, CommitUpsert
  <1>10. ASSUME NEW w \in Writer, RetryCommit(w)
         PROVE  WithinTheLog'
    BY <1>2, <1>4, <1>10 DEF RetryCommit
  <1>11. ASSUME NEW w \in Writer, AbortUpsert(w) \/ Crash(w)
         PROVE  WithinTheLog'
    BY <1>2, <1>11 DEF AbortUpsert, Crash
  <1>12. CASE IdleExit
    BY <1>2, <1>12, WriterFacts DEF IdleExit
  <1>13. ASSUME NEW r \in Rebuild, EndRebuild(r) \/ AppendAll(r)
         PROVE  WithinTheLog'
    BY <1>2, <1>13, WriterFacts DEF EndRebuild, AppendAll
  <1>14. ASSUME NEW r \in Rebuild, StartRebuild(r) \/ ResetTable(r) \/ RecreateTable(r)
         PROVE  WithinTheLog'
    BY <1>4, <1>14 DEF StartRebuild, ResetTable, RecreateTable
  <1>15. CASE UNCHANGED vars
    BY <1>4, <1>15 DEF vars
  <1> QED
    BY <1>1, <1>5, <1>6, <1>7, <1>8, <1>9, <1>10, <1>11, <1>12, <1>13, <1>14, <1>15,
       WriterFacts DEF Next, Stream, Batch, Commit

-----------------------------------------------------------------------------
(* The table and its handles.                                              *)

\* An order is as far in one set of rows as it is in another that has, for
\* each of its rows, one that is not older.
LEMMA SeqGrows ==
    ASSUME NEW rows \in SUBSET Rows, Bounded(rows),
           NEW later \in SUBSET Rows, Bounded(later), NEW o \in Order,
           \A row \in rows : row.order_id = o =>
              \E other \in later : /\ other.order_id = o
                                   /\ row.last_sequence_no <= other.last_sequence_no
    PROVE  SeqIn(rows, o) <= SeqIn(later, o)
  <1>1. SeqIn(rows, o) \in Nat /\ SeqIn(later, o) \in Nat
    BY SeqFacts
  <1>2. CASE SeqIn(rows, o) = 0
    BY <1>1, <1>2
  <1>3. CASE \E row \in rows : row.order_id = o /\ row.last_sequence_no = SeqIn(rows, o)
    <2>1. PICK row \in rows : row.order_id = o /\ row.last_sequence_no = SeqIn(rows, o)
      BY <1>3
    <2>2. PICK other \in later : /\ other.order_id = o
                                 /\ row.last_sequence_no <= other.last_sequence_no
      BY <2>1
    <2>3. other.last_sequence_no \in Nat /\ other.last_sequence_no <= SeqIn(later, o)
      BY <2>2, SeqFacts DEF Rows
    <2> QED
      BY <1>1, <2>1, <2>2, <2>3
  <1> QED
    BY <1>2, <1>3, SeqFacts

\* What is known of the table and the handles at any time.
LEMMA TableFacts ==
    ASSUME TypeOK, RowsAreFolds, HandlesAreSnapshots
    PROVE  /\ table.rows \in SUBSET Rows /\ Bounded(table.rows)
           /\ table.snapshot \in Nat
           /\ \A w \in Writer : /\ handle[w].rows \in SUBSET Rows
                                /\ Bounded(handle[w].rows)
                                /\ handle[w].snapshot \in Nat
           /\ \A w \in Writer : IsNewest(w) => handle[w].rows = table.rows
           /\ \A o \in Order : /\ SeqIn(table.rows, o) \in Nat
                               /\ \A w \in Writer : SeqIn(handle[w].rows, o) \in Nat
  <1>1. /\ table.rows \in SUBSET Rows /\ Bounded(table.rows)
        /\ \A w \in Writer : handle[w].rows \in SUBSET Rows /\ Bounded(handle[w].rows)
    BY TableTypes DEF RowsAreFolds, HandlesAreSnapshots, Bounded
  <1>2. \A o \in Order : /\ SeqIn(table.rows, o) \in Nat
                         /\ \A w \in Writer : SeqIn(handle[w].rows, o) \in Nat
    BY <1>1, SeqFacts
  <1> QED
    BY <1>1, <1>2, TableTypes DEF HandlesAreSnapshots, IsNewest

\* The upsert on the newest snapshot: every order stays where it is or goes on.
LEMMA UpsertFacts ==
    ASSUME TypeOK, WithinTheLog, RowsAreFolds, HandlesAreSnapshots,
           NEW w \in Writer, IsNewest(w),
           NEW orders \in Candidates(w), ~Ambiguous(table.rows, orders),
           NEW rows, rows = Upserted(table.rows, {AsRow(w, o, buffer[w][o]) : o \in orders})
    PROVE  /\ rows \in SUBSET Rows /\ Bounded(rows)
           /\ \A row \in rows : row.written_by = "stream" =>
                row.last_sequence_no <= emitted[row.order_id]
           /\ \A o \in Order : SeqIn(table.rows, o) <= SeqIn(rows, o)
           /\ OneRow(table.rows) => /\ OneRow(rows)
                                    /\ \A o \in Order : buffer[w][o] <= SeqIn(rows, o)
  <1>1. /\ orders \in SUBSET Order
        /\ rows \in SUBSET Rows
        /\ \A o \in Order : buffer[w][o] \in Nat
    BY CandidatesAreOrders, UpsertType DEF TypeOK
  <1>2. PICK seq \in Current(handle[w].rows) : orders = {o \in Order : buffer[w][o] > seq[o]}
    BY DEF Candidates
  <1>3. seq \in Current(table.rows)
    BY <1>2, TableFacts
  <1>4. \A row \in rows :
          \/ row \in table.rows /\ row.order_id \notin orders
          \/ \E o \in orders : row = AsRow(w, o, buffer[w][o])
    BY <1>1, TableTypes DEF Upserted
  <1>5. \A o \in orders : /\ AsRow(w, o, buffer[w][o]) \in rows
                          /\ AsRow(w, o, buffer[w][o]).order_id = o
                          /\ AsRow(w, o, buffer[w][o]).last_sequence_no = buffer[w][o]
    BY <1>1, TableTypes DEF Upserted
  <1>6. \A row \in table.rows : row.order_id \notin orders => row \in rows
    BY <1>1, TableTypes DEF Upserted
  <1>7. Bounded(rows)
    BY <1>1, <1>4, <1>5 DEF Bounded, RowsAreFolds, WithinTheLog
  <1>8. \A row \in rows : row.written_by = "stream" =>
          row.last_sequence_no <= emitted[row.order_id]
    <2> SUFFICES ASSUME NEW row \in rows, row.written_by = "stream"
                 PROVE  row.last_sequence_no <= emitted[row.order_id]
      OBVIOUS
    <2>1. CASE row \in table.rows
      BY <2>1 DEF RowsAreFolds
    <2>2. CASE \E o \in orders : row = AsRow(w, o, buffer[w][o])
      <3>1. PICK o \in orders : row = AsRow(w, o, buffer[w][o])
        BY <2>2
      <3>2. w = "stream" /\ row.order_id = o /\ row.last_sequence_no = buffer[w][o]
        BY <1>1, <3>1, TableTypes
      <3> QED
        BY <1>1, <3>2 DEF WithinTheLog
    <2> QED
      BY <1>4, <2>1, <2>2
  <1>9. ASSUME NEW o \in Order
        PROVE  SeqIn(table.rows, o) <= SeqIn(rows, o)
    <2>1. CASE o \in orders
      <3>1. ~Ambiguous(table.rows, {o})
        BY <2>1 DEF Ambiguous
      <3>2. seq[o] = SeqIn(table.rows, o)
        BY <1>3, <3>1, CurrentFacts, TableFacts
      <3>3. buffer[w][o] > SeqIn(table.rows, o)
        BY <1>2, <2>1, <3>2
      <3>4. buffer[w][o] <= SeqIn(rows, o) /\ SeqIn(rows, o) \in Nat
        BY <1>1, <1>5, <1>7, <2>1, SeqFacts
      <3>5. SeqIn(table.rows, o) \in Nat
        BY TableFacts
      <3> QED
        BY <1>1, <3>3, <3>4, <3>5
    <2>2. CASE o \notin orders
      <3>1. \A row \in table.rows : row.order_id = o =>
              \E other \in rows : /\ other.order_id = o
                                  /\ row.last_sequence_no <= other.last_sequence_no
        <4> SUFFICES ASSUME NEW row \in table.rows, row.order_id = o
                     PROVE  row \in rows /\ row.last_sequence_no <= row.last_sequence_no
          OBVIOUS
        <4>1. row.last_sequence_no \in Nat
          BY TableFacts DEF Rows
        <4> QED
          BY <1>6, <2>2, <4>1
      <3> QED
        BY <1>1, <1>7, <3>1, SeqGrows, TableFacts
    <2> QED
      BY <2>1, <2>2
  <1>10. ASSUME OneRow(table.rows)
         PROVE  /\ OneRow(rows)
                /\ \A o \in Order : buffer[w][o] <= SeqIn(rows, o)
    <2>1. OneRow(rows)
      <3> SUFFICES ASSUME NEW row \in rows, NEW other \in rows,
                          row.order_id = other.order_id
                   PROVE  row = other
        BY DEF OneRow
      <3>1. CASE row.order_id \in orders
        BY <1>4, <1>5, <3>1
      <3>2. CASE row.order_id \notin orders
        <4>1. row \in table.rows /\ other \in table.rows
          BY <1>4, <1>5, <3>2
        <4> QED
          BY <1>10, <4>1 DEF OneRow
      <3> QED
        BY <3>1, <3>2
    <2>2. ASSUME NEW o \in Order
          PROVE  buffer[w][o] <= SeqIn(rows, o)
      <3>1. SeqIn(table.rows, o) <= SeqIn(rows, o) /\ SeqIn(rows, o) \in Nat
            /\ SeqIn(table.rows, o) \in Nat
        BY <1>1, <1>7, <1>9, SeqFacts, TableFacts
      <3>2. CASE o \in orders
        BY <1>1, <1>5, <1>7, <3>2, SeqFacts
      <3>3. CASE o \notin orders
        <4>1. ~(buffer[w][o] > seq[o])
          BY <1>2, <3>3
        <4>2. seq[o] \in Nat /\ seq[o] <= SeqIn(table.rows, o)
          BY <1>3, CurrentFacts, TableFacts
        <4> QED
          BY <1>1, <3>1, <4>1, <4>2
      <3> QED
        BY <3>2, <3>3
    <2> QED
      BY <2>1, <2>2
  <1> QED
    BY <1>1, <1>7, <1>8, <1>9, <1>10

\* The ways in which a step can change the table and who has seen what of it.
Ensures(w) == table' = Ensured /\ handle' = [handle EXCEPT ![w] = Ensured]
Reloads(w) == table' = table /\ handle' = [handle EXCEPT ![w] = table]
Drops      == table' = [table EXCEPT !.exists = FALSE, !.rows = {}] /\ handle' = handle
Appends(r) == phase[r] = "appending" /\ IsNewest(r) /\ CommitRows(r, Appended(r))

Upserts(w) ==
    /\ IsNewest(w)
    /\ \E orders \in Candidates(w) :
         /\ ~Ambiguous(table.rows, orders)
         /\ CommitRows(w, Upserted(table.rows, {AsRow(w, o, buffer[w][o]) : o \in orders}))

LEMMA TableMoves ==
    ASSUME [Next]_vars
    PROVE  \/ UNCHANGED << table, handle >>
           \/ \E w \in Writer : Ensures(w) \/ Reloads(w) \/ Upserts(w)
           \/ Drops /\ used'.reset = used.reset + 1
           \/ \E r \in Rebuild : Appends(r)
  <1> USE DEF consumer
  <1>1. ASSUME NEW w \in Writer, Commit(w)
        PROVE  UNCHANGED << table, handle >> \/ Reloads(w) \/ Upserts(w)
    BY <1>1 DEF Commit, DropStale, CommitUpsert, RetryCommit, AbortUpsert, Reloads, Upserts
  <1>2. CASE StartStream
    BY <1>2, WriterFacts DEF StartStream, Ensures
  <1>3. CASE \/ \E o \in Order : Emit(o)
             \/ ProjectBatch \/ CommitOffset \/ IdleExit \/ UNCHANGED vars
             \/ \E w \in Writer : Crash(w)
             \/ \E r \in Rebuild : SaveBatch(r) \/ EndRebuild(r)
    BY <1>3 DEF Emit, ProjectBatch, CommitOffset, IdleExit, vars, Crash, SaveBatch, EndRebuild
  <1>4. ASSUME NEW r \in Rebuild, StartRebuild(r) \/ RecreateTable(r)
        PROVE  Ensures(r)
    BY <1>4 DEF StartRebuild, RecreateTable, Ensures
  <1>5. ASSUME NEW r \in Rebuild, ResetTable(r)
        PROVE  Drops /\ used'.reset = used.reset + 1
    BY <1>5 DEF ResetTable, Drops
  <1>6. ASSUME NEW r \in Rebuild, AppendAll(r)
        PROVE  Appends(r) \/ UNCHANGED << table, handle >>
    BY <1>6 DEF AppendAll, Appends
  <1> QED
    BY <1>1, <1>2, <1>3, <1>4, <1>5, <1>6, WriterFacts DEF Next, Stream, Batch

\* emitted never goes down.
LEMMA EmittedGrows ==
    ASSUME TypeOK, [Next]_vars, NEW o \in Order
    PROVE  emitted[o] \in Nat /\ emitted'[o] \in Nat /\ emitted[o] <= emitted'[o]
  <1>1. emitted[o] \in Nat
    BY DEF TypeOK
  <1>2. ASSUME NEW x \in Order, Emit(x)
        PROVE  emitted[o] <= emitted'[o] /\ emitted'[o] \in Nat
    BY <1>1, <1>2 DEF Emit, TypeOK
  <1>3. emitted' = emitted \/ \E x \in Order : Emit(x)
    BY DEF Next, Stream, Batch, Commit, DropStale, CommitUpsert, RetryCommit, AbortUpsert,
           StartStream, ProjectBatch, CommitOffset, IdleExit, StartRebuild, SaveBatch,
           EndRebuild, ResetTable, RecreateTable, AppendAll, Crash, vars
  <1> QED
    BY <1>1, <1>2, <1>3

\* A log is appended after a --reset: all of it, by the rebuild.
LEMMA AppendFacts ==
    ASSUME TypeOK, RowsAreFolds, HandlesAreSnapshots, NEW r \in Rebuild
    PROVE  /\ Appended(r) \in SUBSET Rows /\ Bounded(Appended(r))
           /\ \A row \in Appended(r) : row.written_by = "stream" =>
                row.last_sequence_no <= emitted[row.order_id]
           /\ \A o \in Order : SeqIn(table.rows, o) <= SeqIn(Appended(r), o)
  <1>1. /\ InRaw \subseteq Order /\ r \in Writer /\ r # "stream"
        /\ \A o \in Order : LogLength[o] \in Nat
    BY ProjectionAssumption, WriterFacts
  <1>2. \A row \in Appended(r) :
          \/ row \in table.rows
          \/ /\ row \in Rows /\ row.order_id \in Order /\ row.written_by # "stream"
             /\ row.last_sequence_no = LogLength[row.order_id]
    BY <1>1, TableTypes DEF Appended
  <1>3. Appended(r) \in SUBSET Rows
    BY <1>2, TableFacts
  <1>4. Bounded(Appended(r))
    BY <1>1, <1>2 DEF Bounded, RowsAreFolds
  <1>5. \A row \in Appended(r) : row.written_by = "stream" =>
          row.last_sequence_no <= emitted[row.order_id]
    BY <1>2 DEF RowsAreFolds
  <1>6. ASSUME NEW o \in Order
        PROVE  SeqIn(table.rows, o) <= SeqIn(Appended(r), o)
    <2>1. \A row \in table.rows : row \in Appended(r) /\ row.last_sequence_no \in Nat
      BY TableFacts DEF Appended, Rows
    <2>2. \A row \in table.rows : row.last_sequence_no <= row.last_sequence_no
      BY <2>1
    <2> QED
      BY <1>3, <1>4, <2>1, <2>2, SeqGrows, TableFacts
  <1> QED
    BY <1>3, <1>4, <1>5, <1>6

\* What is in the table is the fold of a prefix, whoever wrote it, and a handle
\* with the number of the newest snapshot has its rows.
LEMMA TableStep ==
    ASSUME TypeOK, WithinTheLog, RowsAreFolds, HandlesAreSnapshots, [Next]_vars
    PROVE  RowsAreFolds' /\ HandlesAreSnapshots'
  <1>0. \A o \in Order : emitted[o] \in Nat /\ emitted'[o] \in Nat /\ emitted[o] <= emitted'[o]
    BY EmittedGrows
  <1>1. \A rows \in SUBSET Rows :
          (\A row \in rows : row.written_by = "stream" => row.last_sequence_no <= emitted[row.order_id])
            => \A row \in rows : row.written_by = "stream" => row.last_sequence_no <= emitted'[row.order_id]
    BY <1>0 DEF Rows
  <1>2. CASE UNCHANGED << table, handle >>
    BY <1>1, <1>2, TableFacts DEF RowsAreFolds, HandlesAreSnapshots, Bounded
  <1>3. ASSUME NEW w \in Writer, Ensures(w)
        PROVE  RowsAreFolds' /\ HandlesAreSnapshots'
    <2>1. \A x \in Writer : handle'[x] = IF x = w THEN Ensured ELSE handle[x]
      BY <1>3 DEF Ensures, TypeOK
    <2>2. CASE table.exists
      <3>1. table' = table /\ handle'[w] = table
        BY <1>3, <2>1, <2>2 DEF Ensures, Ensured
      <3>2. RowsAreFolds'
        BY <1>1, <3>1, TableFacts DEF RowsAreFolds
      <3>3. HandlesAreSnapshots'
        BY <2>1, <3>1, TableFacts DEF HandlesAreSnapshots, Ensured
      <3> QED
        BY <3>2, <3>3
    <2>3. CASE ~table.exists
      <3>1. /\ table'.exists /\ table'.rows = {} /\ table'.snapshot = table.snapshot + 1
            /\ handle'[w] = table'
        BY <1>3, <2>1, <2>3 DEF Ensures, Ensured
      <3>2. RowsAreFolds'
        BY <3>1 DEF RowsAreFolds
      <3>3. HandlesAreSnapshots'
        <4>1. ASSUME NEW x \in Writer
              PROVE  /\ Bounded(handle'[x].rows)
                     /\ handle'[x].snapshot <= table'.snapshot
                     /\ table'.exists /\ handle'[x].snapshot = table'.snapshot
                          => handle'[x].rows = table'.rows
          <5>1. CASE x = w
            BY <3>1, <5>1, TableFacts DEF Bounded
          <5>2. CASE x # w
            BY <2>1, <3>1, <5>2, TableFacts DEF HandlesAreSnapshots
          <5> QED
            BY <5>1, <5>2
        <4> QED
          BY <3>1, <4>1 DEF HandlesAreSnapshots, Bounded
      <3> QED
        BY <3>2, <3>3
    <2> QED
      BY <2>2, <2>3
  <1>4. ASSUME NEW w \in Writer, Reloads(w)
        PROVE  RowsAreFolds' /\ HandlesAreSnapshots'
    <2>1. table' = table /\ \A x \in Writer : handle'[x] = IF x = w THEN table ELSE handle[x]
      BY <1>4 DEF Reloads, TypeOK
    <2>2. RowsAreFolds'
      BY <1>1, <2>1, TableFacts DEF RowsAreFolds
    <2>3. HandlesAreSnapshots'
      BY <2>1, TableFacts DEF HandlesAreSnapshots, Bounded
    <2> QED
      BY <2>2, <2>3
  <1>5. CASE Drops
    <2>1. /\ handle' = handle /\ table'.snapshot = table.snapshot
          /\ ~table'.exists /\ table'.rows = {}
      BY <1>5, TableTypes DEF Drops, TypeOK, Table
    <2> QED
      BY <2>1 DEF RowsAreFolds, HandlesAreSnapshots, Bounded
  <1>6. ASSUME NEW w \in Writer, NEW rows \in SUBSET Rows, CommitRows(w, rows), Bounded(rows),
               \A row \in rows : row.written_by = "stream" =>
                  row.last_sequence_no <= emitted[row.order_id]
        PROVE  RowsAreFolds' /\ HandlesAreSnapshots'
    <2>1. /\ table'.exists /\ table'.rows = rows /\ table'.snapshot = table.snapshot + 1
          /\ \A x \in Writer : handle'[x] = IF x = w THEN table' ELSE handle[x]
      BY <1>6 DEF CommitRows, TypeOK
    <2>2. RowsAreFolds'
      BY <1>1, <1>6, <2>1 DEF RowsAreFolds, Bounded
    <2>3. ASSUME NEW x \in Writer
          PROVE  /\ Bounded(handle'[x].rows)
                 /\ handle'[x].snapshot <= table'.snapshot
                 /\ table'.exists /\ handle'[x].snapshot = table'.snapshot
                      => handle'[x].rows = table'.rows
      <3>1. CASE x = w
        BY <1>6, <2>1, <3>1, TableFacts
      <3>2. CASE x # w
        BY <2>1, <3>2, TableFacts DEF HandlesAreSnapshots
      <3> QED
        BY <3>1, <3>2
    <2>4. HandlesAreSnapshots'
      BY <2>1, <2>3 DEF HandlesAreSnapshots, Bounded
    <2> QED
      BY <2>2, <2>4
  <1>7. ASSUME NEW w \in Writer, Upserts(w)
        PROVE  RowsAreFolds' /\ HandlesAreSnapshots'
    <2>1. PICK orders \in Candidates(w) :
            /\ ~Ambiguous(table.rows, orders)
            /\ CommitRows(w, Upserted(table.rows, {AsRow(w, o, buffer[w][o]) : o \in orders}))
      BY <1>7 DEF Upserts
    <2> DEFINE rows == Upserted(table.rows, {AsRow(w, o, buffer[w][o]) : o \in orders})
    <2>2. IsNewest(w)
      BY <1>7 DEF Upserts
    <2>3. /\ rows \in SUBSET Rows /\ Bounded(rows)
          /\ \A row \in rows : row.written_by = "stream" =>
               row.last_sequence_no <= emitted[row.order_id]
      BY <2>1, <2>2, UpsertFacts
    <2> QED
      BY <1>6, <2>1, <2>3
  <1>8. ASSUME NEW r \in Rebuild, Appends(r)
        PROVE  RowsAreFolds' /\ HandlesAreSnapshots'
    BY <1>6, <1>8, WriterFacts, AppendFacts DEF Appends
  <1> QED
    BY <1>2, <1>3, <1>4, <1>5, <1>7, <1>8, TableMoves
-----------------------------------------------------------------------------
(* As long as nobody resets the table.                                     *)

\* Whether a rebuild has been started with --reset is counted.
LEMMA ResetsAreCounted ==
    ASSUME TypeOK, [Next]_vars
    PROVE  /\ used.reset \in Nat
           /\ used'.reset = used.reset \/ used'.reset = used.reset + 1
           /\ \A r \in Rebuild : ResetTable(r) => used'.reset = used.reset + 1
  <1> USE DEF consumer
  <1>1. used.reset \in Nat
    <2>1. used.reset \in 0 .. MaxReset
      BY DEF TypeOK
    <2> QED
      BY <2>1
  <1>2. \A r \in Rebuild : ResetTable(r) => used'.reset = used.reset + 1
    BY DEF ResetTable, TypeOK
  <1>3. \/ used'.reset = used.reset
        \/ \E r \in Rebuild : ResetTable(r)
    BY DEF TypeOK, Next, Stream, Batch, Commit, DropStale, CommitUpsert, RetryCommit,
           AbortUpsert, StartStream, ProjectBatch, CommitOffset, IdleExit, StartRebuild,
           SaveBatch, EndRebuild, RecreateTable, AppendAll, Crash, Emit, vars, Stopped
  <1> QED
    BY <1>1, <1>2, <1>3

\* No order goes back, and none gets a second row; a handle only ever moves
\* on, and stays behind the table.
LEMMA EverybodyMovesOn ==
    ASSUME TypeOK, WithinTheLog, RowsAreFolds, HandlesAreSnapshots, NobodyReset,
           OneRow(table.rows), [Next]_vars, used.reset = 0, used'.reset = 0
    PROVE  /\ OneRow(table'.rows)
           /\ \A o \in Order : SeqIn(table.rows, o) <= SeqIn(table'.rows, o)
           /\ \A w \in Writer :
                /\ OneRow(handle'[w].rows)
                /\ \A o \in Order : /\ SeqIn(handle[w].rows, o) <= SeqIn(handle'[w].rows, o)
                                    /\ SeqIn(handle'[w].rows, o) <= SeqIn(table'.rows, o)
  <1>1. \A o \in Order : /\ SeqIn(table.rows, o) \in Nat
                         /\ \A w \in Writer : /\ SeqIn(handle[w].rows, o) \in Nat
                                              /\ SeqIn(handle[w].rows, o) <= SeqIn(table.rows, o)
    BY TableFacts DEF NobodyReset
  <1>2. CASE UNCHANGED << table, handle >>
    BY <1>1, <1>2 DEF NobodyReset
  <1>3. ASSUME NEW w \in Writer, table'.rows = table.rows,
               \A x \in Writer : handle'[x].rows = IF x = w THEN table.rows ELSE handle[x].rows
        PROVE  /\ OneRow(table'.rows)
               /\ \A o \in Order : SeqIn(table.rows, o) <= SeqIn(table'.rows, o)
               /\ \A x \in Writer :
                    /\ OneRow(handle'[x].rows)
                    /\ \A o \in Order : /\ SeqIn(handle[x].rows, o) <= SeqIn(handle'[x].rows, o)
                                        /\ SeqIn(handle'[x].rows, o) <= SeqIn(table'.rows, o)
    BY <1>1, <1>3 DEF NobodyReset
  <1>4. ASSUME NEW w \in Writer, Ensures(w) \/ Reloads(w)
        PROVE  /\ table'.rows = table.rows
               /\ \A x \in Writer : handle'[x].rows = IF x = w THEN table.rows ELSE handle[x].rows
    <2>1. Ensured.rows = table.rows
      BY DEF Ensured, HandlesAreSnapshots
    <2>2. handle \in [Writer -> Table]
      BY DEF TypeOK
    <2>3. CASE Ensures(w)
      BY <2>1, <2>2, <2>3 DEF Ensures
    <2>4. CASE Reloads(w)
      BY <2>2, <2>4 DEF Reloads
    <2> QED
      BY <1>4, <2>3, <2>4
  <1>5. ASSUME NEW w \in Writer, Upserts(w)
        PROVE  /\ OneRow(table'.rows)
               /\ \A o \in Order : SeqIn(table.rows, o) <= SeqIn(table'.rows, o)
               /\ \A x \in Writer :
                    /\ OneRow(handle'[x].rows)
                    /\ \A o \in Order : /\ SeqIn(handle[x].rows, o) <= SeqIn(handle'[x].rows, o)
                                        /\ SeqIn(handle'[x].rows, o) <= SeqIn(table'.rows, o)
    <2>1. PICK orders \in Candidates(w) :
            /\ ~Ambiguous(table.rows, orders)
            /\ CommitRows(w, Upserted(table.rows, {AsRow(w, o, buffer[w][o]) : o \in orders}))
      BY <1>5 DEF Upserts
    <2>2. PICK rows : rows = Upserted(table.rows, {AsRow(w, o, buffer[w][o]) : o \in orders})
      OBVIOUS
    <2>3. /\ table'.rows = rows
          /\ \A x \in Writer : handle'[x].rows = IF x = w THEN rows ELSE handle[x].rows
      BY <2>1, <2>2 DEF CommitRows, TypeOK
    <2>4. /\ rows \in SUBSET Rows /\ Bounded(rows) /\ OneRow(rows)
          /\ \A o \in Order : SeqIn(table.rows, o) <= SeqIn(rows, o)
      BY <1>5, <2>1, <2>2, UpsertFacts DEF Upserts
    <2>5. \A o \in Order : SeqIn(rows, o) \in Nat
      BY <2>4, SeqFacts
    <2>6. ASSUME NEW x \in Writer
          PROVE  /\ OneRow(handle'[x].rows)
                 /\ \A o \in Order : /\ SeqIn(handle[x].rows, o) <= SeqIn(handle'[x].rows, o)
                                     /\ SeqIn(handle'[x].rows, o) <= SeqIn(table'.rows, o)
      <3>1. CASE x = w
        BY <1>1, <2>3, <2>4, <2>5, <3>1
      <3>2. CASE x # w
        BY <1>1, <2>3, <2>4, <2>5, <3>2 DEF NobodyReset
      <3> QED
        BY <3>1, <3>2
    <2> QED
      BY <2>3, <2>4, <2>6
  <1>6. ~\E r \in Rebuild : Appends(r)
    BY WriterFacts DEF Appends, NobodyReset
  <1>7. used'.reset # used.reset + 1
    OBVIOUS
  <1> QED
    BY <1>2, <1>3, <1>4, <1>5, <1>6, <1>7, TableMoves

\* Nobody is in the middle of a reset.
LEMMA NobodyIsResetting ==
    ASSUME TypeOK, [Next]_vars, used.reset = 0, used'.reset = 0,
           \A w \in Writer : phase[w] \notin {"recreating", "appending"}
    PROVE  \A w \in Writer : phase'[w] \notin {"recreating", "appending"}
  <1>1. \A r \in Rebuild : ~ResetTable(r) /\ ~RecreateTable(r) /\ ~AppendAll(r)
    BY ResetsAreCounted, WriterFacts DEF RecreateTable, AppendAll
  <1>2. ASSUME NEW w \in Writer, Stopped(w)
        PROVE  \A x \in Writer : phase'[x] \notin {"recreating", "appending"}
    BY <1>2, StoppedFacts
  <1>3. ASSUME NEW w \in Writer, Done(w)
        PROVE  \A x \in Writer : phase'[x] \notin {"recreating", "appending"}
    BY <1>3 DEF Done, TypeOK
  <1>4. CASE phase' = phase
    BY <1>4
  <1>5. CASE StartStream \/ ProjectBatch \/ CommitOffset \/ IdleExit
    BY <1>2, <1>5, WriterFacts DEF StartStream, ProjectBatch, CommitOffset, IdleExit, TypeOK
  <1>6. ASSUME NEW w \in Writer, Commit(w)
        PROVE  \A x \in Writer : phase'[x] \notin {"recreating", "appending"}
    BY <1>2, <1>3, <1>4, <1>6 DEF Commit, DropStale, CommitUpsert, RetryCommit, AbortUpsert
  <1>7. ASSUME NEW r \in Rebuild, StartRebuild(r) \/ SaveBatch(r) \/ EndRebuild(r)
        PROVE  \A x \in Writer : phase'[x] \notin {"recreating", "appending"}
    BY <1>2, <1>7, WriterFacts DEF StartRebuild, SaveBatch, EndRebuild, TypeOK
  <1>8. ASSUME NEW w \in Writer, Crash(w)
        PROVE  \A x \in Writer : phase'[x] \notin {"recreating", "appending"}
    BY <1>2, <1>8 DEF Crash
  <1>9. CASE (\E o \in Order : Emit(o)) \/ UNCHANGED vars
    BY <1>4, <1>9 DEF Emit, vars
  <1> QED
    BY <1>1, <1>5, <1>6, <1>7, <1>8, <1>9, WriterFacts DEF Next, Stream, Batch

\* The consumer of a table nobody resets: it meets no gap, and its offsets
\* follow what is in the table.
LEMMA ConsumerStep ==
    ASSUME TypeOK, WithinTheLog, RowsAreFolds, HandlesAreSnapshots, NobodyReset,
           OneRow(table.rows), ~refused,
           \A o \in Order : committed[o] <= SeqIn(table.rows, o),
           [Next]_vars, used.reset = 0, used'.reset = 0
    PROVE  /\ PolledIsHeld'
           /\ ~refused'
           /\ \A o \in Order : committed'[o] <= SeqIn(table'.rows, o)
  <1> USE DEF consumer
  <1>0. /\ "stream" \in Writer
        /\ TypeOK'
        /\ \A o \in Order :
             /\ committed[o] \in Nat /\ position[o] \in Nat
             /\ buffer["stream"][o] \in Nat /\ buffer'["stream"][o] \in Nat
             /\ committed'[o] \in Nat /\ position'[o] \in Nat
    BY TypeStep, WriterFacts DEF TypeOK
  <1>1. RowsAreFolds' /\ HandlesAreSnapshots'
    BY TableStep
  <1>2. \A o \in Order : /\ SeqIn(table.rows, o) \in Nat
                         /\ SeqIn(handle["stream"].rows, o) \in Nat
    BY <1>0, TableFacts
  <1>3. \A o \in Order : /\ SeqIn(table'.rows, o) \in Nat
                         /\ SeqIn(handle'["stream"].rows, o) \in Nat
    <2>1. table'.rows \in SUBSET Rows /\ handle'["stream"].rows \in SUBSET Rows
      BY <1>0 DEF TypeOK, Table
    <2>2. Bounded(table'.rows) /\ Bounded(handle'["stream"].rows)
      BY <1>0, <1>1 DEF RowsAreFolds, HandlesAreSnapshots, Bounded
    <2> QED
      BY <2>1, <2>2, SeqFacts
  <1>4. \A o \in Order : /\ SeqIn(table.rows, o) <= SeqIn(table'.rows, o)
                         /\ SeqIn(handle["stream"].rows, o) <= SeqIn(handle'["stream"].rows, o)
                         /\ SeqIn(handle["stream"].rows, o) <= SeqIn(table.rows, o)
    BY <1>0, EverybodyMovesOn DEF NobodyReset
  <1>5. \A o \in Order :
          /\ phase["stream"] \in {"polling", "written"} =>
               position[o] <= SeqIn(handle["stream"].rows, o)
          /\ phase["stream"] = "committing" =>
               \/ position[o] <= SeqIn(handle["stream"].rows, o)
               \/ position[o] <= buffer["stream"][o]
    BY DEF NobodyReset, PolledIsHeld
  <1> DEFINE Held ==
        \A o \in Order :
          /\ phase'["stream"] \in {"polling", "written"} =>
               position'[o] <= SeqIn(handle'["stream"].rows, o)
          /\ phase'["stream"] = "committing" =>
               \/ position'[o] <= SeqIn(handle'["stream"].rows, o)
               \/ position'[o] <= buffer'["stream"][o]
      Written == \A o \in Order : committed'[o] <= SeqIn(table'.rows, o)
  <1> SUFFICES Held /\ ~refused' /\ Written
    BY DEF PolledIsHeld
  <1>6. ASSUME committed' = committed
        PROVE  Written
    BY <1>0, <1>2, <1>3, <1>4, <1>6
  <1>7. ASSUME UNCHANGED << committed, position, refused >>,
               phase'["stream"] = phase["stream"], buffer'["stream"] = buffer["stream"]
        PROVE  Held /\ ~refused' /\ Written
    <2>1. Held
      BY <1>0, <1>2, <1>3, <1>4, <1>5, <1>7
    <2> QED
      BY <1>6, <1>7, <2>1
  <1>8. ASSUME Stopped("stream")
        PROVE  Held /\ ~refused'
    <2>1. phase'["stream"] = "stopped" /\ ~refused'
      BY <1>0, <1>8, StoppedFacts
    <2> QED
      BY <2>1
  <1>9. ASSUME NEW r \in Rebuild, Stopped(r), UNCHANGED committed
        PROVE  Held /\ ~refused' /\ Written
    <2>1. /\ UNCHANGED << committed, position, refused >>
          /\ phase'["stream"] = phase["stream"] /\ buffer'["stream"] = buffer["stream"]
      BY <1>9, WriterFacts DEF Stopped, TypeOK
    <2> QED
      BY <1>7, <2>1
  <1>10. ASSUME NEW r \in Rebuild, StartRebuild(r) \/ SaveBatch(r)
         PROVE  Held /\ ~refused' /\ Written
    <2>1. /\ UNCHANGED << committed, position, refused >>
          /\ phase'["stream"] = phase["stream"] /\ buffer'["stream"] = buffer["stream"]
      BY <1>10, WriterFacts DEF StartRebuild, SaveBatch, TypeOK
    <2> QED
      BY <1>7, <2>1
  <1>11. ASSUME NEW r \in Rebuild, DropStale(r) \/ CommitUpsert(r)
         PROVE  Held /\ ~refused' /\ Written
    <2>1. /\ UNCHANGED << committed, position, refused >>
          /\ phase'["stream"] = phase["stream"] /\ buffer'["stream"] = buffer["stream"]
      BY <1>11, WriterFacts DEF DropStale, CommitUpsert, Done, TypeOK
    <2> QED
      BY <1>7, <2>1
  <1>12. ASSUME NEW w \in Writer, RetryCommit(w)
         PROVE  Held /\ ~refused' /\ Written
    <2>1. CASE attempt[w] + 1 < MaxCommitAttempts /\ table.exists
      BY <1>7, <1>12, <2>1 DEF RetryCommit
    <2>2. CASE ~(attempt[w] + 1 < MaxCommitAttempts /\ table.exists)
      <3>1. Stopped(w) /\ committed' = committed
        BY <1>12, <2>2 DEF RetryCommit
      <3> QED
        BY <1>6, <1>8, <1>9, <3>1, WriterFacts
    <2> QED
      BY <2>1, <2>2
  <1>13. ASSUME NEW w \in Writer, AbortUpsert(w) \/ Crash(w)
         PROVE  Held /\ ~refused' /\ Written
    BY <1>6, <1>8, <1>9, <1>13, WriterFacts DEF AbortUpsert, Crash
  <1>14. ASSUME NEW r \in Rebuild, EndRebuild(r)
         PROVE  Held /\ ~refused' /\ Written
    BY <1>9, <1>14 DEF EndRebuild
  <1>15. CASE IdleExit
    BY <1>6, <1>8, <1>15 DEF IdleExit
  <1>16. CASE StartStream
    <2>1. handle'["stream"].rows = table.rows
      BY <1>0, <1>16 DEF StartStream, Ensured, HandlesAreSnapshots, TypeOK
    <2>2. /\ position' = committed /\ committed' = committed /\ refused' = refused
          /\ phase'["stream"] = "polling"
      BY <1>0, <1>16 DEF StartStream, TypeOK
    <2>3. Held
      BY <2>1, <2>2
    <2> QED
      BY <1>6, <2>2, <2>3
  <1>17. CASE ProjectBatch
    <2>1. handle' = handle /\ committed' = committed
      BY <1>17 DEF ProjectBatch
    <2>2. PICK seq \in Current(handle["stream"].rows) :
                /\ \A o \in Order :
                     buffer'["stream"][o] = Folded(seq[o], position[o], position'[o])
                /\ refused' = \E o \in Order : MeetsGap(seq[o], position[o], position'[o])
      BY <1>17, BatchFacts
    <2>3. /\ phase["stream"] = "polling"
          /\ phase'["stream"] = IF buffer'["stream"] = NoRows THEN "written" ELSE "committing"
          /\ \A o \in Order : position[o] <= position'[o]
      BY <1>17, BatchFacts
    <2>4. \A o \in Order : seq[o] = SeqIn(handle["stream"].rows, o)
      <3>1. \A o \in Order : ~Ambiguous(handle["stream"].rows, {o})
        BY <1>0 DEF Ambiguous, NobodyReset, OneRow
      <3> QED
        BY <1>0, <3>1, CurrentFacts, TableFacts
    <2>5. \A o \in Order : position[o] <= seq[o] /\ seq[o] \in Nat
      BY <1>2, <1>5, <2>3, <2>4
    <2>6. ~refused'
      BY <1>0, <2>2, <2>5 DEF MeetsGap
    <2>7. \A o \in Order : \/ position'[o] <= seq[o]
                           \/ position'[o] <= buffer'["stream"][o] /\ buffer'["stream"][o] # 0
      BY <1>0, <2>2, <2>5 DEF Folded
    <2>8. Held
      <3>1. CASE buffer'["stream"] = NoRows
        <4>1. \A o \in Order : buffer'["stream"][o] = 0
          BY <3>1 DEF NoRows
        <4> QED
          BY <2>1, <2>3, <2>4, <2>7, <3>1, <4>1
      <3>2. CASE buffer'["stream"] # NoRows
        BY <2>1, <2>3, <2>4, <2>7, <3>2
      <3> QED
        BY <3>1, <3>2
    <2> QED
      BY <1>6, <2>1, <2>6, <2>8
  <1>18. ASSUME DropStale("stream") \/ CommitUpsert("stream")
         PROVE  Held /\ ~refused' /\ Written
    <2>1. /\ phase["stream"] = "committing" /\ phase'["stream"] = "written"
          /\ UNCHANGED << committed, position, refused >>
      BY <1>0, <1>18, DoneFacts DEF DropStale, CommitUpsert
    <2>2. \A o \in Order : buffer["stream"][o] <= SeqIn(handle'["stream"].rows, o)
      <3>1. CASE DropStale("stream")
        <4>1. PICK seq \in Current(handle["stream"].rows) :
                 {} = {o \in Order : buffer["stream"][o] > seq[o]}
          BY <3>1 DEF DropStale, Candidates
        <4>2. \A o \in Order : seq[o] \in Nat /\ seq[o] <= SeqIn(handle["stream"].rows, o)
          BY <1>0, CurrentFacts, TableFacts
        <4>3. \A o \in Order : ~(buffer["stream"][o] > seq[o])
          BY <4>1
        <4> QED
          BY <1>0, <1>2, <1>3, <1>4, <4>2, <4>3
      <3>2. CASE CommitUpsert("stream")
        <4>1. PICK orders \in Candidates("stream") :
                /\ ~Ambiguous(table.rows, orders)
                /\ CommitRows("stream", Upserted(table.rows,
                                {AsRow("stream", o, buffer["stream"][o]) : o \in orders}))
          BY <3>2 DEF CommitUpsert
        <4>2. PICK rows : rows = Upserted(table.rows,
                                {AsRow("stream", o, buffer["stream"][o]) : o \in orders})
          OBVIOUS
        <4>3. \A o \in Order : buffer["stream"][o] <= SeqIn(rows, o)
          BY <1>0, <3>2, <4>1, <4>2, UpsertFacts DEF CommitUpsert
        <4>4. handle'["stream"].rows = rows
          BY <1>0, <4>1, <4>2 DEF CommitRows, TypeOK
        <4> QED
          BY <4>3, <4>4
      <3> QED
        BY <1>18, <3>1, <3>2
    <2>3. Held
      BY <1>0, <1>2, <1>3, <1>4, <1>5, <2>1, <2>2
    <2> QED
      BY <1>6, <2>1, <2>3
  <1>19. CASE CommitOffset
    <2>1. committed' = position /\ phase["stream"] = "written" /\ handle' = handle
      BY <1>19 DEF CommitOffset
    <2>2. Written
      BY <1>0, <1>2, <1>3, <1>4, <1>5, <2>1
    <2>3. /\ phase'["stream"] = "polling" /\ ~refused' /\ position' = position
      BY <1>0, <1>19 DEF CommitOffset, TypeOK
    <2>4. Held
      BY <1>5, <2>1, <2>3
    <2> QED
      BY <2>2, <2>3, <2>4
  <1>20. \A r \in Rebuild : ~ResetTable(r) /\ ~RecreateTable(r) /\ ~AppendAll(r)
    BY ResetsAreCounted, WriterFacts DEF RecreateTable, AppendAll, NobodyReset
  <1>21. CASE (\E o \in Order : Emit(o)) \/ UNCHANGED vars
    BY <1>7, <1>21 DEF Emit, vars
  <1> QED
    BY <1>10, <1>11, <1>12, <1>13, <1>14, <1>15, <1>16, <1>17, <1>18, <1>19, <1>20, <1>21,
       WriterFacts DEF Next, Stream, Batch, Commit

-----------------------------------------------------------------------------
(* The theorems.                                                           *)

LEMMA InitTableInvariant == Init => TableInvariant
  <1> SUFFICES ASSUME Init
               PROVE  TableInvariant
    OBVIOUS
  <1>1. TypeOK
    BY InitTypeOK
  <1>2. /\ table.rows = {} /\ ~table.exists /\ table.snapshot = 0 /\ ~refused
        /\ \A w \in Writer : /\ handle[w].rows = {} /\ handle[w].snapshot = 0
                             /\ phase[w] = "stopped"
                             /\ \A o \in Order : buffer[w][o] = 0
        /\ \A o \in Order : emitted[o] = 0 /\ committed[o] = 0 /\ position[o] = 0
    BY DEF Init, NoTable, NoRows
  <1>3. {} \in SUBSET Rows /\ Bounded({}) /\ OneRow({})
    BY DEF Bounded, OneRow
  <1>4. \A o \in Order : SeqIn({}, o) \in Nat /\ LogLength[o] \in Nat
    BY <1>3, SeqFacts, ProjectionAssumption
  <1>5. RowsAreFolds /\ OneRowPerOrder /\ NeverRefused
    BY <1>2 DEF RowsAreFolds, OneRowPerOrder, NeverRefused
  <1>6. CommittedIsWritten
    BY <1>2, <1>4 DEF CommittedIsWritten
  <1>7. WithinTheLog
    BY <1>2, <1>4, WriterFacts DEF WithinTheLog
  <1>8. HandlesAreSnapshots
    BY <1>2 DEF HandlesAreSnapshots, Bounded
  <1>9. NobodyReset
    <2>1. PolledIsHeld
      BY <1>2, WriterFacts DEF PolledIsHeld
    <2>2. \A w \in Writer : \A o \in Order :
            SeqIn(handle[w].rows, o) = SeqIn({}, o) /\ SeqIn(table.rows, o) = SeqIn({}, o)
      BY <1>2
    <2> QED
      BY <1>2, <1>4, <2>1, <2>2 DEF NobodyReset, OneRow
  <1> QED
    BY <1>1, <1>5, <1>6, <1>7, <1>8, <1>9 DEF TableInvariant, TableIsSound

LEMMA TableInvariantStep ==
    ASSUME TableInvariant, [Next]_vars
    PROVE  TableInvariant'
  <1>1. /\ TypeOK /\ RowsAreFolds /\ WithinTheLog /\ HandlesAreSnapshots
        /\ OneRowPerOrder /\ CommittedIsWritten /\ NeverRefused
        /\ used.reset = 0 => NobodyReset
    BY DEF TableInvariant, TableIsSound
  <1>2. TypeOK' /\ WithinTheLog' /\ RowsAreFolds' /\ HandlesAreSnapshots'
    BY <1>1, TypeStep, WithinTheLogStep, TableStep
  <1>3. ASSUME used'.reset = 0
        PROVE  /\ OneRow(table'.rows)
               /\ ~refused'
               /\ \A o \in Order : committed'[o] <= SeqIn(table'.rows, o)
               /\ NobodyReset'
    <2>1. used.reset = 0
      BY <1>1, <1>3, ResetsAreCounted
    <2>2. /\ NobodyReset /\ ~refused /\ OneRow(table.rows)
          /\ \A o \in Order : committed[o] <= SeqIn(table.rows, o)
      BY <1>1, <2>1 DEF OneRowPerOrder, OneRow, CommittedIsWritten, NeverRefused
    <2>3. /\ OneRow(table'.rows)
          /\ \A w \in Writer :
               /\ OneRow(handle'[w].rows)
               /\ \A o \in Order : SeqIn(handle'[w].rows, o) <= SeqIn(table'.rows, o)
      BY <1>1, <1>3, <2>1, <2>2, EverybodyMovesOn
    <2>4. \A w \in Writer : phase'[w] \notin {"recreating", "appending"}
      BY <1>1, <1>3, <2>1, <2>2, NobodyIsResetting DEF NobodyReset
    <2>5. /\ PolledIsHeld'
          /\ ~refused'
          /\ \A o \in Order : committed'[o] <= SeqIn(table'.rows, o)
      BY <1>1, <1>3, <2>1, <2>2, ConsumerStep
    <2>6. NobodyReset'
      BY <2>3, <2>4, <2>5 DEF NobodyReset
    <2> QED
      BY <2>3, <2>5, <2>6
  <1>4. OneRowPerOrder' /\ CommittedIsWritten' /\ NeverRefused'
    BY <1>3 DEF OneRowPerOrder, OneRow, CommittedIsWritten, NeverRefused
  <1> QED
    BY <1>2, <1>3, <1>4 DEF TableInvariant, TableIsSound

THEOREM TableInvariantHolds == Spec => []TableInvariant
  BY InitTableInvariant, TableInvariantStep, PTL DEF Spec

\* Whoever commits, gives up or dies, and in whatever order: each order has one
\* row, the fold of a prefix of its log; no offset is committed past an event
\* the table does not hold; and a consumer that resumes meets no gap.
THEOREM TableSound == Spec => []TableIsSound
  BY TableInvariantHolds, PTL DEF TableInvariant

\* How far the orders are, as a reader of the table sees it.
reached == [o \in Order |-> SeqIn(table.rows, o)]

\* A commit takes no order back, duplicated rows or not; only a reset does.
LEMMA CommitsMoveOn ==
    ASSUME TableInvariant, TableInvariant', [Next]_vars
    PROVE  [Seen!Next]_reached
  <1>1. /\ TypeOK /\ RowsAreFolds /\ WithinTheLog /\ HandlesAreSnapshots
        /\ table'.rows \in SUBSET Rows /\ Bounded(table'.rows)
    BY DEF TableInvariant, TableIsSound, TypeOK, Table, RowsAreFolds, Bounded
  <1>2. \A o \in Order : SeqIn(table.rows, o) \in Nat /\ SeqIn(table'.rows, o) \in Nat
    BY <1>1, SeqFacts, TableFacts
  <1>3. reached' = [o \in Order |-> SeqIn(table'.rows, o)]
    BY DEF reached
  <1>4. ASSUME \A o \in Order : SeqIn(table.rows, o) <= SeqIn(table'.rows, o)
        PROVE  Seen!Advance
    <2>1. reached' \in [Order -> Nat] /\ \A o \in Order : reached'[o] >= reached[o]
      BY <1>2, <1>3, <1>4 DEF reached
    <2> QED
      BY <2>1 DEF Seen!Advance, reached
  <1>5. CASE table' = table
    BY <1>2, <1>4, <1>5 DEF Seen!Next
  <1>6. ASSUME NEW w \in Writer, Ensures(w) \/ Reloads(w)
        PROVE  Seen!Advance
    <2>1. Ensured.rows = table.rows
      BY <1>1 DEF Ensured, HandlesAreSnapshots
    <2>2. table'.rows = table.rows
      BY <1>6, <2>1 DEF Ensures, Reloads
    <2> QED
      BY <1>2, <1>4, <2>2
  <1>7. ASSUME NEW w \in Writer, Upserts(w)
        PROVE  Seen!Advance
    <2>1. PICK orders \in Candidates(w) :
            /\ ~Ambiguous(table.rows, orders)
            /\ CommitRows(w, Upserted(table.rows, {AsRow(w, o, buffer[w][o]) : o \in orders}))
      BY <1>7 DEF Upserts
    <2>2. PICK rows : rows = Upserted(table.rows, {AsRow(w, o, buffer[w][o]) : o \in orders})
      OBVIOUS
    <2>3. table'.rows = rows
      BY <2>1, <2>2 DEF CommitRows
    <2>4. \A o \in Order : SeqIn(table.rows, o) <= SeqIn(rows, o)
      BY <1>1, <1>7, <2>1, <2>2, UpsertFacts DEF Upserts
    <2> QED
      BY <1>4, <2>3, <2>4
  <1>8. ASSUME NEW r \in Rebuild, Appends(r)
        PROVE  Seen!Advance
    <2>1. table'.rows = Appended(r)
      BY <1>8 DEF Appends, CommitRows
    <2> QED
      BY <1>1, <1>4, <2>1, AppendFacts
  <1>9. CASE Drops
    <2>1. table'.rows = {}
      BY <1>1, <1>9 DEF Drops, TypeOK, Table
    <2>2. \A o \in Order : SeqIn({}, o) = 0
      BY SeqFacts DEF Bounded
    <2>3. reached' = [o \in Order |-> 0]
      BY <1>3, <2>1, <2>2
    <2> QED
      BY <2>3 DEF Seen!Next, Seen!Drop, reached
  <1> QED
    BY <1>5, <1>6, <1>7, <1>8, <1>9, TableMoves DEF Seen!Next

\* The read model in Iceberg implements MonotonicTable: conflicts, retries,
\* stale handles and crashes of either writer never make an order go back.
THEOREM NoCommitGoesBack == Spec => ImplementsMonotonicTable
  <1>1. Init => Seen!Init
    <2> SUFFICES ASSUME Init
                 PROVE  Seen!Init
      OBVIOUS
    <2>1. \A o \in Order : SeqIn({}, o) = 0
      BY SeqFacts DEF Bounded
    <2> QED
      BY <2>1 DEF Init, NoTable, Seen!Init
  <1>2. TableInvariant /\ TableInvariant' /\ [Next]_vars => [Seen!Next]_reached
    BY CommitsMoveOn
  <1> QED
    BY <1>1, <1>2, TableInvariantHolds, PTL DEF Spec, ImplementsMonotonicTable, Seen!Spec, reached

-----------------------------------------------------------------------------
(* The members of the consumer group: what a batch makes of a row.         *)

\* The row of an order after the i-th message, from what it was before.
FoldEntry(u, seq, messages, o, i) ==
    IF i = 0 THEN seq
    ELSE IF messages[i].order_id = o /\ messages[i].sequence_no = u[i - 1] + 1
    THEN messages[i].sequence_no
    ELSE u[i - 1]

\* The row of an order after each of the first n messages.
FoldsUpTo(u, seq, messages, o, n) ==
    u = [i \in 0 .. n |-> FoldEntry(u, seq, messages, o, i)]

LEMMA FoldExists ==
    ASSUME NEW seq, NEW messages, NEW o, NEW n \in Nat
    PROVE  \E u : FoldsUpTo(u, seq, messages, o, n)
  <1> DEFINE S == {k \in Nat : ~ \E u : FoldsUpTo(u, seq, messages, o, k)}
  <1> SUFFICES ASSUME S # {}
               PROVE  FALSE
    OBVIOUS
  <1>1. PICK k \in S : \A x \in S : k <= x
    <2>1. S \in SUBSET Nat
      OBVIOUS
    <2> HIDE DEF S
    <2> QED
      BY <2>1, SmallestExists
  <1>2. CASE k = 0
    <2> DEFINE w == [i \in 0 .. 0 |-> seq]
    <2>1. FoldsUpTo(w, seq, messages, o, 0)
      BY DEF FoldsUpTo, FoldEntry
    <2> QED
      BY <1>2, <2>1
  <1>3. CASE k # 0
    <2>1. k - 1 \in Nat /\ k - 1 \notin S
      BY <1>1, <1>3
    <2>2. PICK u : FoldsUpTo(u, seq, messages, o, k - 1)
      BY <2>1
    <2> DEFINE last == IF messages[k].order_id = o /\ messages[k].sequence_no = u[k - 1] + 1
                       THEN messages[k].sequence_no ELSE u[k - 1]
               w == [i \in 0 .. k |-> IF i = k THEN last ELSE u[i]]
               Entry(v, i) == FoldEntry(v, seq, messages, o, i)
    <2>3. \A i \in 0 .. k - 1 : u[i] = Entry(u, i)
      <3>1. u = [i \in 0 .. k - 1 |-> Entry(u, i)]
        BY <2>2 DEF FoldsUpTo
      <3> HIDE DEF Entry
      <3> QED
        BY <3>1
    <2>4. \A i \in 0 .. k : w[i] = Entry(w, i)
      <3> TAKE i \in 0 .. k
      <3>0. k \in Nat
        BY <1>1
      <3>1. CASE i = k
        <4>1. w[i] = last /\ w[i - 1] = u[i - 1]
          BY <3>0, <3>1, <1>3
        <4> HIDE DEF w
        <4> QED
          BY <4>1, <3>1, <1>3 DEF FoldEntry
      <3>2. CASE i # k
        <4>1. i \in 0 .. k - 1 /\ w[i] = u[i] /\ (i # 0 => w[i - 1] = u[i - 1])
          BY <3>0, <3>2
        <4>2. Entry(w, i) = Entry(u, i)
          <5> HIDE DEF w
          <5> QED
            BY <4>1 DEF FoldEntry
        <4> HIDE DEF w, Entry
        <4> QED
          BY <2>3, <4>1, <4>2
      <3> QED
        BY <3>1, <3>2
    <2>5. w = [i \in 0 .. k |-> w[i]]
      OBVIOUS
    <2>6. w = [i \in 0 .. k |-> Entry(w, i)]
      <3> HIDE DEF w, Entry
      <3> QED
        BY <2>4, <2>5
    <2>7. FoldsUpTo(w, seq, messages, o, k)
      <3> HIDE DEF w
      <3> QED
        BY <2>6 DEF FoldsUpTo
    <2> QED
      BY <2>7, <1>1
  <1> QED
    BY <1>2, <1>3

\* The entries of a fold, one by one.
LEMMA FoldEntries ==
    ASSUME NEW u, NEW seq, NEW messages, NEW o, NEW n \in Nat,
           FoldsUpTo(u, seq, messages, o, n)
    PROVE  \A i \in 0 .. n : u[i] = FoldEntry(u, seq, messages, o, i)
  BY DEF FoldsUpTo

\* Folds of messages that agree are the same as far as they do.
LEMMA FoldsAgree ==
    ASSUME NEW u, NEW w, NEW seq, NEW messages, NEW others, NEW o,
           NEW n \in Nat, NEW k \in Nat, n <= k,
           FoldsUpTo(u, seq, messages, o, n), FoldsUpTo(w, seq, others, o, k),
           \A i \in 1 .. n : messages[i] = others[i]
    PROVE  \A i \in 0 .. n : u[i] = w[i]
  <1> DEFINE S == {i \in 0 .. n : u[i] # w[i]}
  <1> SUFFICES ASSUME S # {}
               PROVE  FALSE
    OBVIOUS
  <1>1. PICK j \in S : \A x \in S : j <= x
    <2>1. S \in SUBSET Nat
      OBVIOUS
    <2> HIDE DEF S
    <2> QED
      BY <2>1, SmallestExists
  <1>2. /\ u[j] = FoldEntry(u, seq, messages, o, j)
        /\ w[j] = FoldEntry(w, seq, others, o, j)
    <2>1. j \in 0 .. n /\ j \in 0 .. k
      BY <1>1
    <2>2. u[j] = FoldEntry(u, seq, messages, o, j)
      BY <2>1, FoldEntries, Zenon
    <2>3. w[j] = FoldEntry(w, seq, others, o, j)
      BY <2>1, FoldEntries, Zenon
    <2> QED
      BY <2>2, <2>3
  <1>3. j # 0 /\ j \in 1 .. n
    BY <1>1, <1>2 DEF FoldEntry
  <1>4. u[j - 1] = w[j - 1]
    <2>1. j - 1 \in 0 .. n /\ ~(j <= j - 1)
      BY <1>3
    <2> QED
      BY <1>1, <2>1
  <1>5. messages[j] = others[j]
    BY <1>3
  <1>6. u[j] # w[j]
    BY <1>1
  <1> HIDE DEF S
  <1> QED
    BY <1>2, <1>3, <1>4, <1>5, <1>6 DEF FoldEntry

LEMMA AppliedIsAFold ==
    ASSUME NEW seq, NEW messages, NEW o, Len(messages) \in Nat
    PROVE  \E u : /\ FoldsUpTo(u, seq, messages, o, Len(messages))
                  /\ Applied(seq, messages, o) = u[Len(messages)]
  <1> DEFINE F(u) == u = [n \in 0 .. Len(messages) |->
                            IF n = 0 THEN seq
                            ELSE IF /\ messages[n].order_id = o
                                    /\ messages[n].sequence_no = u[n - 1] + 1
                            THEN messages[n].sequence_no
                            ELSE u[n - 1]]
             U == CHOOSE u : F(u)
  <1>1. \A u : F(u) <=> FoldsUpTo(u, seq, messages, o, Len(messages))
    BY DEF FoldsUpTo, FoldEntry
  <1>2. \E u : F(u)
    BY <1>1, FoldExists
  <1>3. F(U)
    <2> HIDE DEF F
    <2> QED
      BY <1>2, Zenon
  <1>4. Applied(seq, messages, o) = U[Len(messages)]
    BY DEF Applied
  <1> HIDE DEF F, U
  <1> QED
    BY <1>1, <1>3, <1>4

\* A batch moves rows on, and takes a row that was further on no less far.
LEMMA FoldsMoveOn ==
    ASSUME NEW u, NEW w, NEW a \in Nat, NEW b \in Nat, a <= b,
           NEW messages \in Seq(Event), NEW o, NEW n \in Nat, n <= Len(messages),
           FoldsUpTo(u, a, messages, o, n), FoldsUpTo(w, b, messages, o, n)
    PROVE  \A i \in 0 .. n : /\ u[i] \in Nat /\ w[i] \in Nat
                             /\ a <= u[i] /\ u[i] <= w[i]
  <1> DEFINE Fine(i) == /\ u[i] \in Nat /\ w[i] \in Nat
                        /\ a <= u[i] /\ u[i] <= w[i]
             S == {i \in 0 .. n : ~Fine(i)}
  <1> SUFFICES ASSUME S # {}
               PROVE  FALSE
    OBVIOUS
  <1>1. PICK j \in S : \A x \in S : j <= x
    <2>1. S \in SUBSET Nat
      OBVIOUS
    <2> HIDE DEF S
    <2> QED
      BY <2>1, SmallestExists
  <1>2. j \in 0 .. n /\ ~Fine(j)
    BY <1>1
  <1>3. u[j] = FoldEntry(u, a, messages, o, j)
    BY <1>2, FoldEntries, Zenon
  <1>4. w[j] = FoldEntry(w, b, messages, o, j)
    BY <1>2, FoldEntries, Zenon
  <1>5. j # 0 /\ j \in 1 .. n
    BY <1>2, <1>3, <1>4 DEF FoldEntry
  <1>6. Fine(j - 1)
    <2>1. j - 1 \in 0 .. n /\ ~(j <= j - 1)
      BY <1>5
    <2> HIDE DEF Fine
    <2> QED
      BY <1>1, <2>1
  <1>7. messages[j].sequence_no \in Nat
    <2>1. messages[j] \in Event
      BY <1>5
    <2> QED
      BY <2>1 DEF Event
  <1> HIDE DEF S
  <1> QED
    BY <1>2, <1>3, <1>4, <1>5, <1>6, <1>7 DEF FoldEntry

LEMMA AppliedMovesOn ==
    ASSUME NEW seq \in Nat, NEW messages \in Seq(Event), NEW o
    PROVE  Applied(seq, messages, o) \in Nat /\ seq <= Applied(seq, messages, o)
  <1>1. Len(messages) \in Nat
    OBVIOUS
  <1>2. PICK u : /\ FoldsUpTo(u, seq, messages, o, Len(messages))
                 /\ Applied(seq, messages, o) = u[Len(messages)]
    BY <1>1, AppliedIsAFold
  <1>3. \A i \in 0 .. Len(messages) : /\ u[i] \in Nat /\ u[i] \in Nat
                                      /\ seq <= u[i] /\ u[i] <= u[i]
    BY <1>1, <1>2, FoldsMoveOn
  <1> QED
    BY <1>1, <1>2, <1>3

LEMMA AppliedKeepsOrder ==
    ASSUME NEW a \in Nat, NEW b \in Nat, a <= b,
           NEW messages \in Seq(Event), NEW o
    PROVE  Applied(a, messages, o) <= Applied(b, messages, o)
  <1>1. Len(messages) \in Nat
    OBVIOUS
  <1>2. PICK u : /\ FoldsUpTo(u, a, messages, o, Len(messages))
                 /\ Applied(a, messages, o) = u[Len(messages)]
    BY <1>1, AppliedIsAFold
  <1>3. PICK w : /\ FoldsUpTo(w, b, messages, o, Len(messages))
                 /\ Applied(b, messages, o) = w[Len(messages)]
    BY <1>1, AppliedIsAFold
  <1>4. \A i \in 0 .. Len(messages) : /\ u[i] \in Nat /\ w[i] \in Nat
                                      /\ a <= u[i] /\ u[i] <= w[i]
    BY <1>1, <1>2, <1>3, FoldsMoveOn
  <1> QED
    BY <1>1, <1>2, <1>3, <1>4

LEMMA AppliedToNothing ==
    ASSUME NEW seq \in Nat, NEW o
    PROVE  Applied(seq, << >>, o) = seq
  <1>1. Len(<< >>) = 0
    OBVIOUS
  <1>2. PICK u : /\ FoldsUpTo(u, seq, << >>, o, 0)
                 /\ Applied(seq, << >>, o) = u[0]
    <2>1. Len(<< >>) \in Nat
      OBVIOUS
    <2> QED
      BY <1>1, <2>1, AppliedIsAFold
  <1>3. u[0] = FoldEntry(u, seq, << >>, o, 0)
    BY <1>2 DEF FoldsUpTo
  <1> QED
    BY <1>2, <1>3 DEF FoldEntry

\* One message more.
LEMMA AppliedToOneMore ==
    ASSUME NEW seq \in Nat, NEW messages \in Seq(Event), NEW e \in Event, NEW o
    PROVE  Applied(seq, Append(messages, e), o)
             = IF e.order_id = o /\ e.sequence_no = Applied(seq, messages, o) + 1
               THEN e.sequence_no
               ELSE Applied(seq, messages, o)
  <1> DEFINE n == Len(messages)
             longer == Append(messages, e)
  <1>1. /\ n \in Nat /\ Len(longer) = n + 1 /\ longer[n + 1] = e
        /\ \A i \in 1 .. n : messages[i] = longer[i]
    OBVIOUS
  <1>2. PICK u : /\ FoldsUpTo(u, seq, messages, o, Len(messages))
                 /\ Applied(seq, messages, o) = u[Len(messages)]
    BY <1>1, AppliedIsAFold
  <1>3. PICK w : /\ FoldsUpTo(w, seq, longer, o, Len(longer))
                 /\ Applied(seq, longer, o) = w[Len(longer)]
    <2>1. Len(longer) \in Nat
      BY <1>1
    <2> HIDE DEF longer
    <2> QED
      BY <2>1, AppliedIsAFold
  <1>4. u[n] = w[n]
    <2>1. FoldsUpTo(u, seq, messages, o, n) /\ FoldsUpTo(w, seq, longer, o, n + 1)
      BY <1>1, <1>2, <1>3
    <2>2. n + 1 \in Nat /\ n <= n + 1 /\ n \in 0 .. n
      BY <1>1
    <2> HIDE DEF longer, n
    <2>3. \A i \in 0 .. n : u[i] = w[i]
      BY <1>1, <2>1, <2>2, FoldsAgree
    <2> QED
      BY <2>2, <2>3
  <1>5. w[n + 1] = FoldEntry(w, seq, longer, o, n + 1)
    <2>1. FoldsUpTo(w, seq, longer, o, n + 1)
      BY <1>1, <1>3
    <2>2. n + 1 \in Nat /\ n + 1 \in 0 .. n + 1
      BY <1>1
    <2> HIDE DEF longer, n
    <2>3. \A i \in 0 .. n + 1 : w[i] = FoldEntry(w, seq, longer, o, i)
      BY <2>1, <2>2, FoldEntries
    <2> QED
      BY <2>2, <2>3
  <1>6. Applied(seq, messages, o) = w[n] /\ Applied(seq, longer, o) = w[n + 1]
    BY <1>1, <1>2, <1>3, <1>4
  <1>7. n + 1 # 0 /\ n + 1 - 1 = n
    BY <1>1
  <1> HIDE DEF longer, n
  <1>8. Applied(seq, longer, o)
             = IF e.order_id = o /\ e.sequence_no = Applied(seq, messages, o) + 1
               THEN e.sequence_no
               ELSE Applied(seq, messages, o)
    BY <1>1, <1>5, <1>6, <1>7 DEF FoldEntry
  <1> QED
    BY <1>8 DEF longer

-----------------------------------------------------------------------------
(* The members of the consumer group: events of an order in a partition.   *)

LEMMA CountIsANumber ==
    ASSUME NEW messages \in Seq(Event), NEW o
    PROVE  Count(messages, o) \in Nat
  <1>1. IsFiniteSet(1 .. Len(messages))
    BY FS_Interval
  <1>2. {i \in DOMAIN messages : messages[i].order_id = o} \subseteq 1 .. Len(messages)
    OBVIOUS
  <1>3. IsFiniteSet({i \in DOMAIN messages : messages[i].order_id = o})
    BY <1>1, <1>2, FS_Subset
  <1> QED
    BY <1>3, FS_CardinalityType DEF Count

LEMMA CountOfNone ==
    ASSUME NEW o
    PROVE  Count(<< >>, o) = 0
  <1>1. {i \in DOMAIN << >> : << >>[i].order_id = o} = {}
    OBVIOUS
  <1> QED
    BY <1>1, FS_EmptySet DEF Count

LEMMA CountOfOneMore ==
    ASSUME NEW messages \in Seq(Event), NEW e \in Event, NEW o
    PROVE  Count(Append(messages, e), o)
             = Count(messages, o) + (IF e.order_id = o THEN 1 ELSE 0)
  <1> DEFINE longer == Append(messages, e)
             N == {i \in DOMAIN messages : messages[i].order_id = o}
             L == {i \in DOMAIN longer : longer[i].order_id = o}
             n == Len(messages) + 1
  <1>1. IsFiniteSet(N) /\ n \notin N
    <2>1. IsFiniteSet(1 .. Len(messages))
      BY FS_Interval
    <2>2. N \subseteq 1 .. Len(messages)
      OBVIOUS
    <2> QED
      BY <2>1, <2>2, FS_Subset
  <1>2. /\ DOMAIN longer = DOMAIN messages \union {n}
        /\ longer[n] = e
        /\ \A i \in DOMAIN messages : longer[i] = messages[i]
    OBVIOUS
  <1>3. L = N \union (IF e.order_id = o THEN {n} ELSE {})
    <2> HIDE DEF longer, n
    <2> QED
      BY <1>2
  <1>4. Cardinality(N) \in Nat
    <2> HIDE DEF N
    <2> QED
      BY <1>1, FS_CardinalityType
  <1>5. Cardinality(N \union {n}) = Cardinality(N) + 1
    <2> HIDE DEF N, n
    <2> QED
      BY <1>1, FS_AddElement
  <1>6. Cardinality(L) = Cardinality(N) + (IF e.order_id = o THEN 1 ELSE 0)
    <2>1. CASE e.order_id = o
      <3>1. L = N \union {n}
        BY <1>3, <2>1
      <3> HIDE DEF N, n, L
      <3> QED
        BY <1>5, <2>1, <3>1
    <2>2. CASE e.order_id # o
      <3>1. L = N
        BY <1>3, <2>2
      <3> HIDE DEF N, n, L
      <3> QED
        BY <1>4, <2>2, <3>1
    <2> QED
      BY <2>1, <2>2
  <1>7. Count(longer, o) = Cardinality(L) /\ Count(messages, o) = Cardinality(N)
    BY DEF Count
  <1> HIDE DEF L, N
  <1> QED
    BY <1>6, <1>7

LEMMA PrefixFacts ==
    ASSUME NEW messages \in Seq(Event), NEW n \in 0 .. Len(messages)
    PROVE  /\ SubSeq(messages, 1, n) \in Seq(Event)
           /\ Len(SubSeq(messages, 1, n)) = n
           /\ n < Len(messages)
                => SubSeq(messages, 1, n + 1) = Append(SubSeq(messages, 1, n), messages[n + 1])
           /\ SubSeq(messages, 1, Len(messages)) = messages
           /\ \A e \in Event : SubSeq(Append(messages, e), 1, n) = SubSeq(messages, 1, n)
  OBVIOUS

-----------------------------------------------------------------------------
(* The members of the consumer group: types.                               *)

LEMMA GroupInitType == GroupInit => GroupTypeOK
  <1> SUFFICES ASSUME GroupInit
               PROVE  GroupTypeOK
    OBVIOUS
  <1> USE GroupAssumption DEF GroupInit
  <1>1. << >> \in Seq(Event)
    OBVIOUS
  <1>2. NoPosition \in [Partition -> Nat \union {Unset}] /\ NoRow \in [Key -> Nat]
    BY DEF NoPosition, NoRow
  <1>3. topic \in [Partition -> Seq(Event)] /\ pending \in [Member -> Seq(Event)]
    BY <1>1
  <1>4. faults \in [evict : 0 .. MaxEvict, crash : 0 .. MaxKill]
    OBVIOUS
  <1> QED
    BY <1>2, <1>3, <1>4 DEF GroupTypeOK

LEMMA AppliedType ==
    ASSUME GroupTypeOK, NEW m \in Member, NEW o \in Key
    PROVE  /\ Applied(live[o], pending[m], o) \in Nat
           /\ live[o] \in Nat /\ pending[m] \in Seq(Event)
           /\ live[o] <= Applied(live[o], pending[m], o)
  <1>1. live[o] \in Nat /\ pending[m] \in Seq(Event)
    BY DEF GroupTypeOK
  <1> QED
    BY <1>1, AppliedMovesOn

LEMMA ClosedType ==
    ASSUME GroupTypeOK, NEW m \in Member, Closed(m)
    PROVE  /\ read' \in [Member -> [Partition -> Nat \union {Unset}]]
           /\ stored' \in [Member -> BOOLEAN]
           /\ metGap' \in [Member -> BOOLEAN]
           /\ doing' \in [Member -> {"stopped", "polling", "folded", "written"}]
           /\ pending' \in [Member -> Seq(Event)]
           /\ fold' \in [Member -> [Key -> Nat]]
  <1>1. << >> \in Seq(Event)
    OBVIOUS
  <1>2. NoPosition \in [Partition -> Nat \union {Unset}] /\ NoRow \in [Key -> Nat]
    BY DEF NoPosition, NoRow
  <1> HIDE DEF NoPosition, NoRow
  <1> QED
    BY <1>1, <1>2 DEF GroupTypeOK, Closed

LEMMA DroppedType ==
    ASSUME GroupTypeOK, NEW m \in Member, Dropped(m)
    PROVE  /\ offsets' \in [Partition -> Nat \union {Unset}]
           /\ group' \subseteq Member
           /\ owner' \in [Partition -> Member \union {Nobody}]
           /\ balanced' \in BOOLEAN
  BY DEF GroupTypeOK, Dropped

LEMMA GroupTypeStep ==
    ASSUME GroupTypeOK, [GroupNext]_groupVars
    PROVE  GroupTypeOK'
  <1> USE GroupAssumption
  <1>0. NoPosition \in [Partition -> Nat \union {Unset}] /\ NoRow \in [Key -> Nat]
    BY DEF NoPosition, NoRow
  <1>1. CASE UNCHANGED groupVars
    BY <1>1 DEF GroupTypeOK, groupVars, log, coordinator, memory
  <1>2. ASSUME NEW o \in Key, Produce(o)
        PROVE  GroupTypeOK'
    <2> DEFINE q == PartitionOf[o]
               n == Count(topic[q], o) + 1
    <2>1. q \in Partition /\ topic[q] \in Seq(Event)
      BY DEF GroupTypeOK
    <2>2. n \in Nat
      BY <2>1, CountIsANumber
    <2>3. topic' = [topic EXCEPT ![q] = Append(@, [order_id |-> o, sequence_no |-> n])]
      BY <1>2 DEF Produce
    <2>4. [order_id |-> o, sequence_no |-> n] \in Event
      BY <2>2 DEF Event
    <2>5. topic' \in [Partition -> Seq(Event)]
      <3>1. Append(topic[q], [order_id |-> o, sequence_no |-> n]) \in Seq(Event)
        BY <2>1, <2>4
      <3> QED
        BY <2>1, <2>3, <3>1 DEF GroupTypeOK
    <2> QED
      BY <1>2, <2>5 DEF Produce, GroupTypeOK, coordinator, memory
  <1>3. CASE Rebalance
    <2>1. \A p \in Partition : StartAt(p) \in Nat \union {Unset}
      <3> TAKE p \in Partition
      <3>1. topic[p] \in Seq(Event) /\ offsets[p] \in Nat \union {Unset}
        BY DEF GroupTypeOK
      <3>2. Len(topic[p]) \in Nat
        BY <3>1
      <3> QED
        BY <3>1, <3>2 DEF StartAt
    <2>2. read' \in [Member -> [Partition -> Nat \union {Unset}]]
      BY <1>3, <2>1 DEF Rebalance, GroupTypeOK
    <2>3. stored' \in [Member -> BOOLEAN]
      BY <1>3 DEF Rebalance, GroupTypeOK
    <2>4. owner' \in [Partition -> Member \union {Nobody}]
      BY <1>3 DEF Rebalance, GroupTypeOK
    <2> QED
      BY <1>3, <2>2, <2>3, <2>4 DEF Rebalance, GroupTypeOK, log
  <1>4. ASSUME NEW m \in Member, Join(m)
        PROVE  GroupTypeOK'
    BY <1>4 DEF Join, GroupTypeOK, log
  <1>5. ASSUME NEW m \in Member, Rejoin(m)
        PROVE  GroupTypeOK'
    BY <1>0, <1>5 DEF Rejoin, GroupTypeOK, log
  <1>6. ASSUME NEW m \in Member, Poll(m)
        PROVE  GroupTypeOK'
    <2>1. PICK p \in Partition :
             /\ read[m][p] \in 0 .. Len(topic[p]) - 1
             /\ pending' = [pending EXCEPT ![m] = Append(@, topic[p][read[m][p] + 1])]
             /\ read' = [read EXCEPT ![m][p] = @ + 1]
      BY <1>6 DEF Poll
    <2>2. topic[p] \in Seq(Event) /\ pending[m] \in Seq(Event)
      BY DEF GroupTypeOK
    <2>3. topic[p][read[m][p] + 1] \in Event
      BY <2>1, <2>2
    <2>4. Append(pending[m], topic[p][read[m][p] + 1]) \in Seq(Event)
      BY <2>2, <2>3
    <2>5. pending' \in [Member -> Seq(Event)]
      BY <2>1, <2>4 DEF GroupTypeOK
    <2>6. read' \in [Member -> [Partition -> Nat \union {Unset}]]
      <3>1. read[m][p] + 1 \in Nat
        BY <2>1
      <3> QED
        BY <2>1, <3>1 DEF GroupTypeOK
    <2> QED
      BY <1>6, <2>5, <2>6 DEF Poll, GroupTypeOK, log, coordinator
  <1>7. ASSUME NEW m \in Member, BeginFlush(m)
        PROVE  GroupTypeOK'
    <2>1. \A o \in Key : Applied(live[o], pending[m], o) \in Nat
      BY AppliedType
    <2>2. fold' \in [Member -> [Key -> Nat]]
      BY <1>7, <2>1 DEF BeginFlush, GroupTypeOK
    <2>3. FindsGap(live, pending[m]) \in BOOLEAN
      BY DEF FindsGap
    <2>4. metGap' \in [Member -> BOOLEAN]
      BY <1>7, <2>3 DEF BeginFlush, GroupTypeOK
    <2> QED
      BY <1>7, <2>2, <2>4 DEF BeginFlush, GroupTypeOK, log, coordinator
  <1>8. ASSUME NEW m \in Member, Write(m)
        PROVE  GroupTypeOK'
    <2>1. live' \in [Key -> Nat]
      BY <1>8 DEF Write, GroupTypeOK
    <2> QED
      BY <1>0, <1>8, <2>1 DEF Write, GroupTypeOK, coordinator
  <1>9. ASSUME NEW m \in Member, CommitOffsets(m)
        PROVE  GroupTypeOK'
    <2>1. CASE ~(m \in group /\ stored[m])
      <3>1. Dropped(m) /\ Closed(m) /\ UNCHANGED << log, faults >>
        BY <1>9, <2>1 DEF CommitOffsets
      <3> QED
        BY <3>1, DroppedType, ClosedType DEF GroupTypeOK, log
    <2>2. CASE m \in group /\ stored[m]
      <3>1. offsets' = [p \in Partition |-> IF owner[p] = m THEN read[m][p] ELSE offsets[p]]
        BY <1>9, <2>2 DEF CommitOffsets
      <3>2. offsets' \in [Partition -> Nat \union {Unset}]
        BY <3>1 DEF GroupTypeOK
      <3>3. CASE metGap[m] /\ ~AllowGaps
        <4>1. /\ Closed(m) /\ UNCHANGED << log, faults >>
              /\ group' = group \ {m}
              /\ owner' = [p \in Partition |-> IF owner[p] = m THEN Nobody ELSE owner[p]]
              /\ balanced' = FALSE
          BY <1>9, <2>2, <3>3 DEF CommitOffsets
        <4> QED
          BY <3>2, <4>1, ClosedType DEF GroupTypeOK, log
      <3>4. CASE ~(metGap[m] /\ ~AllowGaps)
        <4>1. /\ doing' = [doing EXCEPT ![m] = "polling"]
              /\ pending' = [pending EXCEPT ![m] = << >>]
              /\ metGap' = [metGap EXCEPT ![m] = FALSE]
              /\ UNCHANGED << group, owner, balanced, read, stored, fold, log, faults >>
          BY <1>9, <2>2, <3>4 DEF CommitOffsets
        <4>2. << >> \in Seq(Event)
          OBVIOUS
        <4> QED
          BY <3>2, <4>1, <4>2 DEF GroupTypeOK, log
      <3> QED
        BY <3>3, <3>4
    <2> QED
      BY <2>1, <2>2
  <1>10. ASSUME NEW m \in Member, EndsIdle(m)
         PROVE  GroupTypeOK'
    BY <1>10, DroppedType, ClosedType DEF EndsIdle, GroupTypeOK, log
  <1>11. ASSUME NEW m \in Member, Evict(m)
         PROVE  GroupTypeOK'
    <2>1. faults' \in [evict : 0 .. MaxEvict, crash : 0 .. MaxKill]
      <3>1. faults \in [evict : 0 .. MaxEvict, crash : 0 .. MaxKill] /\ MaxEvict \in Nat
        BY DEF GroupTypeOK
      <3>2. faults.evict < MaxEvict /\ faults' = [faults EXCEPT !.evict = @ + 1]
        BY <1>11 DEF Evict
      <3>3. faults.evict + 1 \in 0 .. MaxEvict
        BY <3>1, <3>2
      <3> QED
        BY <3>1, <3>2, <3>3
    <2> QED
      BY <1>11, <2>1, DroppedType DEF Evict, GroupTypeOK, log, memory
  <1>12. ASSUME NEW m \in Member, Kill(m)
         PROVE  GroupTypeOK'
    <2>1. faults' \in [evict : 0 .. MaxEvict, crash : 0 .. MaxKill]
      <3>1. faults \in [evict : 0 .. MaxEvict, crash : 0 .. MaxKill] /\ MaxKill \in Nat
        BY DEF GroupTypeOK
      <3>2. faults.crash < MaxKill /\ faults' = [faults EXCEPT !.crash = @ + 1]
        BY <1>12 DEF Kill
      <3>3. faults.crash + 1 \in 0 .. MaxKill
        BY <3>1, <3>2
      <3> QED
        BY <3>1, <3>2, <3>3
    <2> QED
      BY <1>12, <2>1, DroppedType, ClosedType DEF Kill, GroupTypeOK, log
  <1> QED
    BY <1>1, <1>2, <1>3, <1>4, <1>5, <1>6, <1>7, <1>8, <1>9, <1>10, <1>11, <1>12
    DEF GroupNext, Work

-----------------------------------------------------------------------------
(* The members of the consumer group: the inductive invariant.             *)

ReadUpTo(p, n, o) == Count(SubSeq(topic[p], 1, n), o)

\* An event is numbered by its place among those of its order.
NumberedInOrder ==
    \A p \in Partition : \A i \in 1 .. Len(topic[p]) :
        topic[p][i].sequence_no = ReadUpTo(p, i, topic[p][i].order_id)

OffsetsAreInTheLog ==
    \A p \in Partition : offsets[p] # Unset => offsets[p] <= Len(topic[p])

\* A partition is of a member the coordinator counts on, at a message it has
\* or at the end.
OwnersAreAlive ==
    \A p \in Partition : owner[p] # Nobody =>
        /\ owner[p] \in group
        /\ read[owner[p]][p] \in 0 .. Len(topic[p])

StoppedIsOut ==
    \A m \in Member : doing[m] = "stopped" => m \notin group /\ pending[m] = << >>

Larger(a, b) == IF a > b THEN a ELSE b

\* The row an order gets of a member when its flush ends.
InHand(m, o) ==
    IF doing[m] = "polling" THEN Applied(live[o], pending[m], o)
    ELSE IF doing[m] = "folded" THEN Larger(live[o], fold[m][o])
    ELSE live[o]

\* What the owner of a partition has read of it is in the read model or will
\* be with its next flush.
ReadIsHeld ==
    \A p \in Partition, o \in Key : owner[p] # Nobody =>
        ReadUpTo(p, read[owner[p]][p], o) <= InHand(owner[p], o)

\* A batch follows on the rows, whoever wrote them since it was polled.
PendingFollows ==
    \A m \in Member : doing[m] = "polling" =>
        \A i \in DOMAIN pending[m] :
            pending[m][i].sequence_no
              <= Applied(live[pending[m][i].order_id], SubSeq(pending[m], 1, i),
                         pending[m][i].order_id)

GroupInvariant ==
    /\ GroupIsSound
    /\ NumberedInOrder
    /\ OffsetsAreInTheLog
    /\ OwnersAreAlive
    /\ StoppedIsOut
    /\ ReadIsHeld
    /\ PendingFollows

LEMMA GroupInitInvariant == GroupInit => GroupInvariant
  <1> SUFFICES ASSUME GroupInit
               PROVE  GroupInvariant
    OBVIOUS
  <1> USE DEF GroupInit
  <1>1. GroupTypeOK
    BY GroupInitType
  <1>2. OffsetsAreWritten /\ OffsetsAreInTheLog
    BY DEF OffsetsAreWritten, OffsetsAreInTheLog, NoPosition, Unset
  <1>3. NobodyMeetsAGap
    BY DEF NobodyMeetsAGap
  <1>4. NumberedInOrder
    BY DEF NumberedInOrder
  <1>5. OwnersAreAlive /\ ReadIsHeld
    BY DEF OwnersAreAlive, ReadIsHeld
  <1>6. StoppedIsOut /\ PendingFollows
    BY DEF StoppedIsOut, PendingFollows
  <1> QED
    BY <1>1, <1>2, <1>3, <1>4, <1>5, <1>6 DEF GroupInvariant, GroupIsSound

-----------------------------------------------------------------------------
(* The members of the consumer group: what every step does to the log and  *)
(* to the rows.                                                            *)

\* Only a flush writes rows, and the merge takes none back.
LEMMA RowsGrow ==
    ASSUME Sink = "iceberg", GroupTypeOK, [GroupNext]_groupVars
    PROVE  \A o \in Key : live[o] \in Nat /\ live'[o] \in Nat /\ live[o] <= live'[o]
  <1>1. \A o \in Key : live[o] \in Nat
    BY DEF GroupTypeOK
  <1>2. CASE live' = live
    BY <1>1, <1>2
  <1>3. ASSUME NEW m \in Member, Write(m)
        PROVE  \A o \in Key : live'[o] \in Nat /\ live[o] <= live'[o]
    <2> TAKE o \in Key
    <2>1. live'[o] = IF Kept(m, o) THEN fold[m][o] ELSE live[o]
      BY <1>3 DEF Write
    <2>2. Kept(m, o) => fold[m][o] > live[o] /\ fold[m][o] \in Nat
      BY DEF Kept, GroupTypeOK
    <2> QED
      BY <1>1, <2>1, <2>2
  <1>4. live' = live \/ \E m \in Member : Write(m)
    BY DEF GroupNext, groupVars, log, Produce, Rebalance, Work, Join, Rejoin, Poll,
           BeginFlush, CommitOffsets, EndsIdle, Evict, Kill
  <1> QED
    BY <1>1, <1>2, <1>3, <1>4

\* The log only grows at its end.
LEMMA LogsGrow ==
    ASSUME GroupTypeOK, [GroupNext]_groupVars, NEW p \in Partition
    PROVE  /\ topic[p] \in Seq(Event) /\ topic'[p] \in Seq(Event)
           /\ Len(topic[p]) \in Nat /\ Len(topic'[p]) \in Nat
           /\ Len(topic[p]) <= Len(topic'[p])
           /\ \A n \in 0 .. Len(topic[p]) : SubSeq(topic'[p], 1, n) = SubSeq(topic[p], 1, n)
  <1> USE GroupAssumption
  <1>1. topic[p] \in Seq(Event) /\ Len(topic[p]) \in Nat
    BY DEF GroupTypeOK
  <1>2. CASE topic' = topic
    BY <1>1, <1>2
  <1>3. ASSUME NEW o \in Key, Produce(o)
        PROVE  topic'[p] = topic[p] \/ \E e \in Event : topic'[p] = Append(topic[p], e)
    <2> DEFINE q == PartitionOf[o]
               e == [order_id |-> o, sequence_no |-> Count(topic[q], o) + 1]
    <2>1. q \in Partition /\ topic[q] \in Seq(Event)
      BY DEF GroupTypeOK
    <2>2. e \in Event
      <3>1. Count(topic[q], o) \in Nat
        BY <2>1, CountIsANumber
      <3> QED
        BY <3>1 DEF Event
    <2>3. topic' = [topic EXCEPT ![q] = Append(@, e)]
      BY <1>3 DEF Produce
    <2> HIDE DEF e
    <2> QED
      BY <2>1, <2>2, <2>3 DEF GroupTypeOK
  <1>4. ASSUME NEW e \in Event, topic'[p] = Append(topic[p], e)
        PROVE  /\ topic'[p] \in Seq(Event)
               /\ Len(topic'[p]) \in Nat
               /\ Len(topic[p]) <= Len(topic'[p])
               /\ \A n \in 0 .. Len(topic[p]) : SubSeq(topic'[p], 1, n) = SubSeq(topic[p], 1, n)
    <2>1. \A n \in 0 .. Len(topic[p]) : SubSeq(Append(topic[p], e), 1, n) = SubSeq(topic[p], 1, n)
      BY <1>1, PrefixFacts
    <2>2. topic'[p] \in Seq(Event) /\ Len(topic'[p]) = Len(topic[p]) + 1
      BY <1>1, <1>4
    <2> QED
      BY <1>1, <1>4, <2>1, <2>2
  <1>5. topic' = topic \/ \E o \in Key : Produce(o)
    BY DEF GroupNext, groupVars, log, Rebalance, Work, Join, Rejoin, Poll, BeginFlush, Write,
           CommitOffsets, EndsIdle, Evict, Kill
  <1> QED
    BY <1>1, <1>2, <1>3, <1>4, <1>5

LEMMA NumberedStep ==
    ASSUME GroupTypeOK, NumberedInOrder, [GroupNext]_groupVars
    PROVE  NumberedInOrder'
  <1> USE GroupAssumption
  <1> SUFFICES ASSUME NEW p \in Partition, NEW i \in 1 .. Len(topic'[p])
               PROVE  topic'[p][i].sequence_no
                        = Count(SubSeq(topic'[p], 1, i), topic'[p][i].order_id)
    BY DEF NumberedInOrder, ReadUpTo
  <1>1. /\ topic[p] \in Seq(Event) /\ topic'[p] \in Seq(Event)
        /\ Len(topic[p]) \in Nat /\ Len(topic'[p]) \in Nat
        /\ \A n \in 0 .. Len(topic[p]) : SubSeq(topic'[p], 1, n) = SubSeq(topic[p], 1, n)
    BY LogsGrow
  <1>2. \A n \in 1 .. Len(topic[p]) :
            topic[p][n].sequence_no = Count(SubSeq(topic[p], 1, n), topic[p][n].order_id)
    BY DEF NumberedInOrder, ReadUpTo
  <1>3. CASE topic'[p] = topic[p]
    BY <1>2, <1>3
  <1>4. ASSUME NEW o \in Key, Produce(o), topic'[p] # topic[p]
        PROVE  topic'[p][i].sequence_no
                 = Count(SubSeq(topic'[p], 1, i), topic'[p][i].order_id)
    <2> DEFINE e == [order_id |-> o, sequence_no |-> Count(topic[p], o) + 1]
    <2>1. topic'[p] = Append(topic[p], e)
      BY <1>4 DEF Produce, GroupTypeOK
    <2>2. Count(topic[p], o) \in Nat
      BY <1>1, CountIsANumber
    <2>3. e \in Event /\ e.order_id = o /\ e.sequence_no = Count(topic[p], o) + 1
      BY <2>2 DEF Event
    <2>4. CASE i \in 1 .. Len(topic[p])
      <3>1. topic'[p][i] = topic[p][i] /\ i \in 0 .. Len(topic[p])
        <4> HIDE DEF e
        <4> QED
          BY <1>1, <2>1, <2>3, <2>4
      <3> QED
        BY <1>1, <1>2, <2>4, <3>1
    <2>5. CASE i \notin 1 .. Len(topic[p])
      <3>1. i = Len(topic'[p]) /\ topic'[p][i] = e
        <4> HIDE DEF e
        <4> QED
          BY <1>1, <2>1, <2>3, <2>5
      <3>2. SubSeq(topic'[p], 1, i) = topic'[p]
        BY <1>1, <3>1
      <3>3. Count(Append(topic[p], e), o)
              = Count(topic[p], o) + (IF e.order_id = o THEN 1 ELSE 0)
        <4> HIDE DEF e
        <4> QED
          BY <1>1, <2>3, CountOfOneMore
      <3> HIDE DEF e
      <3> QED
        BY <2>1, <2>3, <3>1, <3>2, <3>3
    <2> QED
      BY <2>4, <2>5
  <1>5. topic' = topic \/ \E o \in Key : Produce(o)
    BY DEF GroupNext, groupVars, log, Rebalance, Work, Join, Rejoin, Poll, BeginFlush, Write,
           CommitOffsets, EndsIdle, Evict, Kill
  <1> QED
    BY <1>3, <1>4, <1>5

-----------------------------------------------------------------------------
(* The members of the consumer group: who owns what, step by step.         *)

Idles(m) ==
    /\ read'[m] = read[m]
    /\ doing'[m] = doing[m]
    /\ pending'[m] = pending[m]
    /\ fold'[m] = fold[m]

\* CommitOffsets by a member that goes on.
GoesOn(m) ==
    /\ doing[m] = "written"
    /\ read'[m] = read[m]
    /\ doing'[m] = "polling"
    /\ pending'[m] = << >>

LEMMA ClosedElsewhere ==
    ASSUME GroupTypeOK, NEW m \in Member, NEW k \in Member, k # m, Closed(m)
    PROVE  Idles(k)
  BY DEF GroupTypeOK, Closed, Idles

\* A partition stays with its owner, who does its own work or nothing, until
\* the coordinator assigns the partitions anew.
LEMMA OwnerMoves ==
    ASSUME GroupTypeOK, OwnersAreAlive, StoppedIsOut, [GroupNext]_groupVars, ~Rebalance,
           NEW p \in Partition, owner'[p] # Nobody
    PROVE  /\ owner[p] = owner'[p] /\ owner[p] \in Member
           /\ owner[p] \in group /\ owner[p] \in group'
           /\ \/ Idles(owner[p]) \/ GoesOn(owner[p])
              \/ Poll(owner[p]) \/ BeginFlush(owner[p]) \/ Write(owner[p])
  <1> DEFINE k == owner[p]
             Goal == /\ owner'[p] = k /\ k \in group'
                     /\ \/ Idles(k) \/ GoesOn(k) \/ Poll(k) \/ BeginFlush(k) \/ Write(k)
  <1> USE GroupAssumption
  <1>0. /\ k \in Member \union {Nobody}
        /\ k # Nobody => k \in Member /\ k \in group /\ doing[k] # "stopped"
    BY DEF GroupTypeOK, OwnersAreAlive, StoppedIsOut
  <1> SUFFICES Goal
    BY <1>0
  <1>1. CASE UNCHANGED groupVars
    BY <1>0, <1>1 DEF groupVars, coordinator, memory, Idles
  <1>2. ASSUME NEW o \in Key, Produce(o)
        PROVE  Goal
    BY <1>0, <1>2 DEF Produce, coordinator, memory, Idles
  <1>3. ASSUME NEW m \in Member, Join(m)
        PROVE  Goal
    BY <1>0, <1>3 DEF Join, Idles, GroupTypeOK
  <1>4. ASSUME NEW m \in Member, Rejoin(m)
        PROVE  Goal
    BY <1>0, <1>4 DEF Rejoin, Idles, GroupTypeOK
  <1>5. ASSUME NEW m \in Member, Poll(m)
        PROVE  Goal
    <2>1. owner' = owner /\ group' = group
      BY <1>5 DEF Poll, coordinator
    <2>2. m # k => Idles(k)
      BY <1>0, <1>5, <2>1 DEF Poll, Idles, GroupTypeOK
    <2> QED
      BY <1>0, <1>5, <2>1, <2>2
  <1>6. ASSUME NEW m \in Member, BeginFlush(m)
        PROVE  Goal
    <2>1. owner' = owner /\ group' = group
      BY <1>6 DEF BeginFlush, coordinator
    <2>2. m # k => Idles(k)
      BY <1>0, <1>6, <2>1 DEF BeginFlush, Idles, GroupTypeOK
    <2> QED
      BY <1>0, <1>6, <2>1, <2>2
  <1>7. ASSUME NEW m \in Member, Write(m)
        PROVE  Goal
    <2>1. owner' = owner /\ group' = group
      BY <1>7 DEF Write, coordinator
    <2>2. m # k => Idles(k)
      BY <1>0, <1>7, <2>1 DEF Write, Idles, GroupTypeOK
    <2> QED
      BY <1>0, <1>7, <2>1, <2>2
  <1>8. ASSUME NEW m \in Member, Dropped(m), Closed(m)
        PROVE  Goal
    <2>1. owner'[p] = IF k = m THEN Nobody ELSE k
      BY <1>8 DEF Dropped
    <2>2. k # m /\ owner'[p] = k /\ k \in Member
      BY <1>0, <2>1
    <2>3. k \in group'
      BY <1>0, <1>8, <2>2 DEF Dropped
    <2>4. Idles(k)
      BY <1>8, <2>2, ClosedElsewhere
    <2> QED
      BY <2>2, <2>3, <2>4
  <1>9. ASSUME NEW m \in Member, CommitOffsets(m)
        PROVE  Goal
    <2>1. CASE ~(m \in group /\ stored[m])
      BY <1>8, <1>9, <2>1 DEF CommitOffsets
    <2>2. CASE m \in group /\ stored[m] /\ metGap[m] /\ ~AllowGaps
      <3>1. /\ Closed(m) /\ group' = group \ {m}
            /\ owner' = [q \in Partition |-> IF owner[q] = m THEN Nobody ELSE owner[q]]
        BY <1>9, <2>2 DEF CommitOffsets
      <3>2. k # m /\ owner'[p] = k /\ k \in Member
        BY <1>0, <3>1
      <3>3. Idles(k)
        BY <3>1, <3>2, ClosedElsewhere
      <3> QED
        BY <1>0, <3>1, <3>2, <3>3
    <2>3. CASE m \in group /\ stored[m] /\ ~(metGap[m] /\ ~AllowGaps)
      <3>1. /\ doing[m] = "written"
            /\ doing' = [doing EXCEPT ![m] = "polling"]
            /\ pending' = [pending EXCEPT ![m] = << >>]
            /\ UNCHANGED << group, owner, balanced, read, stored, fold >>
        BY <1>9, <2>3 DEF CommitOffsets
      <3>2. k = m => GoesOn(k)
        BY <1>0, <3>1 DEF GoesOn, GroupTypeOK
      <3>3. k # m => Idles(k)
        BY <1>0, <3>1 DEF Idles, GroupTypeOK
      <3> QED
        BY <1>0, <3>1, <3>2, <3>3
    <2> QED
      BY <2>1, <2>2, <2>3
  <1>10. ASSUME NEW m \in Member, EndsIdle(m)
         PROVE  Goal
    BY <1>8, <1>10 DEF EndsIdle
  <1>11. ASSUME NEW m \in Member, Kill(m)
         PROVE  Goal
    BY <1>8, <1>11 DEF Kill
  <1>12. ASSUME NEW m \in Member, Evict(m)
         PROVE  Goal
    <2>1. owner'[p] = IF k = m THEN Nobody ELSE k
      BY <1>12 DEF Evict, Dropped
    <2>2. k # m /\ owner'[p] = k
      BY <2>1
    <2>3. Idles(k) /\ k \in group'
      BY <1>0, <1>12, <2>2 DEF Evict, Dropped, memory, Idles
    <2> QED
      BY <2>2, <2>3
  <1> HIDE DEF Goal, k
  <1> QED
    BY <1>1, <1>2, <1>3, <1>4, <1>5, <1>6, <1>7, <1>9, <1>10, <1>11, <1>12
    DEF GroupNext, Work

LEMMA OwnersStep ==
    ASSUME GroupTypeOK, OwnersAreAlive, StoppedIsOut, OffsetsAreInTheLog,
           FromBeginning, [GroupNext]_groupVars
    PROVE  OwnersAreAlive'
  <1> SUFFICES ASSUME NEW p \in Partition, owner'[p] # Nobody
               PROVE  owner'[p] \in group' /\ read'[owner'[p]][p] \in 0 .. Len(topic'[p])
    BY DEF OwnersAreAlive
  <1>1. CASE Rebalance
    <2>1. /\ owner' \in [Partition -> group] /\ group' = group /\ topic' = topic
          /\ read' = [m \in Member |->
                IF m \in group
                THEN [q \in Partition |-> IF owner'[q] = m THEN StartAt(q) ELSE Unset]
                ELSE read[m]]
      BY <1>1 DEF Rebalance, log
    <2>2. owner'[p] \in group /\ group \subseteq Member
      BY <2>1 DEF GroupTypeOK
    <2>3. read'[owner'[p]][p] = StartAt(p)
      BY <2>1, <2>2
    <2>4. StartAt(p) \in 0 .. Len(topic[p])
      <3>1. offsets[p] \in Nat \union {Unset} /\ topic[p] \in Seq(Event)
        BY DEF GroupTypeOK
      <3>2. offsets[p] # Unset => offsets[p] <= Len(topic[p])
        BY DEF OffsetsAreInTheLog
      <3>3. Len(topic[p]) \in Nat
        BY <3>1
      <3> QED
        BY <3>1, <3>2, <3>3 DEF StartAt
    <2> QED
      BY <2>1, <2>2, <2>3, <2>4
  <1>2. CASE ~Rebalance
    <2> DEFINE k == owner[p]
    <2>1. /\ owner'[p] = k /\ k \in Member /\ k \in group'
          /\ \/ Idles(k) \/ GoesOn(k) \/ Poll(k) \/ BeginFlush(k) \/ Write(k)
      BY <1>2, OwnerMoves
    <2>2. read[k][p] \in 0 .. Len(topic[p])
      BY <2>1 DEF OwnersAreAlive
    <2>3. Len(topic[p]) \in Nat /\ Len(topic'[p]) \in Nat /\ Len(topic[p]) <= Len(topic'[p])
      BY LogsGrow
    <2>4. CASE Idles(k) \/ GoesOn(k) \/ BeginFlush(k) \/ Write(k)
      <3>1. read'[k] = read[k]
        BY <2>4 DEF Idles, GoesOn, BeginFlush, Write
      <3> QED
        BY <2>1, <2>2, <2>3, <3>1
    <2>5. CASE Poll(k)
      <3>1. PICK q \in Partition :
                 /\ read[k][q] \in 0 .. Len(topic[q]) - 1
                 /\ read' = [read EXCEPT ![k][q] = @ + 1]
        BY <2>5 DEF Poll
      <3>2. topic' = topic
        BY <2>5 DEF Poll, log
      <3>3. read'[k][p] = IF p = q THEN read[k][p] + 1 ELSE read[k][p]
        BY <2>1, <3>1 DEF GroupTypeOK
      <3> QED
        BY <2>1, <2>2, <2>3, <3>1, <3>2, <3>3
    <2> QED
      BY <2>1, <2>4, <2>5
  <1> QED
    BY <1>1, <1>2

LEMMA StoppedStep ==
    ASSUME GroupTypeOK, StoppedIsOut, [GroupNext]_groupVars
    PROVE  StoppedIsOut'
  <1> SUFFICES ASSUME NEW k \in Member, doing'[k] = "stopped"
               PROVE  k \notin group' /\ pending'[k] = << >>
    BY DEF StoppedIsOut
  <1> USE DEF StoppedIsOut
  <1> DEFINE Goal == k \notin group' /\ pending'[k] = << >>
  <1>1. CASE UNCHANGED groupVars
    BY <1>1 DEF groupVars, coordinator, memory
  <1>2. ASSUME NEW o \in Key, Produce(o)
        PROVE  Goal
    BY <1>2 DEF Produce, coordinator, memory
  <1>3. ASSUME Rebalance
        PROVE  Goal
    BY <1>3 DEF Rebalance
  <1>4. ASSUME NEW m \in Member, Join(m) \/ Rejoin(m) \/ Poll(m) \/ BeginFlush(m) \/ Write(m)
        PROVE  Goal
    BY <1>4 DEF Join, Rejoin, Poll, BeginFlush, Write, coordinator, GroupTypeOK
  <1>5. ASSUME NEW m \in Member, Dropped(m), Closed(m)
        PROVE  Goal
    BY <1>5 DEF Dropped, Closed, GroupTypeOK
  <1>6. ASSUME NEW m \in Member, CommitOffsets(m)
        PROVE  Goal
    <2>1. CASE ~(m \in group /\ stored[m])
      BY <1>5, <1>6, <2>1 DEF CommitOffsets
    <2>2. CASE m \in group /\ stored[m]
      BY <1>6, <2>2 DEF CommitOffsets, Closed, GroupTypeOK
    <2> QED
      BY <2>1, <2>2
  <1>7. ASSUME NEW m \in Member, EndsIdle(m) \/ Kill(m)
        PROVE  Goal
    BY <1>5, <1>7 DEF EndsIdle, Kill
  <1>8. ASSUME NEW m \in Member, Evict(m)
        PROVE  Goal
    BY <1>8 DEF Evict, Dropped, memory
  <1> HIDE DEF Goal
  <1>9. Goal
    BY <1>1, <1>2, <1>3, <1>4, <1>6, <1>7, <1>8 DEF GroupNext, Work, Goal
  <1> QED
    BY <1>9 DEF Goal

-----------------------------------------------------------------------------
(* The members of the consumer group: no offset passes what is not held.   *)

LEMMA CommitsAreOfOwners ==
    ASSUME GroupTypeOK, [GroupNext]_groupVars, NEW p \in Partition, offsets'[p] # offsets[p]
    PROVE  /\ owner[p] \in Member /\ doing[owner[p]] = "written"
           /\ offsets'[p] = read[owner[p]][p]
           /\ topic' = topic /\ live' = live
  <1>1. PICK m \in Member : CommitOffsets(m)
    BY DEF GroupNext, groupVars, coordinator, Produce, Rebalance, Work, Join, Rejoin, Poll,
           BeginFlush, Write, EndsIdle, Evict, Kill, Dropped
  <1>2. m \in group /\ stored[m]
    BY <1>1 DEF CommitOffsets, Dropped
  <1>3. offsets' = [q \in Partition |-> IF owner[q] = m THEN read[m][q] ELSE offsets[q]]
    BY <1>1, <1>2 DEF CommitOffsets
  <1>4. owner[p] = m
    BY <1>3
  <1> QED
    BY <1>1, <1>3, <1>4 DEF CommitOffsets, log

LEMMA OffsetsStep ==
    ASSUME GroupTypeOK, OffsetsAreInTheLog, OwnersAreAlive, [GroupNext]_groupVars
    PROVE  OffsetsAreInTheLog'
  <1> SUFFICES ASSUME NEW p \in Partition, offsets'[p] # Unset
               PROVE  offsets'[p] <= Len(topic'[p])
    BY DEF OffsetsAreInTheLog
  <1> USE GroupAssumption
  <1>1. Len(topic[p]) \in Nat /\ Len(topic'[p]) \in Nat /\ Len(topic[p]) <= Len(topic'[p])
    BY LogsGrow
  <1>2. CASE offsets'[p] = offsets[p]
    <2>1. offsets[p] \in Nat /\ offsets[p] <= Len(topic[p])
      BY <1>2 DEF GroupTypeOK, OffsetsAreInTheLog
    <2> QED
      BY <1>1, <1>2, <2>1
  <1>3. CASE offsets'[p] # offsets[p]
    <2>1. /\ owner[p] \in Member /\ offsets'[p] = read[owner[p]][p] /\ topic' = topic
      BY <1>3, CommitsAreOfOwners
    <2>2. owner[p] # Nobody
      BY <2>1
    <2>3. read[owner[p]][p] \in 0 .. Len(topic[p])
      BY <2>2 DEF OwnersAreAlive
    <2> QED
      BY <1>1, <2>1, <2>3
  <1> QED
    BY <1>2, <1>3

LEMMA WrittenStep ==
    ASSUME Sink = "iceberg", GroupTypeOK, OffsetsAreWritten, OffsetsAreInTheLog, ReadIsHeld,
           [GroupNext]_groupVars
    PROVE  OffsetsAreWritten'
  <1> USE GroupAssumption
  <1> SUFFICES ASSUME NEW p \in Partition, NEW o \in Key, offsets'[p] > 0
               PROVE  Count(SubSeq(topic'[p], 1, offsets'[p]), o) <= live'[o]
    BY DEF OffsetsAreWritten
  <1>1. live[o] \in Nat /\ live'[o] \in Nat /\ live[o] <= live'[o]
    BY RowsGrow
  <1>2. CASE offsets'[p] = offsets[p]
    <2>1. offsets[p] \in Nat /\ offsets[p] \in 0 .. Len(topic[p])
      BY <1>2 DEF GroupTypeOK, OffsetsAreInTheLog, Unset
    <2>2. /\ SubSeq(topic'[p], 1, offsets[p]) = SubSeq(topic[p], 1, offsets[p])
          /\ topic[p] \in Seq(Event)
      BY <2>1, LogsGrow
    <2>3. Count(SubSeq(topic[p], 1, offsets[p]), o) <= live[o]
      BY <1>2 DEF OffsetsAreWritten
    <2>4. SubSeq(topic[p], 1, offsets[p]) \in Seq(Event)
      BY <2>1, <2>2, PrefixFacts
    <2>5. Count(SubSeq(topic[p], 1, offsets[p]), o) \in Nat
      BY <2>4, CountIsANumber
    <2>6. Count(SubSeq(topic'[p], 1, offsets'[p]), o) = Count(SubSeq(topic[p], 1, offsets[p]), o)
      BY <1>2, <2>2, Zenon
    <2> QED
      BY <1>1, <2>3, <2>5, <2>6
  <1>3. CASE offsets'[p] # offsets[p]
    <2>1. /\ owner[p] \in Member /\ doing[owner[p]] = "written"
          /\ offsets'[p] = read[owner[p]][p] /\ topic' = topic /\ live' = live
      BY <1>3, CommitsAreOfOwners
    <2>2. owner[p] # Nobody
      BY <2>1
    <2>3. ReadUpTo(p, read[owner[p]][p], o) <= InHand(owner[p], o)
      BY <2>2 DEF ReadIsHeld
    <2> QED
      BY <2>1, <2>3 DEF ReadUpTo, InHand
  <1> QED
    BY <1>2, <1>3

\* A row in hand is at least the row there is, and grows with it.
LEMMA InHandFacts ==
    ASSUME GroupTypeOK, NEW m \in Member, NEW o \in Key
    PROVE  InHand(m, o) \in Nat /\ live[o] \in Nat /\ live[o] <= InHand(m, o)
  <1>1. /\ Applied(live[o], pending[m], o) \in Nat /\ live[o] \in Nat
        /\ live[o] <= Applied(live[o], pending[m], o)
    BY AppliedType
  <1>2. fold[m][o] \in Nat
    BY DEF GroupTypeOK
  <1> QED
    BY <1>1, <1>2 DEF InHand, Larger

LEMMA IdleHandGrows ==
    ASSUME Sink = "iceberg", GroupTypeOK, [GroupNext]_groupVars,
           NEW m \in Member, NEW o \in Key, Idles(m)
    PROVE  InHand(m, o) <= InHand(m, o)'
  <1>1. live[o] \in Nat /\ live'[o] \in Nat /\ live[o] <= live'[o]
    BY RowsGrow
  <1>2. pending[m] \in Seq(Event) /\ fold[m][o] \in Nat
    BY DEF GroupTypeOK
  <1>3. Applied(live[o], pending[m], o) <= Applied(live'[o], pending[m], o)
    BY <1>1, <1>2, AppliedKeepsOrder
  <1>4. InHand(m, o)' = IF doing[m] = "polling" THEN Applied(live'[o], pending[m], o)
                        ELSE IF doing[m] = "folded" THEN Larger(live'[o], fold[m][o])
                        ELSE live'[o]
    BY DEF InHand, Idles
  <1> QED
    BY <1>1, <1>2, <1>3, <1>4 DEF InHand, Larger

LEMMA HeldStep ==
    ASSUME Sink = "iceberg", FromBeginning, GroupInvariant, [GroupNext]_groupVars
    PROVE  ReadIsHeld'
  <1> USE GroupAssumption
  <1>0. /\ GroupTypeOK /\ OffsetsAreWritten /\ NumberedInOrder /\ OffsetsAreInTheLog
        /\ OwnersAreAlive /\ StoppedIsOut /\ ReadIsHeld
    BY DEF GroupInvariant, GroupIsSound
  <1>00. GroupTypeOK'
    BY <1>0, GroupTypeStep
  <1> SUFFICES ASSUME NEW p \in Partition, NEW o \in Key, owner'[p] # Nobody
               PROVE  Count(SubSeq(topic'[p], 1, read'[owner'[p]][p]), o)
                        <= InHand(owner[p], o)'
    BY DEF ReadIsHeld, ReadUpTo
  <1>1. live[o] \in Nat /\ live'[o] \in Nat /\ live[o] <= live'[o]
    BY <1>0, RowsGrow
  <1>2. /\ topic[p] \in Seq(Event) /\ Len(topic[p]) \in Nat
        /\ \A n \in 0 .. Len(topic[p]) : SubSeq(topic'[p], 1, n) = SubSeq(topic[p], 1, n)
    BY <1>0, LogsGrow
  <1>3. ASSUME NEW n \in 0 .. Len(topic[p])
        PROVE  /\ Count(SubSeq(topic[p], 1, n), o) \in Nat
               /\ SubSeq(topic'[p], 1, n) = SubSeq(topic[p], 1, n)
    <2>1. SubSeq(topic[p], 1, n) \in Seq(Event)
      BY <1>2, PrefixFacts
    <2> QED
      BY <1>2, <2>1, CountIsANumber
  <1>4. CASE Rebalance
    <2>1. /\ owner' \in [Partition -> group] /\ UNCHANGED << topic, live, doing, pending >>
          /\ \A m \in group : doing[m] = "polling"
          /\ read' = [m \in Member |->
                IF m \in group
                THEN [q \in Partition |-> IF owner'[q] = m THEN StartAt(q) ELSE Unset]
                ELSE read[m]]
      BY <1>4 DEF Rebalance, log
    <2>2. owner'[p] \in group /\ owner'[p] \in Member
      BY <1>0, <2>1 DEF GroupTypeOK
    <2>3. read'[owner'[p]][p] = StartAt(p)
      BY <2>1, <2>2
    <2>4. InHand(owner[p], o)' \in Nat /\ live[o] <= InHand(owner[p], o)'
      <3>1. PICK k \in Member : k = owner'[p] /\ doing[k] = "polling"
        BY <2>1, <2>2
      <3>2. InHand(owner[p], o)' = Applied(live[o], pending[k], o)
        BY <2>1, <3>1 DEF InHand
      <3>3. /\ Applied(live[o], pending[k], o) \in Nat
            /\ live[o] <= Applied(live[o], pending[k], o)
        BY <1>0, AppliedType
      <3> QED
        BY <3>2, <3>3
    <2>5. /\ StartAt(p) \in 0 .. Len(topic[p])
          /\ Count(SubSeq(topic[p], 1, StartAt(p)), o) <= live[o]
      <3>1. CASE offsets[p] # Unset /\ offsets[p] # 0
        <4>1. /\ offsets[p] \in Nat /\ offsets[p] > 0 /\ StartAt(p) = offsets[p]
              /\ offsets[p] <= Len(topic[p])
          BY <1>0, <3>1 DEF GroupTypeOK, StartAt, OffsetsAreInTheLog
        <4> QED
          BY <1>0, <1>2, <4>1 DEF OffsetsAreWritten
      <3>2. CASE offsets[p] = Unset \/ offsets[p] = 0
        <4>1. StartAt(p) = 0
          BY <3>2 DEF StartAt
        <4>2. SubSeq(topic[p], 1, 0) = << >>
          BY <1>2
        <4>3. Count(SubSeq(topic[p], 1, 0), o) = 0
          BY <4>2, CountOfNone
        <4> QED
          BY <1>1, <1>2, <4>1, <4>3
      <3> QED
        BY <3>1, <3>2
    <2>6. Count(SubSeq(topic[p], 1, StartAt(p)), o) \in Nat
      BY <1>3, <2>5
    <2> QED
      BY <1>1, <2>1, <2>3, <2>4, <2>5, <2>6
  <1>5. CASE ~Rebalance
    <2>1. PICK k \in Member :
             /\ k = owner[p] /\ k = owner'[p] /\ k \in group
             /\ \/ Idles(k) \/ GoesOn(k) \/ Poll(k) \/ BeginFlush(k) \/ Write(k)
      BY <1>0, <1>5, OwnerMoves
    <2> DEFINE n == read[k][p]
               held == Count(SubSeq(topic[p], 1, n), o)
    <2>2. n \in 0 .. Len(topic[p]) /\ held <= InHand(k, o)
      BY <1>0, <2>1 DEF OwnersAreAlive, ReadIsHeld, ReadUpTo
    <2>3. held \in Nat /\ SubSeq(topic'[p], 1, n) = SubSeq(topic[p], 1, n)
      BY <1>3, <2>2
    <2>4. InHand(k, o) \in Nat
      BY <1>0, InHandFacts
    <2>5. InHand(k, o)' \in Nat
      <3>1. pending'[k] \in Seq(Event) /\ fold'[k][o] \in Nat
        BY <1>00 DEF GroupTypeOK
      <3>2. Applied(live'[o], pending'[k], o) \in Nat
        BY <1>1, <3>1, AppliedMovesOn
      <3> QED
        BY <1>1, <3>1, <3>2 DEF InHand, Larger
    <2>6. ASSUME read'[k] = read[k], InHand(k, o) <= InHand(k, o)'
          PROVE  Count(SubSeq(topic'[p], 1, read'[owner'[p]][p]), o) <= InHand(owner[p], o)'
      <3>0. Count(SubSeq(topic'[p], 1, read'[k][p]), o) = held
        BY <2>3, <2>6, Zenon
      <3>1. Count(SubSeq(topic'[p], 1, read'[k][p]), o) <= InHand(k, o)'
        <4> HIDE DEF held
        <4> QED
          BY <2>2, <2>3, <2>4, <2>5, <2>6, <3>0
      <3>2. InHand(owner[p], o)' = InHand(k, o)'
        BY <2>1 DEF InHand
      <3> QED
        BY <2>1, <3>1, <3>2
    <2>7. CASE Idles(k)
      BY <1>0, <2>6, <2>7, IdleHandGrows DEF Idles
    <2>8. CASE GoesOn(k)
      <3>1. InHand(k, o) = live[o] /\ InHand(k, o)' = Applied(live'[o], << >>, o)
        BY <2>8 DEF GoesOn, InHand
      <3>2. Applied(live'[o], << >>, o) = live'[o]
        BY <1>1, AppliedToNothing
      <3> QED
        BY <1>1, <2>6, <2>8, <3>1, <3>2 DEF GoesOn
    <2>9. CASE BeginFlush(k)
      <3>1. /\ live' = live /\ read' = read /\ doing[k] = "polling" /\ doing'[k] = "folded"
            /\ fold'[k][o] = IF Applied(live[o], pending[k], o) > live[o]
                             THEN Applied(live[o], pending[k], o) ELSE 0
        BY <1>0, <2>9 DEF BeginFlush, log, GroupTypeOK
      <3>2. /\ Applied(live[o], pending[k], o) \in Nat
            /\ live[o] <= Applied(live[o], pending[k], o)
        BY <1>0, AppliedType
      <3>3. InHand(k, o) = Applied(live[o], pending[k], o)
        BY <3>1 DEF InHand
      <3>4. InHand(k, o)' = Larger(live[o], fold'[k][o])
        BY <3>1 DEF InHand
      <3> QED
        BY <1>1, <2>6, <3>1, <3>2, <3>3, <3>4 DEF Larger
    <2>10. CASE Write(k)
      <3>1. /\ read' = read /\ doing[k] = "folded" /\ doing'[k] = "written"
            /\ live'[o] = IF Kept(k, o) THEN fold[k][o] ELSE live[o]
        BY <1>0, <2>10 DEF Write, GroupTypeOK
      <3>2. Kept(k, o) <=> fold[k][o] # 0 /\ fold[k][o] > live[o]
        BY DEF Kept
      <3>3. InHand(k, o) = Larger(live[o], fold[k][o]) /\ InHand(k, o)' = live'[o]
        BY <3>1 DEF InHand
      <3>4. fold[k][o] \in Nat
        BY <1>0 DEF GroupTypeOK
      <3> QED
        BY <1>1, <2>6, <3>1, <3>2, <3>3, <3>4 DEF Larger
    <2>11. CASE Poll(k)
      <3>1. PICK q \in Partition :
                 /\ owner[q] = k
                 /\ read[k][q] \in 0 .. Len(topic[q]) - 1
                 /\ pending' = [pending EXCEPT ![k] = Append(@, topic[q][read[k][q] + 1])]
                 /\ read' = [read EXCEPT ![k][q] = @ + 1]
        BY <2>11 DEF Poll
      <3>2. /\ doing[k] = "polling" /\ doing' = doing /\ topic' = topic /\ live' = live
        BY <2>11 DEF Poll, log
      <3> DEFINE e == topic[q][read[k][q] + 1]
      <3>3. topic[q] \in Seq(Event) /\ pending[k] \in Seq(Event)
        BY <1>0 DEF GroupTypeOK
      <3>4. e \in Event
        BY <3>1, <3>3
      <3>5. pending'[k] = Append(pending[k], e)
        BY <1>0, <3>1 DEF GroupTypeOK
      <3>6. InHand(k, o) = Applied(live[o], pending[k], o)
        BY <3>2 DEF InHand
      <3>7. InHand(k, o)' = IF e.order_id = o /\ e.sequence_no = InHand(k, o) + 1
                            THEN e.sequence_no ELSE InHand(k, o)
        <4>1. InHand(k, o)' = Applied(live[o], Append(pending[k], e), o)
          BY <3>2, <3>5 DEF InHand
        <4> HIDE DEF e
        <4>2. Applied(live[o], Append(pending[k], e), o)
                = IF e.order_id = o /\ e.sequence_no = Applied(live[o], pending[k], o) + 1
                  THEN e.sequence_no ELSE Applied(live[o], pending[k], o)
          BY <1>1, <3>3, <3>4, AppliedToOneMore
        <4> QED
          BY <3>6, <4>1, <4>2
      <3>8. InHand(k, o) <= InHand(k, o)'
        <4> HIDE DEF e
        <4> QED
          BY <2>4, <3>7
      <3>9. CASE q # p
        <4>1. read'[k][p] = read[k][p]
          BY <1>0, <3>1, <3>9 DEF GroupTypeOK
        <4>0. Count(SubSeq(topic'[p], 1, read'[k][p]), o) = held
          BY <2>3, <4>1, Zenon
        <4>2. Count(SubSeq(topic'[p], 1, read'[k][p]), o) <= InHand(k, o)'
          <5> HIDE DEF held, e
          <5> QED
            BY <2>2, <2>3, <2>4, <2>5, <3>8, <4>0
        <4>3. InHand(owner[p], o)' = InHand(k, o)'
          BY <2>1 DEF InHand
        <4> QED
          BY <2>1, <4>2, <4>3
      <3>10. CASE q = p
        <4>1. read'[k][p] = n + 1
          BY <1>0, <3>1, <3>10 DEF GroupTypeOK
        <4>2. e.sequence_no = Count(SubSeq(topic[p], 1, n + 1), e.order_id)
          <5>1. n + 1 \in 1 .. Len(topic[p])
            BY <1>2, <3>1, <3>10
          <5> QED
            BY <1>0, <3>10, <5>1 DEF NumberedInOrder, ReadUpTo
        <4>3. SubSeq(topic[p], 1, n + 1) = Append(SubSeq(topic[p], 1, n), e)
          <5>1. n < Len(topic[p])
            BY <1>2, <3>1, <3>10
          <5> QED
            BY <1>2, <2>2, <3>10, <5>1, PrefixFacts
        <4>4. SubSeq(topic[p], 1, n) \in Seq(Event)
          BY <1>2, <2>2, PrefixFacts
        <4>5. Count(Append(SubSeq(topic[p], 1, n), e), o)
                = held + (IF e.order_id = o THEN 1 ELSE 0)
          <5> HIDE DEF e, n
          <5> QED
            BY <3>4, <4>4, CountOfOneMore
        <4>8. Count(SubSeq(topic[p], 1, n + 1), o) = held + (IF e.order_id = o THEN 1 ELSE 0)
          BY <4>3, <4>5, Zenon
        <4>6. Count(SubSeq(topic[p], 1, n + 1), o) <= InHand(k, o)'
          <5>1. CASE e.order_id = o
            <6>1. e.sequence_no = held + 1
              BY <4>2, <4>3, <4>5, <5>1
            <6> HIDE DEF e, held, n
            <6> QED
              BY <2>2, <2>3, <2>4, <3>7, <4>8, <5>1, <6>1
          <5>2. CASE e.order_id # o
            <6> HIDE DEF e, held, n
            <6> QED
              BY <2>2, <2>3, <2>4, <3>7, <4>8, <5>2
          <5> QED
            BY <5>1, <5>2
        <4>7. InHand(owner[p], o)' = InHand(k, o)'
          BY <2>1 DEF InHand
        <4> QED
          BY <2>1, <3>2, <4>1, <4>6, <4>7
      <3> QED
        BY <3>9, <3>10
    <2> QED
      BY <2>1, <2>7, <2>8, <2>9, <2>10, <2>11
  <1> QED
    BY <1>4, <1>5

-----------------------------------------------------------------------------
(* The members of the consumer group: no batch meets a gap.                *)

LEMMA PendingMoves ==
    ASSUME GroupTypeOK, StoppedIsOut, [GroupNext]_groupVars,
           NEW k \in Member, doing'[k] = "polling"
    PROVE  \/ pending'[k] = << >>
           \/ doing[k] = "polling" /\ pending'[k] = pending[k]
           \/ Poll(k)
  <1> DEFINE Goal == \/ pending'[k] = << >>
                     \/ doing[k] = "polling" /\ pending'[k] = pending[k]
                     \/ Poll(k)
  <1>1. CASE UNCHANGED << doing, pending >>
    BY <1>1
  <1>2. ASSUME NEW m \in Member, Join(m)
        PROVE  Goal
    BY <1>2 DEF Join, GroupTypeOK, StoppedIsOut
  <1>3. ASSUME NEW m \in Member, Poll(m)
        PROVE  Goal
    <2>1. m # k => doing[k] = "polling" /\ pending'[k] = pending[k]
      BY <1>3 DEF Poll, GroupTypeOK
    <2> QED
      BY <1>3, <2>1
  <1>4. ASSUME NEW m \in Member, BeginFlush(m)
        PROVE  Goal
    BY <1>4 DEF BeginFlush, GroupTypeOK
  <1>5. ASSUME NEW m \in Member, Write(m)
        PROVE  Goal
    BY <1>5 DEF Write, GroupTypeOK
  <1>6. ASSUME NEW m \in Member, Closed(m)
        PROVE  Goal
    BY <1>6 DEF Closed, GroupTypeOK
  <1>7. ASSUME NEW m \in Member, CommitOffsets(m)
        PROVE  Goal
    <2>1. CASE Closed(m)
      BY <1>6, <2>1
    <2>2. CASE ~Closed(m)
      <3>1. /\ doing' = [doing EXCEPT ![m] = "polling"]
            /\ pending' = [pending EXCEPT ![m] = << >>]
        BY <1>7, <2>2 DEF CommitOffsets
      <3> QED
        BY <3>1 DEF GroupTypeOK
    <2> QED
      BY <2>1, <2>2
  <1>8. ASSUME NEW m \in Member, EndsIdle(m) \/ Kill(m)
        PROVE  Goal
    BY <1>6, <1>8 DEF EndsIdle, Kill
  <1>9. \/ UNCHANGED << doing, pending >>
        \/ \E m \in Member : \/ Join(m) \/ Poll(m) \/ BeginFlush(m) \/ Write(m)
                             \/ CommitOffsets(m) \/ EndsIdle(m) \/ Kill(m)
    BY DEF GroupNext, Work, groupVars, memory, Produce, Rebalance, Rejoin, Evict
  <1> HIDE DEF Goal
  <1>10. Goal
    BY <1>1, <1>2, <1>3, <1>4, <1>5, <1>7, <1>8, <1>9 DEF Goal
  <1> QED
    BY <1>10 DEF Goal

\* What a member polls is the next event of its order, or one it has applied.
LEMMA PolledFollows ==
    ASSUME GroupInvariant, NEW k \in Member, Poll(k)
    PROVE  \E e \in Event :
             /\ pending'[k] = Append(pending[k], e)
             /\ e.sequence_no <= Applied(live[e.order_id], Append(pending[k], e), e.order_id)
  <1> USE GroupAssumption
  <1>1. GroupTypeOK /\ NumberedInOrder /\ OwnersAreAlive /\ ReadIsHeld
    BY DEF GroupInvariant, GroupIsSound
  <1>2. PICK p \in Partition :
             /\ owner[p] = k
             /\ read[k][p] \in 0 .. Len(topic[p]) - 1
             /\ pending' = [pending EXCEPT ![k] = Append(@, topic[p][read[k][p] + 1])]
    BY DEF Poll
  <1> DEFINE n == read[k][p]
             e == topic[p][n + 1]
             o == e.order_id
             held == Count(SubSeq(topic[p], 1, n), o)
  <1>3. /\ topic[p] \in Seq(Event) /\ pending[k] \in Seq(Event) /\ Len(topic[p]) \in Nat
        /\ n \in 0 .. Len(topic[p]) /\ n < Len(topic[p]) /\ n + 1 \in 1 .. Len(topic[p])
    BY <1>1, <1>2 DEF GroupTypeOK
  <1>4. e \in Event /\ o \in Key
    <2>1. e \in Event
      BY <1>3
    <2> HIDE DEF e
    <2> QED
      BY <2>1 DEF Event
  <1>5. pending'[k] = Append(pending[k], e)
    BY <1>1, <1>2 DEF GroupTypeOK
  <1>6. e.sequence_no = Count(SubSeq(topic[p], 1, n + 1), o)
    BY <1>1, <1>3 DEF NumberedInOrder, ReadUpTo
  <1>7. SubSeq(topic[p], 1, n + 1) = Append(SubSeq(topic[p], 1, n), e)
    BY <1>3, PrefixFacts
  <1>8. SubSeq(topic[p], 1, n) \in Seq(Event)
    BY <1>3, PrefixFacts
  <1>9. held \in Nat
    <2> HIDE DEF n, o
    <2> QED
      BY <1>8, CountIsANumber
  <1>10. Count(Append(SubSeq(topic[p], 1, n), e), o) = held + 1
    <2>1. Count(Append(SubSeq(topic[p], 1, n), e), o)
            = held + (IF e.order_id = o THEN 1 ELSE 0)
      <3> HIDE DEF n, e, o
      <3> QED
        BY <1>4, <1>8, CountOfOneMore
    <2> QED
      BY <2>1
  <1>11. e.sequence_no = held + 1
    BY <1>6, <1>7, <1>10, Zenon
  <1>12. held <= Applied(live[o], pending[k], o)
    <2>1. owner[p] # Nobody
      BY <1>2
    <2>2. ReadUpTo(p, read[owner[p]][p], o) <= InHand(owner[p], o)
      <3> HIDE DEF o
      <3> QED
        BY <1>1, <1>4, <2>1 DEF ReadIsHeld
    <2>3. InHand(owner[p], o) = Applied(live[o], pending[k], o)
      BY <1>2 DEF InHand, Poll
    <2> QED
      BY <1>2, <2>2, <2>3 DEF ReadUpTo
  <1>13. /\ live[o] \in Nat /\ Applied(live[o], pending[k], o) \in Nat
    <2> HIDE DEF o
    <2> QED
      BY <1>1, <1>4, AppliedType
  <1>14. Applied(live[o], Append(pending[k], e), o)
           = IF e.order_id = o /\ e.sequence_no = Applied(live[o], pending[k], o) + 1
             THEN e.sequence_no ELSE Applied(live[o], pending[k], o)
    <2> HIDE DEF e, o
    <2> QED
      BY <1>3, <1>4, <1>13, AppliedToOneMore
  <1>15. e.sequence_no <= Applied(live[o], Append(pending[k], e), o)
    <2> HIDE DEF e, held
    <2> QED
      BY <1>9, <1>11, <1>12, <1>13, <1>14
  <1> HIDE DEF e
  <1> QED
    BY <1>4, <1>5, <1>15

LEMMA PendingStep ==
    ASSUME Sink = "iceberg", GroupInvariant, [GroupNext]_groupVars
    PROVE  PendingFollows'
  <1>0. GroupTypeOK /\ StoppedIsOut /\ PendingFollows
    BY DEF GroupInvariant, GroupIsSound
  <1> SUFFICES ASSUME NEW k \in Member, doing'[k] = "polling", NEW i \in DOMAIN pending'[k]
               PROVE  pending'[k][i].sequence_no
                        <= Applied(live'[pending'[k][i].order_id], SubSeq(pending'[k], 1, i),
                                   pending'[k][i].order_id)
    BY DEF PendingFollows
  <1>1. pending[k] \in Seq(Event)
    BY <1>0 DEF GroupTypeOK
  <1>2. ASSUME doing[k] = "polling", NEW j \in DOMAIN pending[k]
        PROVE  pending[k][j].sequence_no
                 <= Applied(live'[pending[k][j].order_id], SubSeq(pending[k], 1, j),
                            pending[k][j].order_id)
    <2> DEFINE o == pending[k][j].order_id
               s == SubSeq(pending[k], 1, j)
    <2>1. pending[k][j] \in Event /\ j \in 0 .. Len(pending[k])
      BY <1>1
    <2>2. pending[k][j].sequence_no \in Nat /\ o \in Key
      BY <2>1 DEF Event
    <2>3. s \in Seq(Event)
      BY <1>1, <2>1, PrefixFacts
    <2>4. pending[k][j].sequence_no <= Applied(live[o], s, o)
      BY <1>0, <1>2 DEF PendingFollows
    <2>5. live[o] \in Nat /\ live'[o] \in Nat /\ live[o] <= live'[o]
      <3> HIDE DEF o
      <3> QED
        BY <1>0, <2>2, RowsGrow
    <2> HIDE DEF o, s
    <2>6. Applied(live[o], s, o) <= Applied(live'[o], s, o)
      BY <2>3, <2>5, AppliedKeepsOrder
    <2>7. Applied(live[o], s, o) \in Nat /\ Applied(live'[o], s, o) \in Nat
      BY <2>3, <2>5, AppliedMovesOn
    <2>8. pending[k][j].sequence_no <= Applied(live'[o], s, o)
      BY <2>2, <2>4, <2>6, <2>7
    <2> QED
      BY <2>8 DEF o, s
  <1>3. CASE pending'[k] = << >>
    BY <1>3
  <1>4. CASE doing[k] = "polling" /\ pending'[k] = pending[k]
    BY <1>2, <1>4
  <1>5. CASE Poll(k)
    <2>1. PICK e \in Event :
             /\ pending'[k] = Append(pending[k], e)
             /\ e.sequence_no <= Applied(live[e.order_id], Append(pending[k], e), e.order_id)
      BY <1>5, PolledFollows
    <2>2. doing[k] = "polling" /\ live' = live
      BY <1>5 DEF Poll, log
    <2>3. CASE i \in DOMAIN pending[k]
      <3>1. i \in 0 .. Len(pending[k]) /\ pending'[k][i] = pending[k][i]
        BY <1>1, <2>1, <2>3
      <3>2. SubSeq(Append(pending[k], e), 1, i) = SubSeq(pending[k], 1, i)
        BY <1>1, <3>1, PrefixFacts
      <3>3. SubSeq(pending'[k], 1, i) = SubSeq(pending[k], 1, i)
        BY <2>1, <3>2
      <3>4. pending[k][i].sequence_no
                 <= Applied(live'[pending[k][i].order_id], SubSeq(pending[k], 1, i),
                            pending[k][i].order_id)
        BY <1>2, <2>2, <2>3
      <3> QED
        BY <3>1, <3>3, <3>4
    <2>4. CASE i \notin DOMAIN pending[k]
      <3>1. i = Len(pending'[k]) /\ pending'[k][i] = e /\ pending'[k] \in Seq(Event)
        BY <1>1, <2>1, <2>4
      <3>2. SubSeq(pending'[k], 1, i) = pending'[k]
        BY <3>1
      <3> QED
        BY <2>1, <2>2, <3>1, <3>2
    <2> QED
      BY <2>3, <2>4
  <1> QED
    BY <1>0, <1>3, <1>4, <1>5, PendingMoves

LEMMA NoGapStep ==
    ASSUME GroupInvariant, [GroupNext]_groupVars
    PROVE  NobodyMeetsAGap'
  <1>0. GroupTypeOK /\ PendingFollows /\ NobodyMeetsAGap
    BY DEF GroupInvariant, GroupIsSound
  <1> SUFFICES ASSUME NEW k \in Member
               PROVE  ~metGap'[k]
    BY DEF NobodyMeetsAGap
  <1>1. CASE BeginFlush(k)
    <2>1. metGap'[k] = FindsGap(live, pending[k])
      BY <1>0, <1>1 DEF BeginFlush, GroupTypeOK
    <2>2. ASSUME NEW i \in DOMAIN pending[k]
          PROVE  ~(pending[k][i].sequence_no
                     > Applied(live[pending[k][i].order_id], SubSeq(pending[k], 1, i),
                               pending[k][i].order_id))
      <3> DEFINE o == pending[k][i].order_id
                 s == SubSeq(pending[k], 1, i)
      <3>1. pending[k] \in Seq(Event)
        BY <1>0 DEF GroupTypeOK
      <3>2. pending[k][i] \in Event /\ i \in 0 .. Len(pending[k])
        BY <3>1
      <3>3. pending[k][i].sequence_no \in Nat /\ o \in Key
        BY <3>2 DEF Event
      <3>4. s \in Seq(Event)
        BY <3>1, <3>2, PrefixFacts
      <3>5. live[o] \in Nat
        BY <1>0, <3>3 DEF GroupTypeOK
      <3>6. Applied(live[o], s, o) \in Nat
        <4> HIDE DEF o, s
        <4> QED
          BY <3>4, <3>5, AppliedMovesOn
      <3>7. pending[k][i].sequence_no <= Applied(live[o], s, o)
        BY <1>0, <1>1 DEF PendingFollows, BeginFlush
      <3> QED
        BY <3>3, <3>6, <3>7
    <2>3. ~FindsGap(live, pending[k])
      BY <2>2 DEF FindsGap
    <2> QED
      BY <2>1, <2>3
  <1>2. CASE ~BeginFlush(k)
    <2>1. metGap'[k] = metGap[k] \/ metGap'[k] = FALSE
      <3>1. CASE metGap' = metGap
        BY <3>1
      <3>2. ASSUME NEW m \in Member, BeginFlush(m)
            PROVE  metGap'[k] = metGap[k]
        <4>1. m # k
          BY <1>2, <3>2
        <4> QED
          BY <1>0, <3>2, <4>1 DEF BeginFlush, GroupTypeOK
      <3>3. ASSUME NEW m \in Member, metGap' = [metGap EXCEPT ![m] = FALSE]
            PROVE  metGap'[k] = metGap[k] \/ metGap'[k] = FALSE
        BY <1>0, <3>3 DEF GroupTypeOK
      <3>4. \/ metGap' = metGap
            \/ \E m \in Member : BeginFlush(m) \/ metGap' = [metGap EXCEPT ![m] = FALSE]
        BY DEF GroupNext, Work, groupVars, memory, Produce, Rebalance, Join, Rejoin, Poll,
               Write, CommitOffsets, EndsIdle, Evict, Kill, Closed
      <3> QED
        BY <3>1, <3>2, <3>3, <3>4
    <2> QED
      BY <1>0, <2>1 DEF NobodyMeetsAGap
  <1> QED
    BY <1>1, <1>2

-----------------------------------------------------------------------------
LEMMA GroupInvariantStep ==
    ASSUME Sink = "iceberg", FromBeginning, GroupInvariant, [GroupNext]_groupVars
    PROVE  GroupInvariant'
  <1>0. /\ GroupTypeOK /\ OffsetsAreWritten /\ NumberedInOrder /\ OffsetsAreInTheLog
        /\ OwnersAreAlive /\ StoppedIsOut /\ ReadIsHeld
    BY DEF GroupInvariant, GroupIsSound
  <1>1. GroupTypeOK'
    BY <1>0, GroupTypeStep
  <1>2. OffsetsAreWritten'
    BY <1>0, WrittenStep
  <1>3. NobodyMeetsAGap'
    BY NoGapStep
  <1>4. NumberedInOrder'
    BY <1>0, NumberedStep
  <1>5. OffsetsAreInTheLog'
    BY <1>0, OffsetsStep
  <1>6. OwnersAreAlive'
    BY <1>0, OwnersStep
  <1>7. StoppedIsOut'
    BY <1>0, StoppedStep
  <1>8. ReadIsHeld'
    BY HeldStep
  <1>9. PendingFollows'
    BY PendingStep
  <1> QED
    BY <1>1, <1>2, <1>3, <1>4, <1>5, <1>6, <1>7, <1>8, <1>9 DEF GroupInvariant, GroupIsSound

\* build_consumer, project, _flush: what the owner of a partition has read is
\* in its rows or its hands, however partitions change hands under a batch.
THEOREM GroupInvariantHolds ==
    ASSUME Sink = "iceberg", FromBeginning
    PROVE  GroupSpec => []GroupInvariant
  <1>1. GroupInvariant /\ [GroupNext]_groupVars => GroupInvariant'
    BY GroupInvariantStep
  <1> QED
    BY <1>1, GroupInitInvariant, PTL DEF GroupSpec

\* orders_stream.py _flush over IcebergProjection, read from the beginning: for
\* any members, orders, partitions and batch sizes, whoever joins, is thrown out
\* or dies, no offset passes an event the table does not hold and no member
\* meets a gap.
THEOREM GroupIsAlwaysSound ==
    ASSUME Sink = "iceberg", FromBeginning
    PROVE  GroupSpec => []GroupIsSound
  <1>1. GroupInvariant => GroupIsSound
    BY DEF GroupInvariant
  <1> QED
    BY <1>1, GroupInvariantHolds, PTL

\* IcebergProjection.commit: a member that was thrown out with a batch in hand
\* takes no order back.
THEOREM GroupNeverGoesBack ==
    ASSUME Sink = "iceberg"
    PROVE  GroupSpec => RowsNeverGoBack
  <1>1. GroupInit => GroupTypeOK
    BY GroupInitType
  <1>2. GroupTypeOK /\ [GroupNext]_groupVars => GroupTypeOK'
    BY GroupTypeStep
  <1>3. GroupTypeOK /\ [GroupNext]_groupVars => [\A o \in Key : live'[o] >= live[o]]_live
    <2> SUFFICES ASSUME GroupTypeOK, [GroupNext]_groupVars
                 PROVE  \A o \in Key : live'[o] >= live[o]
      OBVIOUS
    <2> QED
      BY RowsGrow
  <1> QED
    BY <1>1, <1>2, <1>3, PTL DEF GroupSpec, RowsNeverGoBack
=============================================================================
