--------------------------- MODULE WarehouseProofs ---------------------------
(***************************************************************************)
(* That a load of the warehouse replaces what it finds, for any tables,    *)
(* versions, numbers of rows, columns, runs and faults, on Postgres and on *)
(* Snowflake.  What a task has done lies in what it has still to do: a     *)
(* table that is not on its list any more is exported, loaded or built by  *)
(* this run, whatever a try before it left behind.                         *)
(*                                                                         *)
(* And that the bootstrap of its roles gives each of them what the         *)
(* isolation matrix allows and no more, however often it runs, wherever it *)
(* dies and whatever is written between its statements.                    *)
(*                                                                         *)
(* And that the other thing made of Silver, the reference the orders of a  *)
(* fulfilment centre are generated from, is worth it, whatever lands while *)
(* it is exported and whoever reads it meanwhile: every copy of a file     *)
(* that is about is true of the tables, copies of one export agree, and a  *)
(* partition follows from the five files that were read.                   *)
(***************************************************************************)
EXTENDS WarehouseLoad, WarehouseRoles, OrderReference, WellFoundedInduction,
        SequenceTheorems, FiniteSetTheorems, FunctionTheorems, TLAPS

-----------------------------------------------------------------------------
(* The inductive invariant.                                                *)

Steps == {"none", "cut", "recreate", "put", "copy", "verify", "gold", "red"}
Tasks == {"none", "export", "load", "build"}
Versioned == 0 .. Versions

RunType ==
    [task : Tasks, outcome : {"none", "success", "failed"}, tries : Nat,
     why : {"none", "fault", "data", "test"}, at : Tasks, floor : [Cut -> Versioned], whole : BOOLEAN]
JobType == [step : Steps, todo : Seq(Cut), expected : [Cut -> Nat]]

\* The process that runs is of the task that runs.
TaskOf ==
    [step \in Steps \ {"none"} |->
        CASE step = "cut" -> "export"
          [] step \in {"gold", "red"} -> "build"
          [] OTHER -> "load"]

Loading == {"recreate", "put", "copy"}

ShapeInvariant ==
    /\ TypeOK
    /\ run \in RunType
    /\ job \in JobType
    /\ job.step # "none" => run.task = TaskOf[job.step]
    /\ job.step \in {"put", "copy"} => job.todo # << >>
    /\ run.task # "none" => run.outcome = "none"

\* Silver never goes back, and what was cut or noted of it is not newer.
SilverInvariant ==
    /\ \E t \in Cut : \A u \in Cut : silver[u] <= silver[t]
    /\ \A t \in Cut : run.floor[t] <= silver[t] /\ cut[t].version <= silver[t]

\* The table is off the list of the step.
Passed(t) == t \notin Range(job.todo)

\* The parquet of the table is of this run.
Exported(t) ==
    /\ cut[t].export = runs
    /\ cut[t].version > 0
    /\ cut[t].version >= run.floor[t]

ExportInvariant ==
    /\ job.step = "cut" => \A t \in Cut : Passed(t) => Exported(t)
    /\ run.task \in {"load", "build"} => \A t \in Cut : Exported(t)

\* The table has the rows of its parquet, once.
IsLoaded(t, table) == table[t].from = << cut[t].version >> /\ table[t].export = runs

\* The table as CopyTable finds it: empty, in the columns of a Silver not older
\* than the parquet.
Empty(t) ==
    /\ session[t].from = << >>
    /\ \E v \in cut[t].version .. silver[t] : session[t].columns = Columns[v]

LoadInvariant ==
    /\ ~Transactional => session = stage
    /\ \A t \in Cut : Len(session[t].from) <= 1 /\ Len(stage[t].from) <= 1
    /\ job.step \in Loading => \A t \in Cut : Passed(t) => IsLoaded(t, session)
    /\ job.step \in {"put", "copy"} => Empty(Head(job.todo))
    /\ job.step = "put" => ~Transactional
    /\ job.step = "copy" /\ ~Transactional => put[Head(job.todo)] = cut[Head(job.todo)].version
    /\ job.step \in Loading \union {"verify"} =>
         job.expected = [t \in Cut |-> RowCount[cut[t].version]]
    /\ job.step = "verify" \/ run.task = "build" => \A t \in Cut : IsLoaded(t, stage)
    /\ ReadersSeeOneLoad

\* GOLD has the table from this run's parquet.
Refreshed(t) == gold[t].version = cut[t].version /\ gold[t].export = runs

BuildInvariant ==
    /\ job.step = "gold" => \A t \in Cut : Passed(t) => Refreshed(t)
    /\ FreshAfterSuccess

\* A try is repeated after a fault, or Silver has moved.
FailureInvariant ==
    /\ run.task = "load" /\ silver = run.floor => run.tries <= faults
    /\ RefusalsHaveACause
    /\ TwoFaultsDoNotStopALoad

Inv ==
    /\ ShapeInvariant
    /\ SilverInvariant
    /\ ExportInvariant
    /\ LoadInvariant
    /\ BuildInvariant
    /\ FailureInvariant

-----------------------------------------------------------------------------
(* Sequences, maxima and sums.                                             *)

\* The cut has a table, and its list is a list of its tables.
LEMMA CutFacts ==
    /\ SPECS \in Seq(Cut)
    /\ SPECS # << >>
    /\ SPECS[1] \in Cut
    /\ Range(SPECS) = Cut
  <1>1. SPECS \in Seq(Cut) /\ SPECS # << >>
    BY CutAssumption DEF Cut
  <1>2. 1 \in DOMAIN SPECS
    BY <1>1
  <1> QED
    BY <1>1, <1>2 DEF Cut, Range

\* A step takes the first table off its list.
LEMMA HeadAndTail ==
    ASSUME NEW s \in Seq(Cut), s # << >>
    PROVE  /\ Head(s) \in Cut
           /\ Tail(s) \in Seq(Cut)
           /\ Range(s) = Range(Tail(s)) \union {Head(s)}
  <1>1. Len(s) \in Nat \ {0} /\ DOMAIN s = 1 .. Len(s) /\ Head(s) = s[1] /\ Head(s) \in Cut
    BY HeadTailProperties
  <1>2. Tail(s) \in Seq(Cut) /\ Len(Tail(s)) = Len(s) - 1
        /\ \A i \in 1 .. Len(Tail(s)) : Tail(s)[i] = s[i + 1]
    BY HeadTailProperties
  <1>3. DOMAIN Tail(s) = 1 .. Len(s) - 1
    BY <1>1, <1>2
  <1>4. ASSUME NEW x \in Range(s)
        PROVE  x \in Range(Tail(s)) \union {Head(s)}
    <2>1. PICK i \in 1 .. Len(s) : x = s[i]
      BY <1>1, <1>4 DEF Range
    <2>2. CASE i = 1
      BY <1>1, <2>1, <2>2
    <2>3. CASE i # 1
      <3>1. i - 1 \in 1 .. Len(s) - 1
        BY <1>1, <2>3
      <3>2. Tail(s)[i - 1] = s[(i - 1) + 1]
        BY <1>2, <3>1
      <3>3. (i - 1) + 1 = i
        BY <1>1
      <3>4. Tail(s)[i - 1] = x
        BY <2>1, <3>2, <3>3
      <3> QED
        BY <1>3, <3>1, <3>4 DEF Range
    <2> QED
      BY <2>2, <2>3
  <1>5. ASSUME NEW x \in Range(Tail(s))
        PROVE  x \in Range(s)
    <2>1. PICK i \in 1 .. Len(s) - 1 : x = Tail(s)[i]
      BY <1>3 DEF Range
    <2>2. x = s[i + 1] /\ i + 1 \in 1 .. Len(s)
      BY <1>1, <1>2, <2>1
    <2> QED
      BY <1>1, <2>2 DEF Range
  <1>6. Head(s) \in Range(s)
    BY <1>1 DEF Range
  <1> QED
    BY <1>1, <1>2, <1>4, <1>5, <1>6

LEMMA EmptyRange == Range(<< >>) = {}
  BY DEF Range

\* Max is the greatest number of a set that has one.
LEMMA MaxIsGreatest ==
    ASSUME NEW S \in SUBSET Nat, NEW m \in S, \A x \in S : x <= m
    PROVE  Max(S) = m
  <1>1. \A y \in S : m >= y
    OBVIOUS
  <1>2. Max(S) \in S /\ \A y \in S : Max(S) >= y
    BY <1>1 DEF Max
  <1>3. m \in Nat /\ Max(S) \in Nat
    BY <1>2
  <1>4. Max(S) >= m /\ Max(S) <= m
    BY <1>2
  <1> QED
    BY <1>3, <1>4

\* A table that holds one copy has the rows of its version.
LEMMA RowsOfOneCopy ==
    ASSUME NEW v \in 1 .. Versions, NEW table, table.from = << v >>
    PROVE  Rows(table) = RowCount[v]
  <1> DEFINE choose(S) == CHOOSE x \in S : TRUE
             Step(g, s) == IF s = {} THEN 0
                           ELSE LET x == choose(s) IN g[s \ {x}] + RowCount[table.from[x]]
             Is(g) == g = [s \in SUBSET DOMAIN table.from |-> Step(g, s)]
             sum == [s \in SUBSET {1} |-> IF s = {} THEN 0 ELSE RowCount[v]]
             iter == CHOOSE g : Is(g)
  <1>1. DOMAIN table.from = {1} /\ table.from[1] = v
    OBVIOUS
  <1>2. RowCount[v] \in Nat
    BY CutAssumption
  <1>3. Rows(table) = iter[DOMAIN table.from]
    BY Zenon DEF Rows, FoldSeq, FoldFunction, FoldFunctionOnSet, MapThenFoldSet
  <1>4. Is(sum)
    <2>1. DOMAIN sum = SUBSET DOMAIN table.from
      BY <1>1
    <2>2. ASSUME NEW s \in SUBSET DOMAIN table.from
          PROVE  sum[s] = Step(sum, s)
      <3>1. CASE s = {}
        BY <3>1
      <3>2. CASE s # {}
        <4>1. s = {1}
          BY <1>1, <3>2
        <4>2. choose(s) = 1 /\ s \ {1} = {}
          BY <4>1
        <4>3. Step(sum, s) = sum[{}] + RowCount[table.from[1]]
          BY <3>2, <4>2
        <4>4. sum[{}] = 0 /\ sum[s] = RowCount[v]
          BY <4>1
        <4> QED
          BY <1>1, <1>2, <4>3, <4>4
      <3> QED
        BY <3>1, <3>2
    <2>3. sum = [s \in SUBSET DOMAIN table.from |-> sum[s]]
      BY <1>1
    <2> HIDE DEF sum, Step
    <2> QED
      BY <2>2, <2>3
  <1>5. Is(iter)
    <2> HIDE DEF Is
    <2> QED
      BY <1>4, Zenon
  <1>6. \A s \in SUBSET DOMAIN table.from : iter[s] = Step(iter, s)
    <2> HIDE DEF iter, Step
    <2> QED
      BY <1>5
  <1> HIDE DEF iter
  <1>7. iter[{}] = 0
    BY <1>6
  <1>8. choose({1}) = 1 /\ {1} \ {1} = {} /\ {1} # {}
    OBVIOUS
  <1>9. iter[{1}] = iter[{}] + RowCount[v]
    <2>1. iter[{1}] = Step(iter, {1})
      BY <1>1, <1>6
    <2> QED
      BY <1>1, <1>8, <2>1
  <1> QED
    BY <1>1, <1>2, <1>3, <1>7, <1>9

-----------------------------------------------------------------------------
(* Types.                                                                  *)

\* The rows of a table are no copy of a parquet, or one.
LEMMA CopyShapes ==
    /\ << >> \in UNION {[1..n -> 1..Versions] : n \in 0..2}
    /\ \A v \in 1..Versions : << v >> \in UNION {[1..n -> 1..Versions] : n \in 0..2}
  <1>1. << >> \in [1..0 -> 1..Versions]
    OBVIOUS
  <1>2. \A v \in 1..Versions : << v >> \in [1..1 -> 1..Versions]
    OBVIOUS
  <1>3. 0 \in 0..2 /\ 1 \in 0..2
    OBVIOUS
  <1> QED
    BY <1>1, <1>2, <1>3, Zenon

LEMMA TableShape ==
    ASSUME NEW table \in Tables, NEW v \in 1..Versions, NEW n \in 0..MaxRuns
    PROVE  /\ NoTable \in Tables
           /\ [NoTable EXCEPT !.columns = Columns[v]] \in Tables
           /\ [table EXCEPT !.from = << v >>, !.export = n] \in Tables
  <1>1. 0 \in 0..MaxRuns
    BY CutAssumption
  <1>2. Columns[v] \in {Columns[u] : u \in 1..Versions} \cup {{}}
    OBVIOUS
  <1>3. {} \in {Columns[u] : u \in 1..Versions} \cup {{}}
    OBVIOUS
  <1> DEFINE Froms == UNION {[1..k -> 1..Versions] : k \in 0..2}
             Cols == {Columns[u] : u \in 1..Versions} \cup {{}}
  <1>4. << >> \in Froms /\ << v >> \in Froms
    BY CopyShapes
  <1>5. Tables = [from : Froms, columns : Cols, export : 0..MaxRuns]
    BY DEF Tables
  <1>6. Columns[v] \in Cols /\ {} \in Cols
    BY <1>2, <1>3
  <1> HIDE DEF Froms, Cols
  <1> QED
    BY <1>1, <1>4, <1>5, <1>6 DEF NoTable

LEMMA NoTableShape == NoTable \in Tables
  <1> DEFINE Froms == UNION {[1..k -> 1..Versions] : k \in 0..2}
             Cols == {Columns[u] : u \in 1..Versions} \cup {{}}
  <1>1. << >> \in Froms /\ {} \in Cols /\ 0 \in 0..MaxRuns
    BY CopyShapes, CutAssumption
  <1>2. Tables = [from : Froms, columns : Cols, export : 0..MaxRuns]
    BY DEF Tables
  <1> HIDE DEF Froms, Cols
  <1> QED
    BY <1>1, <1>2 DEF NoTable

-----------------------------------------------------------------------------
(* The initial state, and the steps of the lake.                           *)

LEMMA InitInvariant == Init => Inv
  <1> SUFFICES ASSUME Init
               PROVE  Inv
    OBVIOUS
  <1>1. 0 \in Versioned /\ 0 \in 0..MaxRuns /\ 0 \in 0..MaxFaults /\ Versions \in Nat
    BY CutAssumption DEF Versioned
  <1>2. [version |-> 0, export |-> 0] \in Parquets
    BY <1>1 DEF Parquets, Versioned
  <1>3. \A t \in Cut : silver[t] = 0 /\ run.floor[t] = 0 /\ cut[t] = [version |-> 0, export |-> 0]
                       /\ stage[t].from = << >> /\ stage[t].export = 0
    BY DEF Init, NoRun, NoTable
  <1>4. run = NoRun /\ job = NoJob /\ session = stage
    BY DEF Init
  <1>5. ShapeInvariant
    <2>1. TypeOK
      BY <1>1, <1>2, NoTableShape DEF Init, TypeOK, NoRun, NoJob, Versioned
    <2>2. run \in RunType
      BY <1>1, <1>4 DEF NoRun, RunType, Tasks
    <2>3. job \in JobType
      BY <1>4 DEF NoJob, JobType, Steps
    <2> QED
      BY <1>4, <2>1, <2>2, <2>3 DEF ShapeInvariant, NoRun, NoJob
  <1>6. SilverInvariant
    BY <1>3, CutFacts DEF SilverInvariant
  <1>7. ExportInvariant
    BY <1>4 DEF ExportInvariant, NoRun, NoJob
  <1>8. LoadInvariant
    <2>1. \A t \in Cut : Len(session[t].from) <= 1 /\ Len(stage[t].from) <= 1
      BY <1>3, <1>4
    <2> QED
      BY <1>3, <1>4, <2>1 DEF LoadInvariant, NoRun, NoJob, ReadersSeeOneLoad, Loading
  <1>9. BuildInvariant
    BY <1>4 DEF BuildInvariant, NoRun, NoJob, FreshAfterSuccess
  <1>10. FailureInvariant
    BY <1>4 DEF FailureInvariant, NoRun, RefusalsHaveACause, TwoFaultsDoNotStopALoad
  <1> QED
    BY <1>5, <1>6, <1>7, <1>8, <1>9, <1>10 DEF Inv

\* A Silver that goes forward, under a run or between two.
LEMMA SilverMoves ==
    ASSUME Inv,
           silver' \in [Cut -> Versioned], rebuild' \subseteq Cut,
           \A t \in Cut : silver[t] <= silver'[t],
           \E t \in Cut : \A u \in Cut : silver'[u] <= silver'[t],
           UNCHANGED <<setting, warehouse, dag, faults>>
    PROVE  Inv'
  <1> USE DEF setting, warehouse, dag
  <1>1. silver \in [Cut -> Versioned] /\ run.floor \in [Cut -> Versioned] /\ cut \in [Cut -> Parquets]
    BY DEF Inv, ShapeInvariant, TypeOK, RunType, Versioned
  <1>2. \A t \in Cut : /\ silver[t] \in Nat /\ silver'[t] \in Nat
                       /\ run.floor[t] \in Nat /\ cut[t].version \in Nat
    BY <1>1, CutAssumption DEF Versioned, Parquets
  <1>3. silver' = run.floor => silver = run.floor
    <2> SUFFICES ASSUME silver' = run.floor
                 PROVE  \A t \in Cut : silver[t] = run.floor[t]
      BY <1>1
    <2> TAKE t \in Cut
    <2>1. run.floor[t] <= silver[t] /\ silver[t] <= silver'[t] /\ silver'[t] = run.floor[t]
      BY DEF Inv, SilverInvariant
    <2> QED
      BY <1>2, <2>1
  <1>4. ShapeInvariant'
    <2>1. TypeOK'
      BY DEF Inv, ShapeInvariant, TypeOK, Versioned
    <2> QED
      BY <2>1 DEF Inv, ShapeInvariant
  <1>5. SilverInvariant'
    <2>1. \A t \in Cut : run.floor[t] <= silver[t] /\ cut[t].version <= silver[t]
      BY DEF Inv, SilverInvariant
    <2>2. \A t \in Cut : run.floor[t] <= silver'[t] /\ cut[t].version <= silver'[t]
      BY <1>2, <2>1
    <2> QED
      BY <2>2 DEF SilverInvariant
  <1>6. ExportInvariant'
    BY DEF Inv, ExportInvariant, Exported, Passed
  <1>7. LoadInvariant'
    <2>1. job.step \in {"put", "copy"} =>
            /\ session[Head(job.todo)].from = << >>
            /\ \E v \in cut[Head(job.todo)].version .. silver'[Head(job.todo)] :
                 session[Head(job.todo)].columns = Columns[v]
      <3> SUFFICES ASSUME job.step \in {"put", "copy"}
                   PROVE  /\ session[Head(job.todo)].from = << >>
                          /\ \E v \in cut[Head(job.todo)].version .. silver'[Head(job.todo)] :
                               session[Head(job.todo)].columns = Columns[v]
        OBVIOUS
      <3> DEFINE h == Head(job.todo)
      <3>1. h \in Cut
        BY HeadAndTail DEF Inv, ShapeInvariant, JobType
      <3>2. Empty(h)
        BY DEF Inv, LoadInvariant
      <3>3. silver[h] <= silver'[h] /\ silver[h] \in Nat /\ silver'[h] \in Nat /\ cut[h].version \in Nat
        BY <1>2, <3>1
      <3>4. PICK v \in cut[h].version .. silver[h] : session[h].columns = Columns[v]
        BY <3>2 DEF Empty
      <3>5. v \in cut[h].version .. silver'[h]
        BY <3>3
      <3> QED
        BY <3>2, <3>4, <3>5 DEF Empty
    <2> QED
      BY <2>1 DEF Inv, LoadInvariant, IsLoaded, Passed, Empty, Transactional, ReadersSeeOneLoad
  <1>8. BuildInvariant'
    BY DEF Inv, BuildInvariant, Passed, Refreshed, FreshAfterSuccess
  <1>9. FailureInvariant'
    BY <1>3 DEF Inv, FailureInvariant, RefusalsHaveACause, TwoFaultsDoNotStopALoad
  <1> QED
    BY <1>4, <1>5, <1>6, <1>7, <1>8, <1>9 DEF Inv

\* The greatest version of Silver.
LEMMA Newest ==
    ASSUME Inv
    PROVE  \E m \in Cut : /\ \A u \in Cut : silver[u] <= silver[m]
                          /\ Max({silver[t] : t \in Cut}) = silver[m]
                          /\ silver[m] \in Versioned
  <1>1. \A t \in Cut : silver[t] \in Versioned /\ silver[t] \in Nat
    BY CutAssumption DEF Inv, ShapeInvariant, TypeOK, Versioned
  <1>2. PICK m \in Cut : \A u \in Cut : silver[u] <= silver[m]
    BY DEF Inv, SilverInvariant
  <1> DEFINE S == {silver[t] : t \in Cut}
  <1>3. S \in SUBSET Nat /\ silver[m] \in S /\ \A x \in S : x <= silver[m]
    BY <1>1, <1>2
  <1> HIDE DEF S
  <1>4. Max(S) = silver[m]
    BY <1>3, MaxIsGreatest
  <1> QED
    BY <1>1, <1>2, <1>4 DEF S

LEMMA StartSilverKeeps ==
    ASSUME Inv, StartSilver
    PROVE  Inv'
  <1>1. PICK m \in Cut : /\ \A u \in Cut : silver[u] <= silver[m]
                         /\ Max({silver[t] : t \in Cut}) = silver[m]
                         /\ silver[m] \in Versioned
    BY Newest
  <1>2. PICK first \in Built : /\ silver' = [silver EXCEPT ![first] = NextVersion]
                               /\ rebuild' = Built \ {first}
    BY DEF StartSilver
  <1>3. NextVersion = silver[m] + 1 /\ NextVersion \in Versioned /\ NextVersion \in Nat
    BY <1>1, CutAssumption DEF NextVersion, StartSilver, Versioned
  <1>4. first \in Cut /\ Built \subseteq Cut
    BY DEF Built
  <1>5. silver \in [Cut -> Versioned] /\ \A t \in Cut : silver[t] \in Nat
    BY CutAssumption DEF Inv, ShapeInvariant, TypeOK, Versioned
  <1>6. \A t \in Cut : silver'[t] = IF t = first THEN silver[m] + 1 ELSE silver[t]
    BY <1>2, <1>3, <1>4, <1>5
  <1>7. \A t \in Cut : silver[t] <= silver'[t] /\ silver'[t] <= silver'[first]
    BY <1>1, <1>4, <1>5, <1>6
  <1>8. silver' \in [Cut -> Versioned]
    BY <1>2, <1>3, <1>5
  <1> QED
    BY <1>2, <1>4, <1>7, <1>8, SilverMoves DEF StartSilver

LEMMA RebuildTableKeeps ==
    ASSUME Inv, NEW t \in Cut, RebuildTable(t)
    PROVE  Inv'
  <1>1. PICK m \in Cut : /\ \A u \in Cut : silver[u] <= silver[m]
                         /\ Max({silver[u] : u \in Cut}) = silver[m]
                         /\ silver[m] \in Versioned
    BY Newest
  <1>2. silver \in [Cut -> Versioned] /\ \A u \in Cut : silver[u] \in Nat
    BY CutAssumption DEF Inv, ShapeInvariant, TypeOK, Versioned
  <1>3. silver' = [silver EXCEPT ![t] = silver[m]]
    BY <1>1 DEF RebuildTable
  <1>4. \A u \in Cut : silver'[u] = IF u = t THEN silver[m] ELSE silver[u]
    BY <1>2, <1>3
  <1>5. \A u \in Cut : silver[u] <= silver'[u] /\ silver'[u] <= silver'[m]
    BY <1>1, <1>2, <1>4
  <1>6. silver' \in [Cut -> Versioned]
    BY <1>1, <1>2, <1>3
  <1>7. rebuild' \subseteq Cut
    BY DEF RebuildTable, Inv, ShapeInvariant, TypeOK
  <1> QED
    BY <1>5, <1>6, <1>7, SilverMoves DEF RebuildTable

-----------------------------------------------------------------------------
(* The end of a task.                                                      *)

\* What the steps need of the shapes.
LEMMA Shapes ==
    ASSUME Inv
    PROVE  /\ run \in RunType /\ job \in JobType
           /\ silver \in [Cut -> Versioned] /\ cut \in [Cut -> Parquets]
           /\ stage \in [Cut -> Tables] /\ session \in [Cut -> Tables]
           /\ put \in [Cut -> Versioned] /\ gold \in [Cut -> Parquets]
           /\ runs \in 0..MaxRuns /\ runs \in Nat /\ faults \in 0..MaxFaults /\ faults \in Nat
           /\ \A t \in Cut : /\ silver[t] \in Nat /\ run.floor[t] \in Nat
                             /\ cut[t].version \in Versioned /\ cut[t].version \in Nat
                             /\ run.floor[t] <= silver[t] /\ cut[t].version <= silver[t]
           /\ MaxRuns \in Nat /\ MaxFaults \in Nat /\ Versions \in Nat
  <1>1. /\ run \in RunType /\ job \in JobType
        /\ silver \in [Cut -> Versioned] /\ cut \in [Cut -> Parquets]
        /\ stage \in [Cut -> Tables] /\ session \in [Cut -> Tables]
        /\ put \in [Cut -> Versioned] /\ gold \in [Cut -> Parquets]
        /\ runs \in 0..MaxRuns /\ faults \in 0..MaxFaults
    BY DEF Inv, ShapeInvariant, TypeOK, Versioned
  <1>2. MaxRuns \in Nat /\ MaxFaults \in Nat /\ Versions \in Nat
    BY CutAssumption
  <1>3. \A t \in Cut : silver[t] \in Nat /\ run.floor[t] \in Nat
                       /\ cut[t].version \in Versioned /\ cut[t].version \in Nat
    BY <1>1, <1>2 DEF Versioned, RunType, Parquets
  <1>4. \A t \in Cut : run.floor[t] <= silver[t] /\ cut[t].version <= silver[t]
    BY DEF Inv, SilverInvariant
  <1> QED
    BY <1>1, <1>2, <1>3, <1>4

LEMMA NoJobShape == NoJob \in JobType /\ NoJob.step = "none"
  BY DEF NoJob, JobType, Steps

\* A try that fails is repeated or is the last one.
LEMMA FailShape ==
    ASSUME run \in RunType, run.task # "none", NEW why \in {"fault", "data", "test"}, Fail(why)
    PROVE  /\ job' = NoJob
           /\ run' \in RunType
           /\ run'.floor = run.floor
           /\ \/ /\ run'.task = run.task /\ run'.outcome = run.outcome
                 /\ run'.tries = run.tries + 1
              \/ /\ run.tries >= Retries(run.task)
                 /\ run'.task = "none" /\ run'.outcome = "failed"
                 /\ run'.why = why /\ run'.at = run.task
  <1>1. Retries(run.task) \in Nat /\ run.tries \in Nat /\ run.tries + 1 \in Nat
    BY DEF Retries, RunType
  <1>2. CASE run.tries < Retries(run.task)
    <2>1. run' = [run EXCEPT !.tries = run.tries + 1] /\ job' = NoJob
      BY <1>2 DEF Fail
    <2> QED
      BY <1>1, <2>1 DEF RunType
  <1>3. CASE ~(run.tries < Retries(run.task))
    <2>1. run' = [run EXCEPT !.task = "none", !.outcome = "failed", !.why = why, !.at = run.task]
          /\ job' = NoJob
      BY <1>3 DEF Fail
    <2>2. run.tries >= Retries(run.task)
      BY <1>1, <1>3
    <2> QED
      BY <2>1, <2>2 DEF RunType, Tasks
  <1> QED
    BY <1>2, <1>3

\* A failure, of the network or over data that explain it, leaves the invariant.
LEMMA FailKeeps ==
    ASSUME Inv, run.task # "none", NEW why \in {"fault", "data", "test"}, Fail(why),
           session' \in {session, stage},
           UNCHANGED <<lake, cut, stage, put, gold, runs>>,
           why = "fault" => faults' = faults + 1 /\ faults < MaxFaults,
           why = "data" =>
             /\ faults' = faults
             /\ \/ silver # run.floor
                \/ run.task # "load" /\ \E t \in Cut : run.floor[t] = 0,
           why = "test" => faults' = faults /\ run.task = "build"
    PROVE  Inv'
  <1> USE DEF lake, setting
  <1>1. /\ job' = NoJob /\ job'.step = "none"
        /\ run' \in RunType
        /\ run'.floor = run.floor
        /\ \/ /\ run'.task = run.task /\ run'.outcome = run.outcome
              /\ run'.tries = run.tries + 1
           \/ /\ run.tries >= Retries(run.task)
              /\ run'.task = "none" /\ run'.outcome = "failed"
              /\ run'.why = why /\ run'.at = run.task
    BY FailShape, Shapes, NoJobShape
  <1>2. faults' \in 0..MaxFaults /\ faults <= faults' /\ faults \in Nat /\ faults' \in Nat
    BY Shapes
  <1>3. run.outcome = "none"
    BY DEF Inv, ShapeInvariant
  <1>4. ShapeInvariant'
    <2>1. TypeOK'
      BY <1>1, <1>2 DEF Inv, ShapeInvariant, TypeOK, RunType, Tasks
    <2> QED
      BY <1>1, <1>3, <2>1, NoJobShape DEF ShapeInvariant
  <1>5. SilverInvariant'
    BY <1>1 DEF Inv, SilverInvariant
  <1>6. ExportInvariant'
    BY <1>1 DEF Inv, ExportInvariant, Exported
  <1>7. LoadInvariant'
    <2>1. run'.task = "build" => \A t \in Cut : IsLoaded(t, stage)'
      BY <1>1 DEF Inv, LoadInvariant, IsLoaded
    <2>2. /\ ~Transactional' => session' = stage'
          /\ \A t \in Cut : Len(session'[t].from) <= 1 /\ Len(stage'[t].from) <= 1
          /\ ReadersSeeOneLoad'
      BY DEF Inv, LoadInvariant, Transactional, ReadersSeeOneLoad
    <2> QED
      BY <1>1, <2>1, <2>2 DEF LoadInvariant, Loading
  <1>8. BuildInvariant'
    BY <1>1, <1>3 DEF BuildInvariant, FreshAfterSuccess
  <1>9. FailureInvariant'
    <2>1. (run'.task = "load" /\ silver' = run'.floor) => run'.tries <= faults'
      <3> SUFFICES ASSUME run'.task = "load", silver' = run'.floor
                   PROVE  run'.tries <= faults'
        OBVIOUS
      <3>1. run.task = "load" /\ run'.tries = run.tries + 1 /\ silver = run.floor
        BY <1>1
      <3>2. run.tries <= faults /\ faults' = faults + 1
        BY <3>1 DEF Inv, FailureInvariant
      <3> QED
        BY <1>2, <3>1, <3>2, Shapes DEF RunType
    <2>2. RefusalsHaveACause'
      BY <1>1, <1>3 DEF RefusalsHaveACause
    <2>3. TwoFaultsDoNotStopALoad'
      <3> SUFFICES ASSUME run'.outcome = "failed", run'.why = "fault", run'.at = "load",
                          silver = run.floor
                   PROVE  faults' > 2
        BY <1>1 DEF TwoFaultsDoNotStopALoad
      <3>1. run.task = "load" /\ why = "fault" /\ run.tries >= Retries(run.task)
        BY <1>1, <1>3
      <3>2. run.tries >= 2 /\ run.tries \in Nat
        BY <3>1, Shapes DEF Retries, RunType
      <3>3. run.tries <= faults /\ faults' = faults + 1
        BY <3>1 DEF Inv, FailureInvariant
      <3> QED
        BY <1>2, <3>2, <3>3
    <2> QED
      BY <2>1, <2>2, <2>3 DEF FailureInvariant
  <1> QED
    BY <1>4, <1>5, <1>6, <1>7, <1>8, <1>9 DEF Inv

LEMMA DieKeeps ==
    ASSUME Inv, Die
    PROVE  Inv'
  <1>1. faults' = faults + 1 /\ faults < MaxFaults
    BY DEF Die, Fault
  <1>2. Fail("fault") /\ run.task # "none" /\ session' \in {session, stage}
    BY DEF Die
  <1>3. UNCHANGED <<lake, cut, stage, put, gold, runs>>
    BY DEF Die
  <1> QED
    BY <1>1, <1>2, <1>3, FailKeeps

\* A task that ends well hands on what the next one expects.
LEMMA SucceedKeeps ==
    ASSUME Inv, run.task # "none", Succeed,
           UNCHANGED <<lake, warehouse, runs, faults>>,
           run.task = "export" => \A t \in Cut : Exported(t),
           run.task = "load" => \A t \in Cut : IsLoaded(t, stage),
           run.task = "build" => \A t \in Cut : Refreshed(t)
    PROVE  Inv'
  <1> USE DEF lake, setting, warehouse
  <1>1. /\ run' \in RunType /\ run'.floor = run.floor
        /\ \/ run.task = "export" /\ run'.task = "load" /\ run'.tries = 0 /\ run'.outcome = run.outcome
           \/ run.task = "load" /\ run'.task = "build" /\ run'.outcome = run.outcome
           \/ run.task = "build" /\ run'.task = "none" /\ run'.outcome = "success"
    BY Shapes DEF Succeed, RunType, Tasks
  <1>2. job' = NoJob /\ job'.step = "none" /\ job' \in JobType
    BY NoJobShape DEF Succeed
  <1>3. run.outcome = "none"
    BY DEF Inv, ShapeInvariant
  <1>4. ShapeInvariant'
    <2>1. TypeOK'
      BY <1>1, <1>2 DEF Inv, ShapeInvariant, TypeOK, RunType, Tasks
    <2> QED
      BY <1>1, <1>2, <1>3, <2>1 DEF ShapeInvariant
  <1>5. SilverInvariant'
    BY <1>1 DEF Inv, SilverInvariant
  <1>6. ExportInvariant'
    BY <1>1, <1>2 DEF Inv, ExportInvariant, Exported
  <1>7. LoadInvariant'
    <2>1. run'.task = "build" => \A t \in Cut : IsLoaded(t, stage)'
      BY <1>1 DEF IsLoaded
    <2>2. /\ ~Transactional' => session' = stage'
          /\ \A t \in Cut : Len(session'[t].from) <= 1 /\ Len(stage'[t].from) <= 1
          /\ ReadersSeeOneLoad'
      BY DEF Inv, LoadInvariant, Transactional, ReadersSeeOneLoad
    <2> QED
      BY <1>2, <2>1, <2>2 DEF LoadInvariant, Loading
  <1>8. BuildInvariant'
    <2>1. run.task = "build" =>
            \A t \in Cut : gold[t].version >= run.floor[t] /\ gold[t].export = runs
      <3> SUFFICES ASSUME run.task = "build", NEW t \in Cut
                   PROVE  gold[t].version >= run.floor[t] /\ gold[t].export = runs
        OBVIOUS
      <3>1. Exported(t)
        BY DEF Inv, ExportInvariant
      <3>2. Refreshed(t)
        OBVIOUS
      <3> QED
        BY <3>1, <3>2 DEF Exported, Refreshed
    <2> QED
      BY <1>1, <1>2, <1>3, <2>1 DEF BuildInvariant, FreshAfterSuccess
  <1>9. FailureInvariant'
    BY <1>1, <1>3, Shapes DEF FailureInvariant, RefusalsHaveACause, TwoFaultsDoNotStopALoad
  <1> QED
    BY <1>4, <1>5, <1>6, <1>7, <1>8, <1>9 DEF Inv

-----------------------------------------------------------------------------
(* The export.                                                             *)

LEMMA StartRunKeeps ==
    ASSUME Inv, StartRun
    PROVE  Inv'
  <1> USE DEF lake, setting, warehouse
  <1>1. job' = NoJob /\ job'.step = "none" /\ job' \in JobType
    BY NoJobShape DEF StartRun
  <1>2. (rebuild = {} /\ Whole) \in BOOLEAN
    OBVIOUS
  <1>3. /\ run' \in RunType /\ run'.floor = silver
        /\ run'.task = "export" /\ run'.outcome = "none"
    <2> DEFINE whole == rebuild = {} /\ Whole
    <2>1. run' = [NoRun EXCEPT !.task = "export", !.floor = silver, !.whole = whole]
      BY DEF StartRun
    <2>2. whole \in BOOLEAN /\ silver \in [Cut -> Versioned]
      BY Shapes
    <2> HIDE DEF whole
    <2> QED
      BY <2>1, <2>2 DEF NoRun, RunType, Tasks
  <1>a. runs < MaxRuns /\ runs' = runs + 1 /\ UNCHANGED <<lake, warehouse, faults>>
    BY Zenon DEF StartRun
  <1>4. ShapeInvariant'
    <2>1. TypeOK'
      BY <1>1, <1>3, <1>a, Shapes DEF Inv, ShapeInvariant, TypeOK, RunType, Tasks
    <2> QED
      BY <1>1, <1>3, <2>1 DEF ShapeInvariant
  <1>5. SilverInvariant'
    BY <1>3, <1>a, Shapes DEF Inv, SilverInvariant
  <1>6. ExportInvariant'
    BY <1>1, <1>3 DEF ExportInvariant
  <1>7. LoadInvariant'
    <2>1. /\ ~Transactional' => session' = stage'
          /\ \A t \in Cut : Len(session'[t].from) <= 1 /\ Len(stage'[t].from) <= 1
          /\ ReadersSeeOneLoad'
      BY <1>a DEF Inv, LoadInvariant, Transactional, ReadersSeeOneLoad
    <2> QED
      BY <1>1, <1>3, <2>1 DEF LoadInvariant, Loading
  <1>8. BuildInvariant'
    BY <1>1, <1>3 DEF BuildInvariant, FreshAfterSuccess
  <1>9. FailureInvariant'
    BY <1>3 DEF FailureInvariant, RefusalsHaveACause, TwoFaultsDoNotStopALoad
  <1> QED
    BY <1>4, <1>5, <1>6, <1>7, <1>8, <1>9 DEF Inv

LEMMA BeginExportKeeps ==
    ASSUME Inv, BeginExport
    PROVE  Inv'
  <1> USE DEF lake, setting, warehouse
  <1>1. job'.step = "cut" /\ job'.todo = SPECS /\ job' \in JobType
    BY NoJobShape, CutFacts DEF BeginExport, JobType, NoJob, Steps
  <1>2. ShapeInvariant'
    <2>1. TypeOK'
      BY <1>1 DEF Inv, ShapeInvariant, TypeOK, BeginExport
    <2> QED
      BY <1>1, <2>1 DEF Inv, ShapeInvariant, BeginExport, TaskOf, Steps
  <1>3. SilverInvariant'
    BY DEF Inv, SilverInvariant, BeginExport
  <1>4. ExportInvariant'
    <2>1. \A t \in Cut : ~Passed(t)'
      BY <1>1, CutFacts DEF Passed
    <2> QED
      BY <1>1, <2>1 DEF ExportInvariant, BeginExport
  <1>5. LoadInvariant'
    <2>1. /\ ~Transactional' => session' = stage'
          /\ \A t \in Cut : Len(session'[t].from) <= 1 /\ Len(stage'[t].from) <= 1
          /\ ReadersSeeOneLoad'
      BY DEF Inv, LoadInvariant, Transactional, ReadersSeeOneLoad, BeginExport
    <2> QED
      BY <1>1, <2>1 DEF LoadInvariant, Loading, BeginExport
  <1>6. BuildInvariant'
    BY <1>1 DEF Inv, BuildInvariant, FreshAfterSuccess, BeginExport
  <1>7. FailureInvariant'
    BY DEF Inv, FailureInvariant, RefusalsHaveACause, TwoFaultsDoNotStopALoad, BeginExport
  <1> QED
    BY <1>2, <1>3, <1>4, <1>5, <1>6, <1>7 DEF Inv

-----------------------------------------------------------------------------
(* The steps within a task.                                                *)

\* A step that leaves Silver and the run where they are.
LEMMA StepKeeps ==
    ASSUME Inv, run.task # "none",
           UNCHANGED <<lake, run, runs, faults>>,
           job' \in JobType, job'.step # "none", run.task = TaskOf[job'.step],
           job'.step \in {"put", "copy"} => job'.todo # << >>,
           cut' \in [Cut -> Parquets], gold' \in [Cut -> Parquets], put' \in [Cut -> Versioned],
           stage' \in [Cut -> Tables], session' \in [Cut -> Tables],
           \A t \in Cut : cut'[t].version <= silver[t],
           ExportInvariant', LoadInvariant',
           job'.step = "gold" => \A t \in Cut : Passed(t)' => Refreshed(t)'
    PROVE  Inv'
  <1> USE DEF lake, setting
  <1>1. run.outcome = "none"
    BY DEF Inv, ShapeInvariant
  <1>2. ShapeInvariant'
    <2>1. TypeOK'
      BY DEF Inv, ShapeInvariant, TypeOK, JobType, Steps, Versioned
    <2> QED
      BY <1>1, <2>1 DEF Inv, ShapeInvariant
  <1>3. SilverInvariant'
    BY DEF Inv, SilverInvariant
  <1>4. BuildInvariant'
    BY <1>1 DEF BuildInvariant, FreshAfterSuccess
  <1>5. FailureInvariant'
    BY DEF Inv, FailureInvariant, RefusalsHaveACause, TwoFaultsDoNotStopALoad
  <1> QED
    BY <1>2, <1>3, <1>4, <1>5 DEF Inv

\* What Tail leaves on the list.
LEMMA PassedNext ==
    ASSUME job \in JobType, job.todo # << >>, job'.todo = Tail(job.todo), NEW t \in Cut
    PROVE  Passed(t)' => Passed(t) \/ t = Head(job.todo)
  <1>1. Range(job.todo) = Range(Tail(job.todo)) \union {Head(job.todo)}
    BY HeadAndTail DEF JobType
  <1> QED
    BY <1>1 DEF Passed

\* The rows of a load are of one copy at most, seen or not, and one load.
LEMMA StageKept ==
    ASSUME Inv, UNCHANGED <<engine, stage>>, session' \in {session, stage}
    PROVE  /\ ~Transactional' => session' = stage'
           /\ \A t \in Cut : Len(session'[t].from) <= 1 /\ Len(stage'[t].from) <= 1
           /\ ReadersSeeOneLoad'
  BY DEF Inv, LoadInvariant, Transactional, ReadersSeeOneLoad

LEMMA ExportTableKeeps ==
    ASSUME Inv, ExportTable
    PROVE  Inv'
  <1> DEFINE h == Head(job.todo)
  <1>1. /\ job.step = "cut" /\ job.todo # << >> /\ run.task = "export"
        /\ h \in Cut /\ Tail(job.todo) \in Seq(Cut)
    BY HeadAndTail, Shapes DEF Inv, ShapeInvariant, ExportTable, JobType, TaskOf, Steps, Passed
  <1>2. UNCHANGED <<lake, stage, session, put, gold, runs, faults>>
    BY DEF ExportTable
  <1>3. CASE silver[h] = 0
    <2>1. Fail("data") /\ cut' = cut
      BY <1>3 DEF ExportTable
    <2>2. run.floor[h] = 0
      BY <1>1, <1>3, Shapes
    <2> QED
      BY <1>1, <1>2, <2>1, <2>2, FailKeeps
  <1>4. CASE silver[h] # 0
    <2>1. /\ cut' = [cut EXCEPT ![h] = [version |-> silver[h], export |-> runs]]
          /\ job' = [job EXCEPT !.todo = Tail(@)]
          /\ run' = run
      BY <1>4 DEF ExportTable
    <2> HIDE DEF h
    <2>2. silver[h] \in Versioned /\ silver[h] \in Nat /\ run.floor[h] <= silver[h]
      BY <1>1, Shapes
    <2>3. [version |-> silver[h], export |-> runs] \in Parquets
      BY <2>2, Shapes DEF Parquets, Versioned
    <2>4. cut' \in [Cut -> Parquets]
      BY <2>1, <2>3, Shapes
    <2>5. \A t \in Cut : cut'[t] = IF t = h THEN [version |-> silver[h], export |-> runs]
                                            ELSE cut[t]
      BY <2>1, Shapes
    <2>6. job' \in JobType /\ job'.step = "cut" /\ job'.todo = Tail(job.todo)
      BY <1>1, <2>1, Shapes DEF JobType
    <2>7. \A t \in Cut : cut'[t].version <= silver[t]
      BY <2>2, <2>5, Shapes
    <2>8. ExportInvariant'
      <3>1. ASSUME NEW t \in Cut, Passed(t)'
            PROVE  Exported(t)'
        <4>1. Passed(t) \/ t = h
          BY <1>1, <2>6, <3>1, PassedNext, Shapes DEF h
        <4>2. CASE t = h
          BY <1>2, <1>4, <2>1, <2>2, <2>5, <4>2 DEF Exported
        <4>3. CASE t # h
          <5>1. Exported(t)
            BY <1>1, <4>1, <4>3 DEF Inv, ExportInvariant
          <5> QED
            BY <1>2, <2>1, <2>5, <4>3, <5>1 DEF Exported
        <4> QED
          BY <4>2, <4>3
      <3> QED
        BY <1>1, <2>1, <2>6, <3>1 DEF ExportInvariant
    <2>9. LoadInvariant'
      BY <1>1, <1>2, <2>1, <2>6, StageKept DEF LoadInvariant, Loading, lake, setting
    <2> QED
      BY <1>1, <1>2, <2>1, <2>4, <2>6, <2>7, <2>8, <2>9, StepKeeps, Shapes
         DEF TaskOf, Steps
  <1> QED
    BY <1>3, <1>4

LEMMA EndExportKeeps ==
    ASSUME Inv, EndExport
    PROVE  Inv'
  <1>1. job.step = "cut" /\ job.todo = << >> /\ run.task = "export"
    BY DEF Inv, ShapeInvariant, EndExport, TaskOf, Steps
  <1>2. \A t \in Cut : Exported(t)
    BY <1>1, EmptyRange DEF Inv, ExportInvariant, Passed
  <1> QED
    BY <1>1, <1>2, SucceedKeeps DEF EndExport

LEMMA BeginLoadKeeps ==
    ASSUME Inv, BeginLoad
    PROVE  Inv'
  <1> DEFINE expected == [t \in Cut |-> RowCount[cut[t].version]]
  <1>1. run.task = "load" /\ session' = stage
        /\ UNCHANGED <<lake, cut, stage, put, gold, runs, faults>>
    BY DEF BeginLoad
  <1>2. \A t \in Cut : Exported(t)
    BY <1>1 DEF Inv, ExportInvariant
  <1>3. ~ \E t \in Cut : cut[t].version = 0
    BY <1>2, Shapes DEF Exported
  <1>4. /\ job' = [NoJob EXCEPT !.step = "recreate", !.todo = SPECS, !.expected = expected]
        /\ run' = run
    BY <1>3 DEF BeginLoad
  <1>5. \A t \in Cut : cut[t].version \in 1..Versions
    BY <1>3, Shapes DEF Versioned
  <1>6. expected \in [Cut -> Nat]
    BY <1>5, CutAssumption
  <1> HIDE DEF expected
  <1>7. job' \in JobType /\ job'.step = "recreate" /\ job'.todo = SPECS /\ job'.expected = expected
    BY <1>4, <1>6, CutFacts DEF JobType, NoJob, Steps
  <1>8. ExportInvariant'
    BY <1>1, <1>2, <1>4, <1>7 DEF ExportInvariant, Exported
  <1>9. LoadInvariant'
    <2>1. \A t \in Cut : ~Passed(t)'
      BY <1>7, CutFacts DEF Passed
    <2>2. expected = [t \in Cut |-> RowCount[cut[t].version]]'
      BY <1>1 DEF expected
    <2> QED
      BY <1>1, <1>4, <1>7, <2>1, <2>2, StageKept DEF LoadInvariant, Loading, lake, setting
  <1> QED
    BY <1>1, <1>4, <1>7, <1>8, <1>9, StepKeeps, Shapes DEF TaskOf, Steps

-----------------------------------------------------------------------------
(* The statements of the loader.                                           *)

\* What holds at every statement of a load.
LEMMA LoadFacts ==
    ASSUME Inv, job.step \in Loading \union {"verify"}
    PROVE  /\ run.task = "load"
           /\ \A t \in Cut : /\ Exported(t)
                             /\ cut[t].version \in 1..Versions
                             /\ silver[t] \in 1..Versions
                             /\ cut[t].version <= silver[t]
           /\ job.expected = [t \in Cut |-> RowCount[cut[t].version]]
           /\ job.todo # << >> =>
                /\ Head(job.todo) \in Cut
                /\ Tail(job.todo) \in Seq(Cut)
                /\ ~Passed(Head(job.todo))
  <1>1. run.task = "load"
    BY DEF Inv, ShapeInvariant, TaskOf, Steps, Loading
  <1>2. \A t \in Cut : Exported(t)
    BY <1>1 DEF Inv, ExportInvariant
  <1>3. \A t \in Cut : /\ cut[t].version \in 1..Versions
                       /\ silver[t] \in 1..Versions
                       /\ cut[t].version <= silver[t]
    BY <1>2, Shapes DEF Exported, Versioned
  <1>4. job.todo # << >> =>
          /\ Head(job.todo) \in Cut
          /\ Tail(job.todo) \in Seq(Cut)
          /\ Head(job.todo) \in Range(job.todo)
    BY HeadAndTail, Shapes DEF JobType
  <1> QED
    BY <1>1, <1>2, <1>3, <1>4 DEF Inv, LoadInvariant, Passed

\* Of what a session does, readers see all or nothing.
LEMMA InSessionKeeps ==
    ASSUME Inv, NEW staged \in [Cut -> Tables], InSession(staged), engine' = engine,
           \A t \in Cut : Len(staged[t].from) <= 1
    PROVE  /\ session' = staged
           /\ session' \in [Cut -> Tables] /\ stage' \in [Cut -> Tables]
           /\ ~Transactional' => session' = stage'
           /\ \A t \in Cut : Len(session'[t].from) <= 1 /\ Len(stage'[t].from) <= 1
           /\ ReadersSeeOneLoad'
  <1>1. CASE Transactional
    BY <1>1, Shapes DEF InSession, Inv, LoadInvariant, Transactional, ReadersSeeOneLoad
  <1>2. CASE ~Transactional
    BY <1>2, Shapes DEF InSession, Inv, LoadInvariant, Transactional, ReadersSeeOneLoad
  <1> QED
    BY <1>1, <1>2

LEMMA RecreateTableKeeps ==
    ASSUME Inv, RecreateTable
    PROVE  Inv'
  <1> DEFINE h == Head(job.todo)
             staged == [session EXCEPT ![h] = Recreated(h)]
  <1>1. job.step = "recreate" /\ job.todo # << >>
    BY DEF RecreateTable
  <1>2. /\ run.task = "load" /\ h \in Cut /\ ~Passed(h)
        /\ \A t \in Cut : Exported(t)
        /\ cut[h].version \in 1..Versions /\ silver[h] \in 1..Versions
        /\ cut[h].version <= silver[h]
        /\ job.expected = [t \in Cut |-> RowCount[cut[t].version]]
    BY <1>1, LoadFacts DEF Loading
  <1>3. /\ InSession(staged)
        /\ job' = [job EXCEPT !.step = IF Transactional THEN "copy" ELSE "put"]
        /\ UNCHANGED <<lake, cut, put, gold, run, runs, faults>>
    BY DEF RecreateTable
  <1> HIDE DEF h
  <1>4. 0 \in 0..MaxRuns
    BY Shapes
  <1>5. Recreated(h) \in Tables
    BY <1>2, <1>4, NoTableShape, TableShape DEF Recreated
  <1>6. Recreated(h).from = << >> /\ Recreated(h).columns = Columns[silver[h]]
    BY DEF Recreated, NoTable
  <1>7. staged \in [Cut -> Tables]
    BY <1>5, Shapes
  <1>8. \A t \in Cut : staged[t] = IF t = h THEN Recreated(h) ELSE session[t]
    BY <1>2, Shapes
  <1>9. \A t \in Cut : Len(staged[t].from) <= 1
    BY <1>6, <1>8 DEF Inv, LoadInvariant
  <1> HIDE DEF staged
  <1>10. /\ session' = staged
         /\ session' \in [Cut -> Tables] /\ stage' \in [Cut -> Tables]
         /\ ~Transactional' => session' = stage'
         /\ \A t \in Cut : Len(session'[t].from) <= 1 /\ Len(stage'[t].from) <= 1
         /\ ReadersSeeOneLoad'
    BY <1>3, <1>7, <1>9, InSessionKeeps DEF lake, setting
  <1>11. /\ job' \in JobType
         /\ job'.step = (IF Transactional THEN "copy" ELSE "put")
         /\ job'.todo = job.todo /\ job'.expected = job.expected
    BY <1>3, Shapes DEF JobType, Steps
  <1>12. LoadInvariant'
    <2>1. ASSUME NEW t \in Cut, Passed(t)'
          PROVE  IsLoaded(t, session)'
      <3>1. Passed(t) /\ t # h
        BY <1>2, <1>11, <2>1 DEF Passed
      <3>2. IsLoaded(t, session)
        BY <1>1, <3>1 DEF Inv, LoadInvariant, Loading
      <3> QED
        BY <1>3, <1>8, <1>10, <3>1, <3>2 DEF IsLoaded
    <2>2. /\ session'[h].from = << >>
          /\ \E v \in cut'[h].version .. silver'[h] : session'[h].columns = Columns[v]
      <3>1. session'[h].from = << >> /\ session'[h].columns = Columns[silver[h]]
        BY <1>2, <1>6, <1>8, <1>10
      <3>2. silver[h] \in cut[h].version .. silver[h]
        BY <1>2
      <3>3. cut' = cut /\ silver' = silver
        BY <1>3 DEF lake
      <3> QED
        BY <3>1, <3>2, <3>3
    <2>3. Empty(Head(job.todo))'
      <3>1. Head(job'.todo) = h
        BY <1>11 DEF h
      <3> QED
        BY <2>2, <3>1 DEF Empty
    <2>4. (job.expected = [t \in Cut |-> RowCount[cut[t].version]])'
      BY <1>2, <1>3, <1>11
    <2>5. Transactional' = Transactional
      BY <1>3 DEF Transactional, lake, setting
    <2> QED
      BY <1>2, <1>3, <1>10, <1>11, <2>1, <2>3, <2>4, <2>5 DEF LoadInvariant, Loading
  <1>13. ExportInvariant'
    BY <1>2, <1>3, <1>11 DEF ExportInvariant, Exported
  <1>14. run.task = TaskOf[job'.step]
    BY <1>2, <1>11 DEF TaskOf, Steps
  <1> QED
    BY <1>1, <1>2, <1>3, <1>10, <1>11, <1>12, <1>13, <1>14, StepKeeps, Shapes

LEMMA PutTableKeeps ==
    ASSUME Inv, PutTable
    PROVE  Inv'
  <1> DEFINE h == Head(job.todo)
  <1>1. job.step = "put" /\ job.todo # << >> /\ ~Transactional
    BY DEF PutTable, Inv, ShapeInvariant, LoadInvariant
  <1>2. /\ run.task = "load" /\ h \in Cut
        /\ \A t \in Cut : Exported(t)
        /\ cut[h].version \in Versioned
        /\ job.expected = [t \in Cut |-> RowCount[cut[t].version]]
    BY <1>1, LoadFacts, Shapes DEF Loading
  <1>3. /\ put' = [put EXCEPT ![h] = cut[h].version]
        /\ job' = [job EXCEPT !.step = "copy"]
        /\ UNCHANGED <<lake, cut, stage, session, gold, run, runs, faults>>
    BY DEF PutTable, PutFile
  <1>4. Empty(h)
    BY <1>1 DEF Inv, LoadInvariant
  <1>5. job' \in JobType /\ job'.step = "copy" /\ job'.todo = job.todo
        /\ job'.expected = job.expected
    BY <1>3, Shapes DEF JobType, Steps
  <1>6. Head(job'.todo) = h
    BY <1>5
  <1> HIDE DEF h
  <1>7. put' \in [Cut -> Versioned] /\ put'[h] = cut[h].version
    BY <1>2, <1>3, Shapes
  <1>8. LoadInvariant'
    <2>1. ASSUME NEW t \in Cut, Passed(t)'
          PROVE  IsLoaded(t, session)'
      <3>1. Passed(t)
        BY <1>5, <2>1 DEF Passed
      <3>2. IsLoaded(t, session)
        BY <1>1, <3>1 DEF Inv, LoadInvariant, Loading
      <3> QED
        BY <1>3, <3>2 DEF IsLoaded
    <2>2. Empty(Head(job.todo))'
      BY <1>3, <1>4, <1>6 DEF Empty, lake
    <2>3. (job.expected = [t \in Cut |-> RowCount[cut[t].version]])'
      BY <1>2, <1>3, <1>5
    <2>4. put'[Head(job'.todo)] = cut'[Head(job'.todo)].version
      BY <1>3, <1>6, <1>7
    <2>5. /\ ~Transactional' => session' = stage'
          /\ \A t \in Cut : Len(session'[t].from) <= 1 /\ Len(stage'[t].from) <= 1
          /\ ReadersSeeOneLoad'
      BY <1>3, StageKept DEF lake, setting
    <2> QED
      BY <1>2, <1>3, <1>5, <2>1, <2>2, <2>3, <2>4, <2>5 DEF LoadInvariant, Loading
  <1>9. ExportInvariant'
    BY <1>2, <1>3, <1>5 DEF ExportInvariant, Exported
  <1>10. run.task = TaskOf[job'.step]
    BY <1>2, <1>5 DEF TaskOf, Steps
  <1> QED
    BY <1>1, <1>2, <1>3, <1>5, <1>7, <1>8, <1>9, <1>10, StepKeeps, Shapes

LEMMA CopyTableKeeps ==
    ASSUME Inv, CopyTable
    PROVE  Inv'
  <1> DEFINE h == Head(job.todo)
             taken == IF Transactional THEN cut[h].version ELSE put[h]
             copied == [session[h] EXCEPT !.from = Append(@, taken), !.export = cut[h].export]
             staged == [session EXCEPT ![h] = copied]
             lacks == Transactional /\ ~(session[h].columns \subseteq Columns[taken])
  <1>1. job.step = "copy" /\ job.todo # << >>
    BY DEF CopyTable, Inv, ShapeInvariant
  <1>2. /\ run.task = "load" /\ h \in Cut /\ Tail(job.todo) \in Seq(Cut)
        /\ \A t \in Cut : Exported(t)
        /\ cut[h].version \in 1..Versions /\ silver[h] \in 1..Versions
        /\ job.expected = [t \in Cut |-> RowCount[cut[t].version]]
    BY <1>1, LoadFacts DEF Loading
  <1>3. /\ session[h].from = << >>
        /\ \E v \in cut[h].version .. silver[h] : session[h].columns = Columns[v]
    BY <1>1 DEF Inv, LoadInvariant, Empty
  <1>4. taken = cut[h].version
    BY <1>1 DEF Inv, LoadInvariant
  <1>5. cut[h].export = runs /\ cut[h].version >= run.floor[h]
    BY <1>2 DEF Exported
  <1>6. CASE lacks
    <2>1. /\ Fail("data") /\ InSession(stage)
          /\ UNCHANGED <<lake, cut, put, gold, runs, faults>>
      BY <1>6 DEF CopyTable
    <2>2. session' = stage /\ stage' = stage
      BY <2>1 DEF InSession
    <2>3. silver # run.floor
      <3> SUFFICES ASSUME silver = run.floor
                   PROVE  FALSE
        OBVIOUS
      <3>1. PICK v \in cut[h].version .. silver[h] : session[h].columns = Columns[v]
        BY <1>3
      <3>2. silver[h] = run.floor[h]
        OBVIOUS
      <3> HIDE DEF h
      <3>3. v = cut[h].version
        BY <1>2, <1>5, <3>1, <3>2
      <3> QED
        BY <1>4, <1>6, <3>1, <3>3 DEF h
    <2> QED
      BY <1>2, <2>1, <2>2, <2>3, FailKeeps
  <1>7. CASE ~lacks
    <2>1. /\ InSession(staged)
          /\ job' = [job EXCEPT !.todo = Tail(@), !.step = "recreate"]
          /\ run' = run
          /\ UNCHANGED <<lake, cut, put, gold, runs, faults>>
      BY <1>7 DEF CopyTable
    <2>2. copied = [session[h] EXCEPT !.from = << cut[h].version >>, !.export = runs]
      <3>1. Append(session[h].from, taken) = << cut[h].version >>
        BY <1>3, <1>4
      <3> HIDE DEF taken, h
      <3> QED
        BY <1>5, <3>1
    <2>3. session[h] \in Tables
      BY <1>2, Shapes
    <2> HIDE DEF copied, h
    <2>4. copied \in Tables
      BY <1>2, <2>2, <2>3, Shapes, TableShape
    <2>5. copied.from = << cut[h].version >> /\ copied.export = runs
      BY <2>2, <2>3 DEF Tables
    <2>6. staged \in [Cut -> Tables]
      BY <2>4, Shapes
    <2>7. \A t \in Cut : staged[t] = IF t = h THEN copied ELSE session[t]
      BY <1>2, Shapes
    <2> HIDE DEF staged
    <2>8. \A t \in Cut : Len(staged[t].from) <= 1
      <3>1. Len(copied.from) <= 1
        BY <2>5
      <3>2. \A t \in Cut : Len(session[t].from) <= 1
        BY DEF Inv, LoadInvariant
      <3> TAKE t \in Cut
      <3>3. CASE t = h
        <4>1. staged[t] = copied
          BY <2>7, <3>3
        <4> QED
          BY <3>1, <4>1, Zenon
      <3>4. CASE t # h
        <4>1. staged[t] = session[t]
          BY <2>7, <3>4
        <4> QED
          BY <3>2, <4>1
      <3> QED
        BY <3>3, <3>4
    <2>9. /\ session' = staged
          /\ session' \in [Cut -> Tables] /\ stage' \in [Cut -> Tables]
          /\ ~Transactional' => session' = stage'
          /\ \A t \in Cut : Len(session'[t].from) <= 1 /\ Len(stage'[t].from) <= 1
          /\ ReadersSeeOneLoad'
      BY <2>1, <2>6, <2>8, InSessionKeeps DEF lake, setting
    <2>10. /\ job' \in JobType /\ job'.step = "recreate" /\ job'.todo = Tail(job.todo)
           /\ job'.expected = job.expected
      BY <1>2, <2>1, Shapes DEF JobType, Steps
    <2>11. LoadInvariant'
      <3>1. ASSUME NEW t \in Cut, Passed(t)'
            PROVE  IsLoaded(t, session)'
        <4>1. Passed(t) \/ t = h
          BY <1>1, <2>10, <3>1, PassedNext, Shapes DEF h
        <4>2. CASE t = h
          BY <2>1, <2>5, <2>7, <2>9, <4>2 DEF IsLoaded
        <4>3. CASE t # h
          <5>1. IsLoaded(t, session)
            BY <1>1, <4>1, <4>3 DEF Inv, LoadInvariant, Loading
          <5> QED
            BY <2>1, <2>7, <2>9, <4>3, <5>1 DEF IsLoaded
        <4> QED
          BY <4>2, <4>3
      <3>2. (job.expected = [t \in Cut |-> RowCount[cut[t].version]])'
        BY <1>2, <2>1, <2>10
      <3> QED
        BY <1>2, <2>1, <2>9, <2>10, <3>1, <3>2 DEF LoadInvariant, Loading
    <2>12. ExportInvariant'
      BY <1>2, <2>1, <2>10 DEF ExportInvariant, Exported
    <2>13. run.task = TaskOf[job'.step]
      BY <1>2, <2>10 DEF TaskOf, Steps
    <2> QED
      BY <1>2, <2>1, <2>9, <2>10, <2>11, <2>12, <2>13, StepKeeps, Shapes
  <1> QED
    BY <1>6, <1>7

LEMMA CommitKeeps ==
    ASSUME Inv, Commit
    PROVE  Inv'
  <1>1. job.step = "recreate" /\ job.todo = << >>
    BY DEF Commit
  <1>2. /\ run.task = "load"
        /\ \A t \in Cut : Exported(t)
        /\ job.expected = [t \in Cut |-> RowCount[cut[t].version]]
    BY <1>1, LoadFacts DEF Loading
  <1>3. /\ job' = [job EXCEPT !.step = "verify"] /\ stage' = session
        /\ UNCHANGED <<lake, cut, session, put, gold, run, runs, faults>>
    BY DEF Commit
  <1>4. \A t \in Cut : IsLoaded(t, session)
    BY <1>1, EmptyRange DEF Inv, LoadInvariant, Loading, Passed
  <1>5. job' \in JobType /\ job'.step = "verify" /\ job'.expected = job.expected
    BY <1>3, Shapes DEF JobType, Steps
  <1>6. LoadInvariant'
    <2>1. \A t \in Cut : IsLoaded(t, stage)'
      BY <1>3, <1>4 DEF IsLoaded
    <2>2. ReadersSeeOneLoad'
      BY <2>1 DEF ReadersSeeOneLoad, IsLoaded
    <2>3. (job.expected = [t \in Cut |-> RowCount[cut[t].version]])'
      BY <1>2, <1>3, <1>5
    <2>4. \A t \in Cut : Len(session'[t].from) <= 1 /\ Len(stage'[t].from) <= 1
      BY <1>3 DEF Inv, LoadInvariant
    <2> QED
      BY <1>2, <1>3, <1>5, <2>1, <2>2, <2>3, <2>4 DEF LoadInvariant, Loading
  <1>7. ExportInvariant'
    BY <1>2, <1>3, <1>5 DEF ExportInvariant, Exported
  <1>8. run.task = TaskOf[job'.step]
    BY <1>2, <1>5 DEF TaskOf, Steps
  <1> QED
    BY <1>2, <1>3, <1>5, <1>6, <1>7, <1>8, StepKeeps, Shapes

\* What was loaded has as many rows as was expected: the count never fails.
LEMMA VerifyLoadKeeps ==
    ASSUME Inv, VerifyLoad
    PROVE  Inv'
  <1>1. job.step = "verify"
    BY DEF VerifyLoad
  <1>2. \A t \in Cut : IsLoaded(t, stage)
    BY <1>1 DEF Inv, LoadInvariant
  <1>3. Recounted
    <2> SUFFICES ASSUME NEW t \in Cut
                 PROVE  Rows(stage[t]) = job.expected[t]
      BY DEF Recounted
    <2>1. cut[t].version \in 1..Versions /\ job.expected[t] = RowCount[cut[t].version]
      BY <1>1, LoadFacts
    <2>2. stage[t].from = << cut[t].version >>
      BY <1>2 DEF IsLoaded
    <2> QED
      BY <2>1, <2>2, RowsOfOneCopy
  <1>4. run.task = "load"
    BY <1>1, LoadFacts
  <1> QED
    BY <1>2, <1>3, <1>4, SucceedKeeps DEF VerifyLoad

-----------------------------------------------------------------------------
(* The build of GOLD.                                                      *)

LEMMA BeginBuildKeeps ==
    ASSUME Inv, BeginBuild
    PROVE  Inv'
  <1>1. /\ run.task = "build"
        /\ job' = [NoJob EXCEPT !.step = "gold", !.todo = SPECS]
        /\ UNCHANGED <<lake, warehouse, run, runs, faults>>
    BY DEF BeginBuild
  <1>2. job' \in JobType /\ job'.step = "gold" /\ job'.todo = SPECS
    BY <1>1, NoJobShape, CutFacts DEF JobType, NoJob, Steps
  <1>3. ExportInvariant'
    BY <1>1, <1>2 DEF warehouse, Inv, ExportInvariant, Exported
  <1>4. \A t \in Cut : IsLoaded(t, stage)'
    BY <1>1 DEF warehouse, Inv, LoadInvariant, IsLoaded
  <1>5. LoadInvariant'
    BY <1>1, <1>2, <1>4, StageKept DEF warehouse, lake, setting, LoadInvariant, Loading
  <1>6. \A t \in Cut : ~Passed(t)'
    BY <1>2, CutFacts DEF Passed
  <1>7. run.task = TaskOf[job'.step]
    BY <1>1, <1>2 DEF TaskOf, Steps
  <1> QED
    BY <1>1, <1>2, <1>3, <1>5, <1>6, <1>7, StepKeeps, Shapes DEF warehouse

LEMMA BuildGoldKeeps ==
    ASSUME Inv, BuildGold
    PROVE  Inv'
  <1> DEFINE h == Head(job.todo)
             model == [version |-> Last(stage[h].from), export |-> stage[h].export]
  <1>1. /\ job.step \in {"gold", "red"} /\ job.todo # << >> /\ run.task = "build"
        /\ h \in Cut /\ Tail(job.todo) \in Seq(Cut)
    BY HeadAndTail, Shapes DEF Inv, ShapeInvariant, BuildGold, JobType, TaskOf, Steps
  <1>2. /\ gold' = [gold EXCEPT ![h] = model] \/ (job.step = "red" /\ gold' = gold)
        /\ UNCHANGED <<lake, cut, stage, session, put, run, runs, faults>>
    BY DEF BuildGold, Refresh
  <1>2a. PICK step \in {job.step, "red"} : job' = [job EXCEPT !.step = step, !.todo = Tail(@)]
    BY DEF BuildGold
  <1>3. stage[h].from = << cut[h].version >> /\ stage[h].export = runs
    BY <1>1 DEF Inv, LoadInvariant, IsLoaded
  <1>4. Last(stage[h].from) = cut[h].version
    BY <1>3 DEF Last
  <1> HIDE DEF h
  <1>5. model = [version |-> cut[h].version, export |-> runs]
    BY <1>3, <1>4
  <1> HIDE DEF model
  <1>6. model \in Parquets
    BY <1>1, <1>5, Shapes DEF Parquets, Versioned
  <1>7. /\ gold' \in [Cut -> Parquets]
        /\ job.step = "gold" => \A t \in Cut : gold'[t] = IF t = h THEN model ELSE gold[t]
    BY <1>2, <1>6, Shapes
  <1>8. /\ job' \in JobType /\ job'.step \in {"gold", "red"} /\ job'.todo = Tail(job.todo)
        /\ job'.step = "gold" => job.step = "gold"
    BY <1>1, <1>2a, Shapes DEF JobType, Steps
  <1>9. ASSUME job'.step = "gold", NEW t \in Cut, Passed(t)'
        PROVE  Refreshed(t)'
    <2>0. job.step = "gold" /\ gold'[t] = IF t = h THEN model ELSE gold[t]
      BY <1>7, <1>8, <1>9
    <2>1. Passed(t) \/ t = h
      BY <1>1, <1>8, <1>9, PassedNext, Shapes DEF h
    <2>2. CASE t = h
      BY <1>2, <1>5, <2>0, <2>2 DEF Refreshed
    <2>3. CASE t # h
      <3>1. Refreshed(t)
        BY <2>0, <2>1, <2>3 DEF Inv, BuildInvariant
      <3> QED
        BY <1>2, <2>0, <2>3, <3>1 DEF Refreshed
    <2> QED
      BY <2>2, <2>3
  <1>10. ExportInvariant'
    BY <1>1, <1>2, <1>8 DEF Inv, ExportInvariant, Exported
  <1>11. \A t \in Cut : IsLoaded(t, stage)'
    BY <1>1, <1>2 DEF Inv, LoadInvariant, IsLoaded
  <1>12. LoadInvariant'
    BY <1>1, <1>2, <1>8, <1>11, StageKept DEF lake, setting, LoadInvariant, Loading
  <1>13. run.task = TaskOf[job'.step]
    BY <1>1, <1>8 DEF TaskOf, Steps
  <1> QED
    BY <1>1, <1>2, <1>7, <1>8, <1>9, <1>10, <1>12, <1>13, StepKeeps, Shapes

\* Nothing was skipped in a build without a red test.
LEMMA EndBuildKeeps ==
    ASSUME Inv, EndBuild
    PROVE  Inv'
  <1>1. job.step \in {"gold", "red"} /\ job.todo = << >> /\ run.task = "build"
    BY DEF Inv, ShapeInvariant, EndBuild, TaskOf, Steps
  <1>2. CASE job.step = "gold"
    <2>1. \A t \in Cut : Refreshed(t)
      BY <1>1, <1>2, EmptyRange DEF Inv, BuildInvariant, Passed
    <2> QED
      BY <1>1, <1>2, <2>1, SucceedKeeps DEF EndBuild
  <1>3. CASE job.step # "gold"
    <2>1. Fail("test") /\ UNCHANGED <<lake, warehouse, runs, faults>>
      BY <1>3 DEF EndBuild
    <2> QED
      BY <1>1, <2>1, FailKeeps DEF warehouse
  <1> QED
    BY <1>2, <1>3

-----------------------------------------------------------------------------
LEMMA StutterKeeps ==
    ASSUME Inv, UNCHANGED vars
    PROVE  Inv'
  <1>1. UNCHANGED <<setting, warehouse, dag, faults>> /\ silver' = silver /\ rebuild' = rebuild
    BY DEF vars, setting, warehouse, dag
  <1>2. \A t \in Cut : silver[t] <= silver[t]
    BY Shapes
  <1>3. rebuild \subseteq Cut
    BY DEF Inv, ShapeInvariant, TypeOK
  <1>4. \E t \in Cut : \A u \in Cut : silver[u] <= silver[t]
    BY DEF Inv, SilverInvariant
  <1> QED
    BY <1>1, <1>2, <1>3, <1>4, SilverMoves, Shapes

LEMMA NextKeeps ==
    ASSUME Inv, [Next]_vars
    PROVE  Inv'
  <1>1. CASE Task
    BY <1>1, BeginExportKeeps, ExportTableKeeps, EndExportKeeps, BeginLoadKeeps,
       RecreateTableKeeps, PutTableKeeps, CopyTableKeeps, CommitKeeps, VerifyLoadKeeps,
       BeginBuildKeeps, BuildGoldKeeps, EndBuildKeeps DEF Task
  <1> QED
    BY <1>1, StartSilverKeeps, RebuildTableKeeps, StartRunKeeps, DieKeeps, StutterKeeps
       DEF Next

\* WarehouseLoad: while Silver is rebuilt under it and tries of its tasks die,
\* what a run has exported, loaded and built is what its lists of tables to do no longer
\* name, from parquets not older than the Silver it began with.
THEOREM InvariantHolds == Spec => []Inv
  <1>1. Init => Inv
    BY InitInvariant
  <1>2. Inv /\ [Next]_vars => Inv'
    BY NextKeeps
  <1> QED
    BY <1>1, <1>2, PTL DEF Spec

\* postgres_load.load, snowflake_load.load and the retries of the DAG: however often a load
\* dies and is repeated, no table is doubled and Postgres readers see one load; a green
\* run is of its own export; the export and the load are refused only when Silver lacked
\* a table or moved; two faults do not stop a load.
THEOREM LoadReplaces == Spec => []LoadsReplace
  <1>1. Inv => LoadsReplace
    <2> SUFFICES ASSUME Inv
                 PROVE  LoadsReplace
      OBVIOUS
    <2>1. NoTableIsDoubled /\ ReadersSeeOneLoad
      BY DEF Inv, LoadInvariant, NoTableIsDoubled
    <2> QED
      BY <2>1 DEF Inv, ShapeInvariant, BuildInvariant, FailureInvariant, LoadsReplace
  <1> QED
    BY <1>1, InvariantHolds, PTL

-----------------------------------------------------------------------------
(* The roles: the statements of the bootstraps.                            *)

Kinds == {"schema", "role", "compute", "usage", "create", "tables", "future", "default",
          "ownership"}

\* Statements of a bootstrap: none lets a role into a schema it is denied, and
\* a schema is given to the role that writes in it.
Statement ==
    {st \in [kind : Kinds, schema : SCHEMAS \union {""}, role : ROLES \union {""}] :
        /\ st.kind \notin {"role", "compute"} => st.schema \in SCHEMAS
        /\ st.kind # "schema" => st.role \in ROLES
        /\ st.kind = "usage" => st.schema \notin ISOLATION_MATRIX[st.role].deny
        /\ st.kind = "ownership" => st.role = WriterOf(st.schema)}

LEMMA MatrixFacts ==
    /\ ISOLATION_MATRIX["loader"].allow = {"STAGE"}
    /\ ISOLATION_MATRIX["transformer"].allow = {"STAGE", "GOLD"}
    /\ ISOLATION_MATRIX["reader"].allow = {"MART"}
    /\ ISOLATION_MATRIX["loader"].deny = {"GOLD", "MART"}
    /\ ISOLATION_MATRIX["transformer"].deny = {}
    /\ ISOLATION_MATRIX["reader"].deny = {"STAGE", "GOLD"}
  BY DEF ISOLATION_MATRIX

LEMMA StatementFacts ==
    /\ \A s \in SCHEMAS : Run("schema", s, "") \in Statement
    /\ \A r \in ROLES : Run("role", "", r) \in Statement /\ Run("compute", "", r) \in Statement
    /\ \A s \in SCHEMAS, r \in ROLES :
         /\ Run("create", s, r) \in Statement /\ Run("tables", s, r) \in Statement
         /\ Run("future", s, r) \in Statement /\ Run("default", s, r) \in Statement
         /\ s \notin ISOLATION_MATRIX[r].deny => Run("usage", s, r) \in Statement
    /\ \A s \in SCHEMAS : Run("ownership", s, WriterOf(s)) \in Statement
  <1>1. \A s \in SCHEMAS : Run("schema", s, "") \in Statement
    BY DEF Run, Statement, Kinds
  <1>2. \A r \in ROLES : Run("role", "", r) \in Statement /\ Run("compute", "", r) \in Statement
    BY DEF Run, Statement, Kinds
  <1>3. \A s \in SCHEMAS, r \in ROLES :
         /\ Run("create", s, r) \in Statement /\ Run("tables", s, r) \in Statement
         /\ Run("future", s, r) \in Statement /\ Run("default", s, r) \in Statement
         /\ s \notin ISOLATION_MATRIX[r].deny => Run("usage", s, r) \in Statement
    BY DEF Run, Statement, Kinds
  <1>4. \A s \in SCHEMAS : Run("ownership", s, WriterOf(s)) \in Statement
    BY DEF Run, Statement, Kinds, WriterOf, SCHEMAS, ROLES
  <1> QED
    BY <1>1, <1>2, <1>3, <1>4

LEMMA ConcatFacts ==
    ASSUME NEW S, NEW s \in Seq(S), NEW t \in Seq(S)
    PROVE  s \o t \in Seq(S) /\ Range(s \o t) = Range(s) \union Range(t)
  <1>1. s \o t \in Seq(S) /\ Len(s \o t) = Len(s) + Len(t)
    OBVIOUS
  <1>2. \A i \in 1 .. Len(s) : (s \o t)[i] = s[i]
    OBVIOUS
  <1>3. \A i \in 1 .. Len(t) : (s \o t)[Len(s) + i] = t[i]
    OBVIOUS
  <1>4. \A i \in 1 .. Len(s) + Len(t) : i \in 1 .. Len(s) \/ i - Len(s) \in 1 .. Len(t)
    OBVIOUS
  <1>5. \A i \in 1 .. Len(t) : Len(s) + i \in 1 .. Len(s) + Len(t)
    OBVIOUS
  <1>6. \A x \in Range(s) \union Range(t) : x \in Range(s \o t)
    <2>1. ASSUME NEW i \in 1 .. Len(s)
          PROVE  s[i] \in Range(s \o t)
      <3>1. i \in DOMAIN (s \o t) /\ (s \o t)[i] = s[i]
        BY <1>1, <1>2
      <3> QED
        BY <3>1, Zenon DEF Range
    <2>2. ASSUME NEW i \in 1 .. Len(t)
          PROVE  t[i] \in Range(s \o t)
      <3>1. Len(s) + i \in DOMAIN (s \o t) /\ (s \o t)[Len(s) + i] = t[i]
        BY <1>1, <1>3, <1>5
      <3> QED
        BY <3>1, Zenon DEF Range
    <2>3. DOMAIN s = 1 .. Len(s) /\ DOMAIN t = 1 .. Len(t)
      OBVIOUS
    <2> QED
      BY <2>1, <2>2, <2>3 DEF Range
  <1>7. \A x \in Range(s \o t) : x \in Range(s) \union Range(t)
    BY <1>1, <1>2, <1>3, <1>4 DEF Range
  <1> QED
    BY <1>1, <1>6, <1>7

LEMMA RangeOf2 ==
    ASSUME NEW S, NEW a \in S, NEW b \in S
    PROVE  << a, b >> \in Seq(S) /\ Range(<< a, b >>) = {a, b}
  BY DEF Range
LEMMA RangeOf3 ==
    ASSUME NEW S, NEW a \in S, NEW b \in S, NEW c \in S
    PROVE  << a, b, c >> \in Seq(S) /\ Range(<< a, b, c >>) = {a, b, c}
  BY DEF Range
LEMMA InfrastructureStatements ==
    /\ Infrastructure \in Seq(Statement)
    /\ Range(Infrastructure)
         = {Run("schema", "STAGE", ""), Run("schema", "GOLD", ""),
            Run("schema", "MART", ""), Run("role", "", "loader"),
            Run("role", "", "transformer"), Run("role", "", "reader")}
  <1>1. /\ Run("schema", "STAGE", "") \in Statement /\ Run("schema", "GOLD", "") \in Statement
        /\ Run("schema", "MART", "") \in Statement /\ Run("role", "", "loader") \in Statement
        /\ Run("role", "", "transformer") \in Statement
        /\ Run("role", "", "reader") \in Statement
    BY StatementFacts DEF SCHEMAS, ROLES
  <1>2. DOMAIN Infrastructure = 1 .. 6
    BY DEF Infrastructure
  <1>3. /\ Infrastructure[1] = Run("schema", "STAGE", "")
        /\ Infrastructure[2] = Run("schema", "GOLD", "")
        /\ Infrastructure[3] = Run("schema", "MART", "")
        /\ Infrastructure[4] = Run("role", "", "loader")
        /\ Infrastructure[5] = Run("role", "", "transformer")
        /\ Infrastructure[6] = Run("role", "", "reader")
    BY DEF Infrastructure
  <1>4. Infrastructure = [i \in 1 .. 6 |-> Infrastructure[i]]
    BY DEF Infrastructure
  <1>5. \A i : i \in 1 .. 6 <=> i = 1 \/ i = 2 \/ i = 3 \/ i = 4 \/ i = 5 \/ i = 6
    OBVIOUS
  <1>6. \A i \in 1 .. 6 : Infrastructure[i] \in Statement
    BY <1>1, <1>3, <1>5, Zenon
  <1>7. Infrastructure \in Seq(Statement)
    BY <1>2, <1>4, <1>6
  <1>8. Range(Infrastructure) = {Infrastructure[i] : i \in 1 .. 6}
    BY <1>2, Zenon DEF Range
  <1>9. \A x : x \in Range(Infrastructure) <=>
          \/ x = Infrastructure[1] \/ x = Infrastructure[2] \/ x = Infrastructure[3]
          \/ x = Infrastructure[4] \/ x = Infrastructure[5] \/ x = Infrastructure[6]
    BY <1>5, <1>8
  <1> QED
    BY <1>3, <1>7, <1>9

LEMMA SnowflakeStatements ==
    /\ SnowflakeBootstrap \in Seq(Statement)
    /\ SnowflakeBootstrap # << >>
    /\ \A s \in SCHEMAS :
         {Run("schema", s, ""), Run("create", s, WriterOf(s)), Run("usage", s, WriterOf(s)),
          Run("ownership", s, WriterOf(s))} \subseteq Range(SnowflakeBootstrap)
    /\ \A r \in ROLES :
         {Run("role", "", r), Run("compute", "", r)} \subseteq Range(SnowflakeBootstrap)
    /\ \A r \in ROLES : \A s \in ISOLATION_MATRIX[r].allow :
         {Run("usage", s, r), Run("tables", s, r), Run("future", s, r)}
           \subseteq Range(SnowflakeBootstrap)
  <1> DEFINE computes == << Run("compute", "", "loader"), Run("compute", "", "transformer"),
                            Run("compute", "", "reader") >>
             staging == << Run("usage", "STAGE", "loader"), Run("create", "STAGE", "loader"),
                           Run("tables", "STAGE", "loader"), Run("future", "STAGE", "loader"),
                           Run("ownership", "STAGE", "loader") >>
             sources == << Run("usage", "STAGE", "transformer"),
                           Run("tables", "STAGE", "transformer"),
                           Run("future", "STAGE", "transformer") >>
             marts == << Run("usage", "MART", "reader"), Run("tables", "MART", "reader"),
                         Run("future", "MART", "reader") >>
  <1>1. /\ {"STAGE", "GOLD", "MART"} = SCHEMAS /\ {"loader", "transformer", "reader"} = ROLES
        /\ WriterOf("STAGE") = "loader" /\ WriterOf("GOLD") = "transformer"
        /\ WriterOf("MART") = "transformer"
    BY DEF SCHEMAS, ROLES, WriterOf
  <1>2. /\ Infrastructure \in Seq(Statement)
        /\ Range(Infrastructure)
             = {Run("schema", "STAGE", ""), Run("schema", "GOLD", ""),
                Run("schema", "MART", ""), Run("role", "", "loader"),
                Run("role", "", "transformer"), Run("role", "", "reader")}
    BY InfrastructureStatements
  <1>3. /\ computes \in Seq(Statement)
        /\ Range(computes)
             = {Run("compute", "", "loader"), Run("compute", "", "transformer"),
                Run("compute", "", "reader")}
    <2>1. {Run("compute", "", "loader"), Run("compute", "", "transformer"),
               Run("compute", "", "reader")} \subseteq Statement
      BY <1>1, StatementFacts, MatrixFacts
    <2> QED
      BY <2>1, RangeOf3, Zenon DEF computes
  <1>4. /\ staging \in Seq(Statement)
        /\ Range(staging)
             = {Run("usage", "STAGE", "loader"), Run("create", "STAGE", "loader"),
                Run("tables", "STAGE", "loader"), Run("future", "STAGE", "loader"),
                Run("ownership", "STAGE", "loader")}
    <2>1. {Run("usage", "STAGE", "loader"), Run("create", "STAGE", "loader"),
               Run("tables", "STAGE", "loader"), Run("future", "STAGE", "loader"),
               Run("ownership", "STAGE", "loader")} \subseteq Statement
      BY <1>1, StatementFacts, MatrixFacts
    <2> QED
      BY <2>1 DEF Range, staging
  <1>5. /\ sources \in Seq(Statement)
        /\ Range(sources)
             = {Run("usage", "STAGE", "transformer"),
                Run("tables", "STAGE", "transformer"), Run("future", "STAGE", "transformer")}
    <2>1. {Run("usage", "STAGE", "transformer"), Run("tables", "STAGE", "transformer"),
               Run("future", "STAGE", "transformer")} \subseteq Statement
      BY <1>1, StatementFacts, MatrixFacts
    <2> QED
      BY <2>1, RangeOf3, Zenon DEF sources
  <1>6. /\ marts \in Seq(Statement)
        /\ Range(marts)
             = {Run("usage", "MART", "reader"), Run("tables", "MART", "reader"),
                Run("future", "MART", "reader")}
    <2>1. {Run("usage", "MART", "reader"), Run("tables", "MART", "reader"),
               Run("future", "MART", "reader")} \subseteq Statement
      BY <1>1, StatementFacts, MatrixFacts
    <2> QED
      BY <2>1, RangeOf3, Zenon DEF marts
  <1>7. ASSUME NEW layer \in {"GOLD", "MART"}
        PROVE  /\ TransformerOn(layer) \in Seq(Statement)
               /\ Range(TransformerOn(layer))
                    = {Run("usage", layer, "transformer"),
                       Run("create", layer, "transformer"),
                       Run("tables", layer, "transformer"),
                       Run("future", layer, "transformer"),
                       Run("ownership", layer, "transformer")}
    <2>1. {Run("usage", layer, "transformer"), Run("create", layer, "transformer"),
               Run("tables", layer, "transformer"), Run("future", layer, "transformer"),
               Run("ownership", layer, "transformer")} \subseteq Statement
      BY <1>1, StatementFacts, MatrixFacts
    <2> QED
      BY <2>1 DEF Range, TransformerOn
  <1> DEFINE p1 == Infrastructure \o computes
             p2 == p1 \o staging
             p3 == p2 \o sources
             p4 == p3 \o TransformerOn("GOLD")
             p5 == p4 \o TransformerOn("MART")
  <1>8. SnowflakeBootstrap = p5 \o marts
    BY DEF SnowflakeBootstrap
  <1> HIDE DEF computes, staging, sources, marts
  <1>9. /\ SnowflakeBootstrap \in Seq(Statement)
        /\ Range(SnowflakeBootstrap)
             = Range(Infrastructure) \union Range(computes) \union Range(staging)
                 \union Range(sources) \union Range(TransformerOn("GOLD"))
                 \union Range(TransformerOn("MART")) \union Range(marts)
    <2>1. p1 \in Seq(Statement) /\ Range(p1) = Range(Infrastructure) \union Range(computes)
      <3>1. Infrastructure \in Seq(Statement) /\ computes \in Seq(Statement)
        BY <1>2, <1>3
      <3> QED
        BY <3>1, ConcatFacts
    <2> HIDE DEF p1
    <2>2. p2 \in Seq(Statement) /\ Range(p2) = Range(p1) \union Range(staging)
      BY <1>4, <2>1, ConcatFacts
    <2> HIDE DEF p2
    <2>3. p3 \in Seq(Statement) /\ Range(p3) = Range(p2) \union Range(sources)
      BY <1>5, <2>2, ConcatFacts
    <2> HIDE DEF p3
    <2>4. p4 \in Seq(Statement) /\ Range(p4) = Range(p3) \union Range(TransformerOn("GOLD"))
      BY <1>7, <2>3, ConcatFacts
    <2> HIDE DEF p4
    <2>5. p5 \in Seq(Statement) /\ Range(p5) = Range(p4) \union Range(TransformerOn("MART"))
      BY <1>7, <2>4, ConcatFacts
    <2> HIDE DEF p5
    <2>6. /\ p5 \o marts \in Seq(Statement)
          /\ Range(p5 \o marts) = Range(p5) \union Range(marts)
      BY <1>6, <2>5, ConcatFacts
    <2> QED
      BY <1>8, <2>1, <2>2, <2>3, <2>4, <2>5, <2>6
  <1>10. SnowflakeBootstrap # << >>
    <2>1. Range(SnowflakeBootstrap) # {}
      BY <1>2, <1>9
    <2> QED
      BY <2>1 DEF Range
  <1> HIDE DEF p1, p2, p3, p4, p5
  <1>11. \A s \in SCHEMAS :
         {Run("schema", s, ""), Run("create", s, WriterOf(s)), Run("usage", s, WriterOf(s)),
          Run("ownership", s, WriterOf(s))} \subseteq Range(SnowflakeBootstrap)
    BY <1>1, <1>2, <1>4, <1>7, <1>9
  <1>12. \A r \in ROLES :
         {Run("role", "", r), Run("compute", "", r)} \subseteq Range(SnowflakeBootstrap)
    BY <1>1, <1>2, <1>3, <1>9
  <1>13. \A r \in ROLES : \A s \in ISOLATION_MATRIX[r].allow :
         {Run("usage", s, r), Run("tables", s, r), Run("future", s, r)}
           \subseteq Range(SnowflakeBootstrap)
    BY <1>1, <1>4, <1>5, <1>6, <1>7, <1>9, MatrixFacts
  <1> QED
    BY <1>9, <1>10, <1>11, <1>12, <1>13

LEMMA PostgresStatements ==
    /\ PostgresBootstrap \in Seq(Statement)
    /\ \A s \in SCHEMAS :
         {Run("schema", s, ""), Run("create", s, WriterOf(s)), Run("usage", s, WriterOf(s))}
           \subseteq Range(PostgresBootstrap)
    /\ \A r \in ROLES : Run("role", "", r) \in Range(PostgresBootstrap)
    /\ \A r \in ROLES : \A s \in ISOLATION_MATRIX[r].allow :
         /\ Run("usage", s, r) \in Range(PostgresBootstrap)
         /\ r = WriterOf(s) \/ Run("default", s, r) \in Range(PostgresBootstrap)
  <1>1. /\ {"STAGE", "GOLD", "MART"} = SCHEMAS /\ {"loader", "transformer", "reader"} = ROLES
        /\ WriterOf("STAGE") = "loader" /\ WriterOf("GOLD") = "transformer"
        /\ WriterOf("MART") = "transformer"
    BY DEF SCHEMAS, ROLES, WriterOf
  <1>2. ASSUME NEW s \in SCHEMAS, NEW r \in ROLES, s \notin ISOLATION_MATRIX[r].deny
        PROVE  /\ Writes(s, r) \in Seq(Statement)
               /\ Range(Writes(s, r)) = {Run("usage", s, r), Run("create", s, r)}
    <2>1. Run("usage", s, r) \in Statement /\ Run("create", s, r) \in Statement
      BY <1>2, StatementFacts
    <2> QED
      BY <2>1, RangeOf2, Zenon DEF Writes
  <1>3. ASSUME NEW s \in SCHEMAS, NEW r \in ROLES, s \notin ISOLATION_MATRIX[r].deny
        PROVE  /\ Reads(s, r) \in Seq(Statement)
               /\ Range(Reads(s, r)) = {Run("usage", s, r), Run("default", s, r)}
    <2>1. Run("usage", s, r) \in Statement /\ Run("default", s, r) \in Statement
      BY <1>3, StatementFacts
    <2> QED
      BY <2>1, RangeOf2, Zenon DEF Reads
  <1> DEFINE p1 == Infrastructure \o Writes("STAGE", "loader")
             p2 == p1 \o Reads("STAGE", "transformer")
             p3 == p2 \o Writes("GOLD", "transformer")
             p4 == p3 \o Writes("MART", "transformer")
  <1>4. PostgresBootstrap = p4 \o Reads("MART", "reader")
    BY DEF PostgresBootstrap
  <1>5. /\ PostgresBootstrap \in Seq(Statement)
        /\ Range(PostgresBootstrap)
             = Range(Infrastructure) \union Range(Writes("STAGE", "loader"))
                 \union Range(Reads("STAGE", "transformer"))
                 \union Range(Writes("GOLD", "transformer"))
                 \union Range(Writes("MART", "transformer")) \union Range(Reads("MART", "reader"))
    <2>0. /\ "STAGE" \notin ISOLATION_MATRIX["loader"].deny
          /\ \A s \in SCHEMAS : s \notin ISOLATION_MATRIX["transformer"].deny
          /\ "MART" \notin ISOLATION_MATRIX["reader"].deny
      BY MatrixFacts
    <2>1. p1 \in Seq(Statement)
          /\ Range(p1) = Range(Infrastructure) \union Range(Writes("STAGE", "loader"))
      <3>1. Writes("STAGE", "loader") \in Seq(Statement) /\ Infrastructure \in Seq(Statement)
        BY <1>1, <1>2, <2>0, InfrastructureStatements
      <3> QED
        BY <3>1, ConcatFacts
    <2> HIDE DEF p1
    <2>2. p2 \in Seq(Statement) /\ Range(p2) = Range(p1) \union Range(Reads("STAGE", "transformer"))
      <3>1. Reads("STAGE", "transformer") \in Seq(Statement)
        BY <1>1, <1>3, <2>0
      <3> QED
        BY <3>1, <2>1, ConcatFacts
    <2> HIDE DEF p2
    <2>3. p3 \in Seq(Statement) /\ Range(p3) = Range(p2) \union Range(Writes("GOLD", "transformer"))
      <3>1. Writes("GOLD", "transformer") \in Seq(Statement)
        BY <1>1, <1>2, <2>0
      <3> QED
        BY <3>1, <2>2, ConcatFacts
    <2> HIDE DEF p3
    <2>4. p4 \in Seq(Statement) /\ Range(p4) = Range(p3) \union Range(Writes("MART", "transformer"))
      <3>1. Writes("MART", "transformer") \in Seq(Statement)
        BY <1>1, <1>2, <2>0
      <3> QED
        BY <3>1, <2>3, ConcatFacts
    <2> HIDE DEF p4
    <2>5. /\ p4 \o Reads("MART", "reader") \in Seq(Statement)
          /\ Range(p4 \o Reads("MART", "reader")) = Range(p4) \union Range(Reads("MART", "reader"))
      <3>1. Reads("MART", "reader") \in Seq(Statement)
        BY <1>1, <1>3, <2>0
      <3> QED
        BY <3>1, <2>4, ConcatFacts
    <2> QED
      BY <1>4, <2>1, <2>2, <2>3, <2>4, <2>5
  <1>6. /\ Range(Writes("STAGE", "loader"))
             = {Run("usage", "STAGE", "loader"), Run("create", "STAGE", "loader")}
        /\ Range(Reads("STAGE", "transformer"))
             = {Run("usage", "STAGE", "transformer"), Run("default", "STAGE", "transformer")}
        /\ Range(Writes("GOLD", "transformer"))
             = {Run("usage", "GOLD", "transformer"), Run("create", "GOLD", "transformer")}
        /\ Range(Writes("MART", "transformer"))
             = {Run("usage", "MART", "transformer"), Run("create", "MART", "transformer")}
        /\ Range(Reads("MART", "reader"))
             = {Run("usage", "MART", "reader"), Run("default", "MART", "reader")}
    BY <1>1, <1>2, <1>3, MatrixFacts
  <1> HIDE DEF p1, p2, p3, p4
  <1>7. \A s \in SCHEMAS :
         {Run("schema", s, ""), Run("create", s, WriterOf(s)), Run("usage", s, WriterOf(s))}
           \subseteq Range(PostgresBootstrap)
    BY <1>1, <1>5, <1>6, InfrastructureStatements
  <1>8. \A r \in ROLES : Run("role", "", r) \in Range(PostgresBootstrap)
    BY <1>1, <1>5, <1>6, InfrastructureStatements
  <1>9. \A r \in ROLES : \A s \in ISOLATION_MATRIX[r].allow :
         /\ Run("usage", s, r) \in Range(PostgresBootstrap)
         /\ r = WriterOf(s) \/ Run("default", s, r) \in Range(PostgresBootstrap)
    BY <1>1, <1>5, <1>6, MatrixFacts
  <1> QED
    BY <1>5, <1>7, <1>8, <1>9

-----------------------------------------------------------------------------
(* The roles: what a statement does.                                       *)

\* Everything granted in d is granted in e; a role is let into no schema it is
\* denied, and a table changes owner only for the role that writes in its schema.
Grows(d, e) ==
    /\ d.schemas \subseteq e.schemas /\ d.roles \subseteq e.roles
    /\ d.compute \subseteq e.compute /\ d.usage \subseteq e.usage
    /\ d.create \subseteq e.create /\ d.future \subseteq e.future
    /\ \A r \in ROLES, s \in SCHEMAS :
         << r, s >> \in e.usage => << r, s >> \in d.usage \/ s \notin ISOLATION_MATRIX[r].deny
    /\ \A s \in SCHEMAS :
         /\ e.table[s].exists = d.table[s].exists
         /\ ~d.table[s].exists => e.table[s] = d.table[s]
         /\ d.table[s].readers \subseteq e.table[s].readers
         /\ e.table[s].owner \in {d.table[s].owner, WriterOf(s)}

\* What a statement grants holds: on tables, those not replaced since.
InForce(st, d, new) ==
    /\ st.kind = "schema" => st.schema \in d.schemas
    /\ st.kind = "role" => st.role \in d.roles
    /\ st.kind = "compute" => st.role \in d.compute
    /\ st.kind = "usage" => << st.role, st.schema >> \in d.usage
    /\ st.kind = "create" => << st.role, st.schema >> \in d.create
    /\ st.kind = "tables" /\ d.table[st.schema].exists /\ st.schema \notin new
         => st.role \in d.table[st.schema].readers
    /\ st.kind = "future" => \A by \in Everybody : << by, st.schema, st.role >> \in d.future
    /\ st.kind = "default" => << WriterOf(st.schema), st.schema, st.role >> \in d.future
    /\ st.kind = "ownership" /\ d.table[st.schema].exists /\ st.schema \notin new
         => d.table[st.schema].owner = WriterOf(st.schema)

LEMMA GrowsIsTransitive ==
    ASSUME NEW c \in Databases, NEW d \in Databases, NEW e \in Databases, Grows(c, d), Grows(d, e)
    PROVE  Grows(c, e)
  <1>1. \A s \in SCHEMAS :
         /\ e.table[s].exists = c.table[s].exists
         /\ ~c.table[s].exists => e.table[s] = c.table[s]
         /\ c.table[s].readers \subseteq e.table[s].readers
         /\ e.table[s].owner \in {c.table[s].owner, WriterOf(s)}
    BY Zenon DEF Grows
  <1>2. \A r \in ROLES, s \in SCHEMAS :
         << r, s >> \in e.usage => << r, s >> \in c.usage \/ s \notin ISOLATION_MATRIX[r].deny
    BY Zenon DEF Grows
  <1>3. /\ c.schemas \subseteq e.schemas /\ c.roles \subseteq e.roles
        /\ c.compute \subseteq e.compute /\ c.usage \subseteq e.usage
        /\ c.create \subseteq e.create /\ c.future \subseteq e.future
    BY DEF Grows
  <1> QED
    BY <1>1, <1>2, <1>3, Zenon DEF Grows

LEMMA InForceStays ==
    ASSUME NEW d \in Databases, NEW e \in Databases, Grows(d, e), NEW st \in Statement,
           NEW new, InForce(st, d, new)
    PROVE  InForce(st, e, new)
  <1>1. st.kind \notin {"role", "compute"} => st.schema \in SCHEMAS
    BY DEF Statement
  <1>2. /\ st.kind = "schema" => st.schema \in e.schemas
        /\ st.kind = "role" => st.role \in e.roles
        /\ st.kind = "compute" => st.role \in e.compute
        /\ st.kind = "usage" => << st.role, st.schema >> \in e.usage
        /\ st.kind = "create" => << st.role, st.schema >> \in e.create
    BY DEF InForce, Grows
  <1>3. /\ st.kind = "future" => \A by \in Everybody : << by, st.schema, st.role >> \in e.future
        /\ st.kind = "default" => << WriterOf(st.schema), st.schema, st.role >> \in e.future
    BY DEF InForce, Grows
  <1>4. st.kind = "tables" /\ e.table[st.schema].exists /\ st.schema \notin new
         => st.role \in e.table[st.schema].readers
    BY <1>1 DEF InForce, Grows
  <1>5. st.kind = "ownership" /\ e.table[st.schema].exists /\ st.schema \notin new
         => e.table[st.schema].owner = WriterOf(st.schema)
    BY <1>1 DEF InForce, Grows
  <1> QED
    BY <1>2, <1>3, <1>4, <1>5 DEF InForce

LEMMA TableFacts ==
    ASSUME NEW t \in TableRecords, NEW more \in SUBSET ROLES, NEW by \in Everybody
    PROVE  /\ [t EXCEPT !.readers = more] \in TableRecords
           /\ [t EXCEPT !.readers = more].exists = t.exists
           /\ [t EXCEPT !.readers = more].owner = t.owner
           /\ [t EXCEPT !.readers = more].readers = more
           /\ [t EXCEPT !.owner = by] \in TableRecords
           /\ [t EXCEPT !.owner = by].exists = t.exists
           /\ [t EXCEPT !.owner = by].owner = by
           /\ [t EXCEPT !.owner = by].readers = t.readers
  BY DEF TableRecords

WithTable(d, s, t) == [d EXCEPT !.table[s] = t]

LEMMA DatabaseFacts ==
    ASSUME NEW d \in Databases, NEW s \in SCHEMAS, NEW t \in TableRecords,
           NEW e, e = WithTable(d, s, t)
    PROVE  /\ e \in Databases /\ e.schemas = d.schemas /\ e.roles = d.roles
           /\ e.compute = d.compute /\ e.usage = d.usage /\ e.create = d.create
           /\ e.future = d.future
           /\ e.table[s] = t /\ \A u \in SCHEMAS : u # s => e.table[u] = d.table[u]
  <1> DEFINE given == [d.table EXCEPT ![s] = t]
  <1>1. d.table \in [SCHEMAS -> TableRecords]
    BY DEF Databases
  <1>2. given \in [SCHEMAS -> TableRecords] /\ given[s] = t /\ \A u \in SCHEMAS : u # s => given[u] = d.table[u]
    BY <1>1
  <1>3. e = [d EXCEPT !.table = given]
    BY Zenon DEF given, WithTable
  <1> HIDE DEF given
  <1>4. /\ e \in Databases /\ e.schemas = d.schemas /\ e.roles = d.roles /\ e.compute = d.compute
        /\ e.usage = d.usage /\ e.create = d.create /\ e.future = d.future /\ e.table = given
    BY <1>2, <1>3 DEF Databases
  <1> QED
    BY <1>2, <1>4

\* A statement grants what it says, and takes nothing back.
LEMMA ApplyFacts ==
    ASSUME NEW d \in Databases, NEW st \in Statement
    PROVE  /\ Apply(st, d) \in Databases
           /\ Grows(d, Apply(st, d))
           /\ \A new : InForce(st, Apply(st, d), new)
  <1> DEFINE s == st.schema
             r == st.role
             e == Apply(st, d)
  <1>1. /\ st.kind \in Kinds
        /\ st.kind \notin {"role", "compute"} => s \in SCHEMAS
        /\ st.kind # "schema" => r \in ROLES
        /\ st.kind = "usage" => s \notin ISOLATION_MATRIX[r].deny
        /\ st.kind = "ownership" => r = WriterOf(s)
    BY DEF Statement
  <1>2. \A t \in SCHEMAS : /\ d.table[t] \in TableRecords
                           /\ d.table[t].exists \in BOOLEAN /\ d.table[t].owner \in Everybody
                           /\ d.table[t].readers \in SUBSET ROLES
    BY DEF Databases, TableRecords
  <1>3. CASE st.kind = "schema"
    <2>1. e = [d EXCEPT !.schemas = @ \union {s}]
      BY <1>3 DEF Apply
    <2>2. /\ e \in Databases /\ e.schemas = d.schemas \union {s} /\ e.roles = d.roles /\ e.compute = d.compute
          /\ e.usage = d.usage /\ e.create = d.create /\ e.future = d.future /\ e.table = d.table
      BY <1>1, <1>3, <2>1 DEF Databases
    <2> HIDE DEF e
    <2>3. Grows(d, e) /\ \A new : InForce(st, e, new)
      BY <1>3, <2>2 DEF Grows, InForce
    <2> QED
      BY <2>2, <2>3 DEF e
  <1>4. CASE st.kind = "role"
    <2>1. e = [d EXCEPT !.roles = @ \union {r}]
      BY <1>4 DEF Apply
    <2>2. /\ e \in Databases /\ e.schemas = d.schemas /\ e.roles = d.roles \union {r} /\ e.compute = d.compute
          /\ e.usage = d.usage /\ e.create = d.create /\ e.future = d.future /\ e.table = d.table
      BY <1>1, <1>4, <2>1 DEF Databases
    <2> HIDE DEF e
    <2>3. Grows(d, e) /\ \A new : InForce(st, e, new)
      BY <1>4, <2>2 DEF Grows, InForce
    <2> QED
      BY <2>2, <2>3 DEF e
  <1>5. CASE st.kind = "compute"
    <2>1. e = [d EXCEPT !.compute = @ \union {r}]
      BY <1>5 DEF Apply
    <2>2. /\ e \in Databases /\ e.schemas = d.schemas /\ e.roles = d.roles /\ e.compute = d.compute \union {r}
          /\ e.usage = d.usage /\ e.create = d.create /\ e.future = d.future /\ e.table = d.table
      BY <1>1, <1>5, <2>1 DEF Databases
    <2> HIDE DEF e
    <2>3. Grows(d, e) /\ \A new : InForce(st, e, new)
      BY <1>5, <2>2 DEF Grows, InForce
    <2> QED
      BY <2>2, <2>3 DEF e
  <1>6. CASE st.kind = "usage"
    <2>1. e = [d EXCEPT !.usage = @ \union {<< r, s >>}]
      BY <1>6 DEF Apply
    <2>2. /\ e \in Databases /\ e.schemas = d.schemas /\ e.roles = d.roles /\ e.compute = d.compute
          /\ e.usage = d.usage \union {<< r, s >>} /\ e.create = d.create /\ e.future = d.future
          /\ e.table = d.table
      BY <1>1, <1>6, <2>1 DEF Databases
    <2> HIDE DEF e
    <2>3. Grows(d, e)
      BY <1>1, <1>6, <2>2 DEF Grows
    <2>4. \A new : InForce(st, e, new)
      BY <1>6, <2>2 DEF InForce
    <2> QED
      BY <2>2, <2>3, <2>4 DEF e
  <1>7. CASE st.kind = "create"
    <2>1. e = [d EXCEPT !.create = @ \union {<< r, s >>}]
      BY <1>7 DEF Apply
    <2>2. /\ e \in Databases /\ e.schemas = d.schemas /\ e.roles = d.roles /\ e.compute = d.compute
          /\ e.usage = d.usage /\ e.create = d.create \union {<< r, s >>} /\ e.future = d.future
          /\ e.table = d.table
      BY <1>1, <1>7, <2>1 DEF Databases
    <2> HIDE DEF e
    <2>3. Grows(d, e) /\ \A new : InForce(st, e, new)
      BY <1>7, <2>2 DEF Grows, InForce
    <2> QED
      BY <2>2, <2>3 DEF e
  <1>8. CASE st.kind = "future"
    <2> DEFINE more == {<< by, s, r >> : by \in Everybody}
    <2>1. e = [d EXCEPT !.future = @ \union more]
      BY <1>8 DEF Apply
    <2>2. more \subseteq Everybody \X SCHEMAS \X ROLES
      BY <1>1, <1>8
    <2>3. \A by \in Everybody : << by, s, r >> \in more
      OBVIOUS
    <2> HIDE DEF more
    <2>4. /\ e \in Databases /\ e.schemas = d.schemas /\ e.roles = d.roles /\ e.compute = d.compute
          /\ e.usage = d.usage /\ e.create = d.create /\ e.future = d.future \union more
          /\ e.table = d.table
      BY <2>1, <2>2 DEF Databases
    <2> HIDE DEF e
    <2>5. Grows(d, e) /\ \A new : InForce(st, e, new)
      BY <1>8, <2>3, <2>4 DEF Grows, InForce
    <2> QED
      BY <2>4, <2>5 DEF e
  <1>9. CASE st.kind = "default"
    <2>1. e = [d EXCEPT !.future = @ \union {<< WriterOf(s), s, r >>}]
      BY <1>9 DEF Apply, DefaultsFor
    <2>2. << WriterOf(s), s, r >> \in Everybody \X SCHEMAS \X ROLES
      BY <1>1, <1>9 DEF WriterOf, Everybody, ROLES
    <2>3. /\ e \in Databases /\ e.schemas = d.schemas /\ e.roles = d.roles /\ e.compute = d.compute
          /\ e.usage = d.usage /\ e.create = d.create
          /\ e.future = d.future \union {<< WriterOf(s), s, r >>} /\ e.table = d.table
      BY <2>1, <2>2 DEF Databases
    <2> HIDE DEF e
    <2>4. Grows(d, e) /\ \A new : InForce(st, e, new)
      BY <1>9, <2>3 DEF Grows, InForce
    <2> QED
      BY <2>3, <2>4 DEF e
  <1>10. CASE st.kind = "tables"
    <2>1. CASE ~d.table[s].exists
      <3>1. e = d
        BY <1>10, <2>1, Zenon DEF Apply
      <3> HIDE DEF e
      <3>2. Grows(d, d)
        BY DEF Grows
      <3>3. \A new : InForce(st, d, new)
        BY <1>10, <2>1 DEF InForce
      <3> QED
        BY <3>1, <3>2, <3>3 DEF e
    <2>2. CASE d.table[s].exists
      <3> DEFINE t == [d.table[s] EXCEPT !.readers = @ \union {r}]
      <3>0. s \in SCHEMAS /\ r \in ROLES
        BY <1>1, <1>10
      <3>1. e = WithTable(d, s, t)
        <4>1. e = IF d.table[s].exists
                  THEN [d EXCEPT !.table[s].readers = @ \union {r}] ELSE d
          BY <1>10, Zenon DEF Apply
        <4> QED
          BY <4>1, <2>2, Zenon DEF WithTable
      <3>2. /\ t \in TableRecords /\ t.exists = d.table[s].exists /\ t.owner = d.table[s].owner
            /\ t.readers = d.table[s].readers \union {r}
        <4> DEFINE more == d.table[s].readers \union {r}
        <4>1. d.table[s] \in TableRecords /\ more \in SUBSET ROLES /\ "admin" \in Everybody
          BY <3>0, <1>2 DEF Everybody
        <4> HIDE DEF more
        <4>2. /\ [d.table[s] EXCEPT !.readers = more] \in TableRecords
              /\ [d.table[s] EXCEPT !.readers = more].exists = d.table[s].exists
              /\ [d.table[s] EXCEPT !.readers = more].owner = d.table[s].owner
              /\ [d.table[s] EXCEPT !.readers = more].readers = more
          BY <4>1, TableFacts, Zenon
        <4> QED
          BY <4>2, Zenon DEF more
      <3> HIDE DEF t
      <3> HIDE DEF e, s, r
      <3>3. /\ e \in Databases /\ e.schemas = d.schemas /\ e.roles = d.roles /\ e.compute = d.compute
            /\ e.usage = d.usage /\ e.create = d.create /\ e.future = d.future
            /\ e.table[s] = t /\ \A u \in SCHEMAS : u # s => e.table[u] = d.table[u]
        <4>1. d \in Databases /\ s \in SCHEMAS /\ t \in TableRecords /\ e = WithTable(d, s, t)
          BY <3>0, <3>1, <3>2, Zenon
        <4> QED
          BY <4>1, DatabaseFacts
      <3>5. Grows(d, e)
        BY <1>2, <2>2, <3>0, <3>2, <3>3 DEF Grows
      <3>6. \A new : InForce(st, e, new)
        BY <1>10, <3>0, <3>2, <3>3 DEF InForce, s, r
      <3> QED
        BY <3>3, <3>5, <3>6 DEF e
    <2> QED
      BY <2>1, <2>2
  <1>11. CASE st.kind = "ownership"
    <2> DEFINE t == Owned(d.table[s], r)
    <2>1. e = WithTable(d, s, t)
      BY <1>11, Zenon DEF Apply, WithTable
    <2>2. r = WriterOf(s) /\ r \in Everybody /\ s \in SCHEMAS
      BY <1>1, <1>11 DEF Everybody
    <2>3. /\ t \in TableRecords /\ t.exists = d.table[s].exists
          /\ t.readers = d.table[s].readers
          /\ ~d.table[s].exists => t = d.table[s]
          /\ d.table[s].exists => t.owner = WriterOf(s)
      <3> DEFINE x == d.table[s]
      <3>1. x \in TableRecords /\ {} \in SUBSET ROLES
        BY <1>2, <2>2
      <3>2. t = IF x.exists THEN [x EXCEPT !.owner = r] ELSE x
        BY Zenon DEF Owned
      <3> HIDE DEF x, t
      <3>3. /\ [x EXCEPT !.owner = r] \in TableRecords /\ [x EXCEPT !.owner = r].exists = x.exists
            /\ [x EXCEPT !.owner = r].owner = r /\ [x EXCEPT !.owner = r].readers = x.readers
        BY <3>1, <2>2, TableFacts, Zenon
      <3>4. CASE x.exists
        <4>1. t = [x EXCEPT !.owner = r]
          BY <3>2, <3>4, Zenon
        <4> QED
          BY <4>1, <3>3, <3>4, <2>2, Zenon DEF x
      <3>5. CASE ~x.exists
        <4>1. t = x
          BY <3>2, <3>5, Zenon
        <4> QED
          BY <4>1, <3>1, <3>5, Zenon DEF x
      <3> QED
        BY <3>4, <3>5
    <2> HIDE DEF t
    <2> HIDE DEF e, s, r
    <2>4. /\ e \in Databases /\ e.schemas = d.schemas /\ e.roles = d.roles /\ e.compute = d.compute
          /\ e.usage = d.usage /\ e.create = d.create /\ e.future = d.future
          /\ e.table[s] = t /\ \A u \in SCHEMAS : u # s => e.table[u] = d.table[u]
      <3>1. d \in Databases /\ s \in SCHEMAS /\ t \in TableRecords /\ e = WithTable(d, s, t)
        BY <2>1, <2>2, <2>3, Zenon
      <3> QED
        BY <3>1, DatabaseFacts
    <2>6. Grows(d, e)
      BY <1>2, <2>2, <2>3, <2>4 DEF Grows
    <2>7. \A new : InForce(st, e, new)
      BY <1>11, <2>2, <2>3, <2>4 DEF InForce, s, r
    <2> QED
      BY <2>4, <2>6, <2>7 DEF e
  <1> QED
    BY <1>1, <1>3, <1>4, <1>5, <1>6, <1>7, <1>8, <1>9, <1>10, <1>11 DEF Kinds

\* The database after the n-th statement, from what it was before.
DatabaseAt(u, stmts, d, n) == IF n = 0 THEN d ELSE Apply(stmts[n], u[n - 1])

\* The databases after each of the first n statements.
RunsUpTo(u, stmts, d, n) == u = [i \in 0 .. n |-> DatabaseAt(u, stmts, d, i)]

LEMMA LeastExists ==
    ASSUME NEW S \in SUBSET Nat, S # {}
    PROVE  \E n \in S : \A m \in S : n <= m
  <1> DEFINE R == OpToRel(<, Nat)
  <1>1. \E x \in S : \A y \in S : ~(<< y, x >> \in R)
    BY NatLessThanWellFounded, WFMin, Zenon
  <1>2. \A x, y \in Nat : x < y => << x, y >> \in R
    <2> SUFFICES ASSUME NEW x \in Nat, NEW y \in Nat, x < y
                 PROVE  << x, y >> \in R
      OBVIOUS
    <2>1. << x, y >> \in Nat \X Nat
      OBVIOUS
    <2>2. << x, y >>[1] < << x, y >>[2]
      OBVIOUS
    <2> QED
      BY <2>1, <2>2, Zenon DEF OpToRel
  <1> HIDE DEF R
  <1>3. PICK x \in S : \A y \in S : ~(<< y, x >> \in R)
    BY <1>1
  <1>4. ASSUME NEW m \in S
        PROVE  x <= m
    <2>1. m \in Nat /\ x \in Nat
      OBVIOUS
    <2>2. ~(m < x)
      BY <1>2, <1>3, <2>1, Zenon
    <2> QED
      BY <2>1, <2>2
  <1> QED
    BY <1>4

LEMMA RunsExist ==
    ASSUME NEW stmts, NEW d, NEW n \in Nat
    PROVE  \E u : RunsUpTo(u, stmts, d, n)
  <1> DEFINE S == {k \in Nat : ~ \E u : RunsUpTo(u, stmts, d, k)}
  <1> SUFFICES ASSUME S # {}
               PROVE  FALSE
    OBVIOUS
  <1>1. PICK k \in S : \A x \in S : k <= x
    <2>1. S \in SUBSET Nat
      OBVIOUS
    <2> HIDE DEF S
    <2> QED
      BY <2>1, LeastExists
  <1>2. CASE k = 0
    <2> DEFINE w == [i \in 0 .. 0 |-> d]
    <2>1. RunsUpTo(w, stmts, d, 0)
      BY DEF RunsUpTo, DatabaseAt
    <2> QED
      BY <1>2, <2>1
  <1>3. CASE k # 0
    <2>1. k - 1 \in Nat /\ k - 1 \notin S
      BY <1>1, <1>3
    <2>2. PICK u : RunsUpTo(u, stmts, d, k - 1)
      BY <2>1
    <2> DEFINE last == Apply(stmts[k], u[k - 1])
               w == [i \in 0 .. k |-> IF i = k THEN last ELSE u[i]]
               Entry(v, i) == DatabaseAt(v, stmts, d, i)
    <2>3. \A i \in 0 .. k - 1 : u[i] = Entry(u, i)
      <3>1. u = [i \in 0 .. k - 1 |-> Entry(u, i)]
        BY <2>2 DEF RunsUpTo
      <3> HIDE DEF Entry
      <3> QED
        BY <3>1
    <2>4. \A i \in 0 .. k : w[i] = Entry(w, i)
      <3> TAKE i \in 0 .. k
      <3>0. k \in Nat
        BY <1>1
      <3>1. CASE i = k
        <4> HIDE DEF last
        <4>1. w[i] = last /\ w[i - 1] = u[i - 1]
          BY <3>0, <3>1, <1>3
        <4> HIDE DEF w
        <4>2. Entry(w, i) = Apply(stmts[i], w[i - 1])
          BY <3>1, <1>3 DEF DatabaseAt
        <4> HIDE DEF Entry
        <4> QED
          BY <4>1, <4>2, <3>1, Zenon DEF last
      <3>2. CASE i # k
        <4> HIDE DEF last
        <4>1. i \in 0 .. k - 1 /\ w[i] = u[i] /\ (i # 0 => w[i - 1] = u[i - 1])
          BY <3>0, <3>2
        <4>2. Entry(w, i) = Entry(u, i)
          <5> HIDE DEF w
          <5> QED
            BY <4>1 DEF DatabaseAt
        <4> HIDE DEF w, Entry
        <4> QED
          BY <2>3, <4>1, <4>2
      <3> QED
        BY <3>1, <3>2
    <2>5. w = [i \in 0 .. k |-> w[i]]
      OBVIOUS
    <2>6. w = [i \in 0 .. k |-> Entry(w, i)]
      <3> HIDE DEF w, Entry
      <3> QED
        BY <2>4, <2>5
    <2>7. RunsUpTo(w, stmts, d, k)
      <3> HIDE DEF w
      <3> QED
        BY <2>6 DEF RunsUpTo
    <2> QED
      BY <2>7, <1>1
  <1> QED
    BY <1>2, <1>3

\* Statements one after the other: each of them is in force in the end.
LEMMA AllOfFacts ==
    ASSUME NEW d \in Databases, NEW stmts \in Seq(Statement)
    PROVE  /\ AllOf(stmts, d) \in Databases
           /\ Grows(d, AllOf(stmts, d))
           /\ \A st \in Range(stmts) : InForce(st, AllOf(stmts, d), {})
  <1> DEFINE F(u) == u = [n \in 0 .. Len(stmts) |->
                            IF n = 0 THEN d ELSE Apply(stmts[n], u[n - 1])]
             U == CHOOSE u : F(u)
  <1>0. Len(stmts) \in Nat /\ DOMAIN stmts = 1 .. Len(stmts)
        /\ \A i \in 1 .. Len(stmts) : stmts[i] \in Statement
    OBVIOUS
  <1>1. \A u : F(u) <=> RunsUpTo(u, stmts, d, Len(stmts))
    BY Zenon DEF RunsUpTo, DatabaseAt
  <1>2. \E u : F(u)
    BY <1>0, <1>1, RunsExist, Zenon
  <1>3. F(U)
    <2> HIDE DEF F
    <2> QED
      BY <1>2, Zenon
  <1>4. AllOf(stmts, d) = U[Len(stmts)]
    BY Zenon DEF AllOf
  <1> HIDE DEF U, F
  <1>5. \A n \in 0 .. Len(stmts) : U[n] = DatabaseAt(U, stmts, d, n)
    <2>1. U = [n \in 0 .. Len(stmts) |-> DatabaseAt(U, stmts, d, n)]
      BY <1>1, <1>3, Zenon DEF RunsUpTo
    <2> QED
      BY <2>1, Zenon
  <1>6. U[0] = d /\ \A n \in 1 .. Len(stmts) : U[n] = Apply(stmts[n], U[n - 1])
    <2>1. U[0] = d
      BY <1>0, <1>5 DEF DatabaseAt
    <2>2. \A n \in 1 .. Len(stmts) : U[n] = Apply(stmts[n], U[n - 1])
      <3> TAKE n \in 1 .. Len(stmts)
      <3>1. n \in 0 .. Len(stmts) /\ n # 0
        BY <1>0
      <3> QED
        BY <3>1, <1>5, Zenon DEF DatabaseAt
    <2> QED
      BY <2>1, <2>2
  <1> DEFINE Good(n) == /\ U[n] \in Databases /\ Grows(d, U[n])
                        /\ \A i \in 1 .. n : InForce(stmts[i], U[n], {})
             S == {n \in 0 .. Len(stmts) : ~Good(n)}
  <1>7. S = {}
    <2> SUFFICES ASSUME S # {}
                 PROVE  FALSE
      OBVIOUS
    <2>1. PICK k \in S : \A x \in S : k <= x
      <3>1. S \in SUBSET Nat
        BY <1>0
      <3> HIDE DEF S
      <3> QED
        BY <3>1, LeastExists
    <2>2. k \in 0 .. Len(stmts) /\ ~Good(k)
      BY <2>1
    <2>3. CASE k = 0
      <3>1. Grows(d, d)
        BY DEF Grows
      <3> QED
        BY <1>6, <2>2, <2>3, <3>1
    <2>4. CASE k # 0
      <3>1. k \in 1 .. Len(stmts) /\ k - 1 \in 0 .. Len(stmts) /\ ~(k <= k - 1)
        BY <1>0, <2>2, <2>4
      <3>2. Good(k - 1)
        <4> HIDE DEF Good
        <4> QED
          BY <2>1, <3>1
      <3>3. U[k - 1] \in Databases /\ Grows(d, U[k - 1])
        BY <3>2
      <3>4. /\ Apply(stmts[k], U[k - 1]) \in Databases
            /\ Grows(U[k - 1], Apply(stmts[k], U[k - 1]))
            /\ InForce(stmts[k], Apply(stmts[k], U[k - 1]), {})
        BY <1>0, <3>1, <3>3, ApplyFacts
      <3>5. U[k] \in Databases /\ Grows(U[k - 1], U[k]) /\ InForce(stmts[k], U[k], {})
        BY <3>1, <3>4, <1>6, Zenon
      <3>6. Grows(d, U[k])
        BY <3>3, <3>5, GrowsIsTransitive
      <3>7. \A i \in 1 .. k : InForce(stmts[i], U[k], {})
        <4> TAKE i \in 1 .. k
        <4>1. CASE i = k
          BY <3>5, <4>1
        <4>2. CASE i # k
          <5>1. i \in 1 .. k - 1 /\ i \in 1 .. Len(stmts)
            BY <3>1, <4>2
          <5>2. InForce(stmts[i], U[k - 1], {})
            BY <3>2, <5>1
          <5>3. stmts[i] \in Statement
            BY <1>0, <5>1
          <5> QED
            BY <3>3, <3>5, <5>2, <5>3, InForceStays
        <4> QED
          BY <4>1, <4>2
      <3> QED
        BY <2>2, <3>5, <3>6, <3>7
    <2> QED
      BY <2>3, <2>4
  <1>8. Good(Len(stmts))
    <2>1. Len(stmts) \in 0 .. Len(stmts)
      BY <1>0
    <2> HIDE DEF Good
    <2> QED
      BY <1>7, <2>1
  <1> QED
    BY <1>0, <1>4, <1>8 DEF Range

-----------------------------------------------------------------------------
(* The roles: the inductive invariant.                                     *)

\* Nobody has been let into a schema it is denied, whatever is in it.
BoundariesAreKept ==
    \A r \in ROLES, s \in SCHEMAS : << r, s >> \in db.usage => s \notin ISOLATION_MATRIX[r].deny

\* A table belongs to the role that writes in its schema, or else to the
\* administrator that wrote it.
OwnersAreWriters ==
    \A s \in SCHEMAS : db.table[s].exists =>
       /\ db.table[s].owner \in {"admin", WriterOf(s)}
       /\ s \notin admin => db.table[s].owner = WriterOf(s)

\* What the bootstrap under way has behind it is in force.
BootstrapIsInForce ==
    /\ boot \in Seq(Statement)
    /\ boot # << >> => /\ Snowflake
                       /\ \A st \in Range(SnowflakeBootstrap) :
                            st \in Range(boot) \/ InForce(st, db, now)

\* What the verbs and the tables to come need is granted.
VerbsAreGranted ==
    booted =>
       /\ db.schemas = SCHEMAS /\ db.roles = ROLES /\ db.compute = ROLES
       /\ \A r \in ROLES : \A s \in ISOLATION_MATRIX[r].allow :
            /\ << r, s >> \in db.usage
            /\ r = WriterOf(s) \/ << WriterOf(s), s, r >> \in db.future
            /\ Snowflake => << "admin", s, r >> \in db.future
       /\ \A s \in SCHEMAS : << WriterOf(s), s >> \in db.usage /\ << WriterOf(s), s >> \in db.create

\* Postgres has no table before a bootstrap, and its roles need no warehouse.
PostgresStartsEmpty ==
    ~Snowflake => /\ db.compute = ROLES
                  /\ ~booted => db.schemas = {} /\ \A s \in SCHEMAS : ~db.table[s].exists

RolesInvariant ==
    /\ RolesTypeOK
    /\ BoundariesAreKept
    /\ OwnersAreWriters
    /\ BootstrapIsInForce
    /\ VerbsAreGranted
    /\ PostgresStartsEmpty
    /\ EverybodyReadsEnough
    /\ VerbsAreNotRefused

LEMMA RoleFacts ==
    /\ "admin" \notin ROLES /\ "admin" \in Everybody /\ ROLES \subseteq Everybody
    /\ \A s \in SCHEMAS : WriterOf(s) \in ROLES
    /\ \A r \in ROLES : ISOLATION_MATRIX[r].allow \subseteq SCHEMAS
    /\ \A s \in SCHEMAS : Source(s) \subseteq ISOLATION_MATRIX[WriterOf(s)].allow
  <1>1. /\ "admin" \notin ROLES /\ "admin" \in Everybody /\ ROLES \subseteq Everybody
        /\ \A s \in SCHEMAS : WriterOf(s) \in ROLES
    BY DEF Everybody, ROLES, WriterOf
  <1>2. \A r \in ROLES : ISOLATION_MATRIX[r].allow \subseteq SCHEMAS
    BY MatrixFacts DEF ROLES, SCHEMAS
  <1>3. \A s \in SCHEMAS : Source(s) \subseteq ISOLATION_MATRIX[WriterOf(s)].allow
    <2>1. Source("STAGE") = {} /\ Source("GOLD") = {"STAGE"} /\ Source("MART") = {"GOLD"}
      BY DEF Source
    <2>2. /\ WriterOf("STAGE") = "loader" /\ WriterOf("GOLD") = "transformer"
          /\ WriterOf("MART") = "transformer"
      BY DEF WriterOf
    <2> QED
      BY <2>1, <2>2, MatrixFacts DEF SCHEMAS
  <1> QED
    BY <1>1, <1>2, <1>3

\* The type of the database, and what a role other than the administrator reads.
LEMMA RolesTypeFacts ==
    ASSUME RolesTypeOK
    PROVE  /\ db \in Databases
           /\ \A s \in SCHEMAS : /\ db.table[s] \in TableRecords
                                 /\ ~db.table[s].exists => db.table[s] = NotCreated
           /\ \A r \in ROLES, s \in SCHEMAS :
                CanRead(r, s) <=> /\ db.table[s].exists
                                  /\ r \in db.roles /\ r \in db.compute /\ << r, s >> \in db.usage
                                  /\ r \in db.table[s].readers \/ r = db.table[s].owner
  <1>1. db \in Databases
    BY DEF RolesTypeOK
  <1>2. \A s \in SCHEMAS : /\ db.table[s] \in TableRecords
                           /\ ~db.table[s].exists => db.table[s] = NotCreated
    BY <1>1 DEF Databases, RolesTypeOK
  <1>3. \A r \in ROLES, s \in SCHEMAS :
          CanRead(r, s) <=> /\ db.table[s].exists
                            /\ r \in db.roles /\ r \in db.compute /\ << r, s >> \in db.usage
                            /\ r \in db.table[s].readers \/ r = db.table[s].owner
    BY RoleFacts DEF CanRead, Has
  <1> QED
    BY <1>1, <1>2, <1>3

\* So nobody reads what the matrix denies it.
LEMMA RolesInvariantKeepsTheMatrix == RolesInvariant => RolesKeepTheMatrix
  <1> SUFFICES ASSUME RolesInvariant
               PROVE  NobodyReadsMore
    BY DEF RolesInvariant, RolesKeepTheMatrix
  <1>1. ASSUME NEW r \in ROLES, NEW s \in SCHEMAS, CanRead(r, s)
        PROVE  s \notin ISOLATION_MATRIX[r].deny
    <2>1. << r, s >> \in db.usage
      BY <1>1, RolesTypeFacts DEF RolesInvariant
    <2> QED
      BY <2>1 DEF RolesInvariant, BoundariesAreKept
  <1> QED
    BY <1>1 DEF NobodyReadsMore

LEMMA RolesBegin == RolesInit => RolesInvariant
  <1> SUFFICES ASSUME RolesInit
               PROVE  RolesInvariant
    OBVIOUS
  <1>1. /\ db.schemas = {} /\ db.roles = {} /\ db.usage = {} /\ db.create = {} /\ db.future = {}
        /\ db.compute = IF Snowflake THEN {} ELSE ROLES
        /\ db.table = [s \in SCHEMAS |-> NotCreated]
    BY DEF RolesInit
  <1>2. \A s \in SCHEMAS : db.table[s] = NotCreated /\ ~db.table[s].exists
    BY <1>1 DEF NotCreated
  <1>3. RolesTypeOK
    <2>1. NotCreated \in TableRecords
      BY RoleFacts DEF NotCreated, TableRecords
    <2>2. [s \in SCHEMAS |-> NotCreated] \in [SCHEMAS -> TableRecords]
      BY <2>1
    <2>3. (IF Snowflake THEN {} ELSE ROLES) \in SUBSET ROLES
      OBVIOUS
    <2>4. db \in Databases
      <3> DEFINE compute == IF Snowflake THEN {} ELSE ROLES
                 bare == [s \in SCHEMAS |-> NotCreated]
      <3>1. db = [schemas |-> {}, roles |-> {}, usage |-> {}, create |-> {}, future |-> {},
                  compute |-> compute, table |-> bare]
        BY DEF RolesInit
      <3> HIDE DEF compute, bare
      <3>2. compute \in SUBSET ROLES /\ bare \in [SCHEMAS -> TableRecords]
        BY <2>2, <2>3 DEF compute, bare
      <3> QED
        BY <3>1, <3>2 DEF Databases
    <2>5. /\ checked \in {"nothing", "holds", "does not hold"}
          /\ booted \in BOOLEAN /\ boots \in Nat /\ writes \in Nat
          /\ now \subseteq SCHEMAS /\ admin \subseteq SCHEMAS /\ during \subseteq SCHEMAS
          /\ refused \subseteq SCHEMAS
      BY DEF RolesInit
    <2> QED
      BY <1>2, <2>4, <2>5 DEF RolesTypeOK
  <1>4. BoundariesAreKept /\ OwnersAreWriters /\ PostgresStartsEmpty
    BY <1>1, <1>2 DEF BoundariesAreKept, OwnersAreWriters, PostgresStartsEmpty
  <1>5. BootstrapIsInForce /\ VerbsAreGranted /\ EverybodyReadsEnough /\ VerbsAreNotRefused
    BY DEF RolesInit, BootstrapIsInForce, VerbsAreGranted, EverybodyReadsEnough, VerbsAreNotRefused
  <1> QED
    BY <1>3, <1>4, <1>5 DEF RolesInvariant

\* When statements only grant, what every role reads and writes stays.
LEMMA GrantsKeep ==
    ASSUME RolesInvariant, db' \in Databases, Grows(db, db')
    PROVE  /\ \A s \in SCHEMAS : ~db'.table[s].exists => db'.table[s] = NotCreated
           /\ BoundariesAreKept'
           /\ \A s \in SCHEMAS : db'.table[s].exists =>
                /\ db'.table[s].owner \in {"admin", WriterOf(s)}
                /\ s \notin admin => db'.table[s].owner = WriterOf(s)
           /\ booted /\ booted' => VerbsAreGranted'
           /\ booted /\ booted' /\ during' = during => EverybodyReadsEnough'
           /\ \A r \in ROLES, s \in SCHEMAS :
                CanRead(r, s)' <=> /\ db'.table[s].exists
                                   /\ r \in db'.roles /\ r \in db'.compute
                                   /\ << r, s >> \in db'.usage
                                   /\ r \in db'.table[s].readers \/ r = db'.table[s].owner
  <1>0. db \in Databases
    BY RolesTypeFacts DEF RolesInvariant
  <1>1. \A s \in SCHEMAS :
          /\ db'.table[s].exists = db.table[s].exists
          /\ ~db.table[s].exists => db'.table[s] = db.table[s]
          /\ db.table[s].readers \subseteq db'.table[s].readers
          /\ db'.table[s].owner = db.table[s].owner \/ db'.table[s].owner = WriterOf(s)
    BY Zenon DEF Grows
  <1>2. /\ db.schemas \subseteq db'.schemas /\ db.roles \subseteq db'.roles
        /\ db.compute \subseteq db'.compute /\ db.usage \subseteq db'.usage
        /\ db.create \subseteq db'.create /\ db.future \subseteq db'.future
        /\ \A r \in ROLES, s \in SCHEMAS :
             << r, s >> \in db'.usage => << r, s >> \in db.usage \/ s \notin ISOLATION_MATRIX[r].deny
    BY Zenon DEF Grows
  <1>3. \A s \in SCHEMAS : ~db'.table[s].exists => db'.table[s] = NotCreated
    BY <1>1 DEF RolesInvariant, RolesTypeOK
  <1>4. BoundariesAreKept'
    BY <1>2 DEF RolesInvariant, BoundariesAreKept
  <1>5. \A s \in SCHEMAS : db'.table[s].exists =>
          /\ db'.table[s].owner \in {"admin", WriterOf(s)}
          /\ s \notin admin => db'.table[s].owner = WriterOf(s)
    BY <1>1 DEF RolesInvariant, OwnersAreWriters
  <1>6. ASSUME booted, booted'
        PROVE  VerbsAreGranted'
    <2>1. db'.schemas \subseteq SCHEMAS /\ db'.roles \subseteq ROLES /\ db'.compute \subseteq ROLES
      BY DEF Databases
    <2>2. db'.schemas = SCHEMAS /\ db'.roles = ROLES /\ db'.compute = ROLES
      BY <1>2, <1>6, <2>1 DEF RolesInvariant, VerbsAreGranted
    <2>3. \A r \in ROLES : \A s \in ISOLATION_MATRIX[r].allow :
            /\ << r, s >> \in db'.usage
            /\ r = WriterOf(s) \/ << WriterOf(s), s, r >> \in db'.future
            /\ Snowflake => << "admin", s, r >> \in db'.future
      BY <1>2, <1>6 DEF RolesInvariant, VerbsAreGranted
    <2>4. \A s \in SCHEMAS :
            << WriterOf(s), s >> \in db'.usage /\ << WriterOf(s), s >> \in db'.create
      BY <1>2, <1>6 DEF RolesInvariant, VerbsAreGranted
    <2> QED
      BY <2>2, <2>3, <2>4 DEF VerbsAreGranted
  <1>7. \A r \in ROLES, s \in SCHEMAS :
          CanRead(r, s)' <=> /\ db'.table[s].exists
                             /\ r \in db'.roles /\ r \in db'.compute
                             /\ << r, s >> \in db'.usage
                             /\ r \in db'.table[s].readers \/ r = db'.table[s].owner
    BY RoleFacts DEF CanRead, Has
  <1>8. \A r \in ROLES, s \in SCHEMAS : CanRead(r, s) => CanRead(r, s)'
    <2> TAKE r \in ROLES, s \in SCHEMAS
    <2> HAVE CanRead(r, s)
    <2>1. /\ db.table[s].exists /\ r \in db.roles /\ r \in db.compute /\ << r, s >> \in db.usage
          /\ r \in db.table[s].readers \/ r = db.table[s].owner
      BY RolesTypeFacts DEF RolesInvariant
    <2>2. r = db.table[s].owner => r = WriterOf(s)
      BY <2>1, RoleFacts DEF RolesInvariant, OwnersAreWriters
    <2>3. /\ db'.table[s].exists /\ r \in db'.roles /\ r \in db'.compute /\ << r, s >> \in db'.usage
          /\ r \in db'.table[s].readers \/ r = db'.table[s].owner
      BY <1>1, <1>2, <2>1, <2>2
    <2> QED
      BY <1>7, <2>3
  <1>9. ASSUME booted, booted', during' = during
        PROVE  EverybodyReadsEnough'
    <2>1. ASSUME NEW r \in ROLES, NEW s \in ISOLATION_MATRIX[r].allow \ during, db'.table[s].exists
          PROVE  CanRead(r, s)'
      <3>1. s \in SCHEMAS /\ db.table[s].exists
        BY <1>1, <2>1, RoleFacts
      <3>2. CanRead(r, s)
        BY <1>9, <3>1 DEF RolesInvariant, EverybodyReadsEnough
      <3> QED
        BY <1>8, <3>1, <3>2
    <2> QED
      BY <1>9, <2>1 DEF EverybodyReadsEnough
  <1> QED
    BY <1>3, <1>4, <1>5, <1>6, <1>7, <1>9

LEMMA RolesPostgresStep == RolesInvariant /\ BootstrapPostgres => RolesInvariant'
  <1> SUFFICES ASSUME RolesInvariant, BootstrapPostgres
               PROVE  RolesInvariant'
    OBVIOUS
  <1>1. /\ ~Snowflake /\ db' = AllOf(PostgresBootstrap, db) /\ booted' /\ booted' = TRUE
        /\ boots' = boots + 1 /\ boot' = boot /\ checked' = checked /\ now' = now /\ admin' = admin
        /\ during' = during /\ refused' = refused /\ writes' = writes
    BY DEF BootstrapPostgres
  <1>2. boot = << >> /\ RolesTypeOK /\ db \in Databases /\ booted \in BOOLEAN
    BY <1>1, RolesTypeFacts DEF RolesInvariant, BootstrapIsInForce, RolesTypeOK
  <1>3. /\ db' \in Databases /\ Grows(db, db')
        /\ \A st \in Range(PostgresBootstrap) : InForce(st, db', {})
    BY <1>1, <1>2, PostgresStatements, AllOfFacts
  <1>4. /\ \A s \in SCHEMAS : ~db'.table[s].exists => db'.table[s] = NotCreated
        /\ BoundariesAreKept'
        /\ \A s \in SCHEMAS : db'.table[s].exists =>
             /\ db'.table[s].owner \in {"admin", WriterOf(s)}
             /\ s \notin admin => db'.table[s].owner = WriterOf(s)
        /\ booted => VerbsAreGranted' /\ EverybodyReadsEnough'
    BY <1>1, <1>3, GrantsKeep
  <1>5. RolesTypeOK'
    <2>1. checked' \in {"nothing", "holds", "does not hold"} /\ booted' \in BOOLEAN
          /\ boots' \in Nat /\ writes' \in Nat
          /\ now' \subseteq SCHEMAS /\ admin' \subseteq SCHEMAS /\ during' \subseteq SCHEMAS
          /\ refused' \subseteq SCHEMAS
      <3>1. boots \in Nat /\ checked \in {"nothing", "holds", "does not hold"} /\ writes \in Nat
            /\ now \subseteq SCHEMAS /\ admin \subseteq SCHEMAS /\ during \subseteq SCHEMAS
            /\ refused \subseteq SCHEMAS
        BY <1>2, Zenon DEF RolesTypeOK
      <3>2. boots + 1 \in Nat
        <4>1. boots \in Nat
          BY <3>1, Zenon
        <4> HIDE <3>1
        <4> QED
          BY <4>1
      <3>3. booted' \in BOOLEAN
        BY <1>1
      <3> QED
        BY <1>1, <3>1, <3>2, <3>3, Zenon
    <2> QED
      BY <1>3, <1>4, <2>1 DEF RolesTypeOK
  <1>6. OwnersAreWriters' /\ BootstrapIsInForce' /\ VerbsAreNotRefused'
    <2>1. OwnersAreWriters'
      BY <1>1, <1>4 DEF OwnersAreWriters
    <2>2. BootstrapIsInForce'
      BY <1>1, <1>2 DEF RolesInvariant, BootstrapIsInForce
    <2>3. VerbsAreNotRefused'
      BY <1>1 DEF RolesInvariant, VerbsAreNotRefused
    <2> QED
      BY <2>1, <2>2, <2>3
  <1>7. PostgresStartsEmpty'
    <2>1. db'.compute \subseteq ROLES /\ db.compute = ROLES
      BY <1>1, <1>3 DEF Databases, RolesInvariant, PostgresStartsEmpty
    <2> QED
      BY <1>1, <1>3, <2>1 DEF PostgresStartsEmpty, Grows
  <1>8. VerbsAreGranted'
    <2>1. \A s \in SCHEMAS : s \in db'.schemas /\ << WriterOf(s), s >> \in db'.usage
                             /\ << WriterOf(s), s >> \in db'.create
      <3> TAKE s \in SCHEMAS
      <3>1. /\ InForce(Run("schema", s, ""), db', {}) /\ InForce(Run("create", s, WriterOf(s)), db', {})
            /\ InForce(Run("usage", s, WriterOf(s)), db', {})
        BY <1>3, PostgresStatements
      <3> QED
        BY <3>1 DEF InForce, Run
    <2>2. \A r \in ROLES : r \in db'.roles
      <3> TAKE r \in ROLES
      <3>1. InForce(Run("role", "", r), db', {})
        BY <1>3, PostgresStatements
      <3> QED
        BY <3>1 DEF InForce, Run
    <2>3. \A r \in ROLES : \A s \in ISOLATION_MATRIX[r].allow :
            /\ << r, s >> \in db'.usage
            /\ r = WriterOf(s) \/ << WriterOf(s), s, r >> \in db'.future
      <3> TAKE r \in ROLES
      <3> TAKE s \in ISOLATION_MATRIX[r].allow
      <3>1. /\ InForce(Run("usage", s, r), db', {})
            /\ r = WriterOf(s) \/ InForce(Run("default", s, r), db', {})
        BY <1>3, PostgresStatements
      <3> QED
        BY <3>1 DEF InForce, Run
    <2>4. db'.schemas = SCHEMAS /\ db'.roles = ROLES /\ db'.compute = ROLES
      BY <1>1, <1>3, <1>7, <2>1, <2>2 DEF Databases, PostgresStartsEmpty
    <2> QED
      BY <1>1, <2>1, <2>3, <2>4 DEF VerbsAreGranted
  <1>9. EverybodyReadsEnough'
    <2>1. CASE ~booted
      <3>1. \A s \in SCHEMAS : ~db'.table[s].exists
        BY <1>1, <1>3, <2>1 DEF RolesInvariant, PostgresStartsEmpty, Grows
      <3> QED
        BY <3>1, RoleFacts DEF EverybodyReadsEnough
    <2> QED
      BY <1>4, <2>1
  <1> QED
    BY <1>4, <1>5, <1>6, <1>7, <1>8, <1>9 DEF RolesInvariant

LEMMA RolesBeginBootstrapStep == RolesInvariant /\ BeginBootstrap => RolesInvariant'
  <1> SUFFICES ASSUME RolesInvariant, BeginBootstrap
               PROVE  RolesInvariant'
    OBVIOUS
  <1>1. /\ Snowflake /\ boot' = SnowflakeBootstrap /\ boots' = boots + 1 /\ now' = {}
        /\ db' = db /\ booted' = booted /\ checked' = checked /\ admin' = admin /\ during' = during
        /\ refused' = refused /\ writes' = writes
    BY DEF BeginBootstrap
  <1>2. RolesTypeOK'
    <2>1. RolesTypeOK
      BY Zenon DEF RolesInvariant
    <2>2. boots \in Nat
      BY <2>1, Zenon DEF RolesTypeOK
    <2>3. boots + 1 \in Nat /\ {} \subseteq SCHEMAS
      BY <2>2
    <2> QED
      BY <1>1, <2>1, <2>3, Zenon DEF RolesTypeOK
  <1>3. BootstrapIsInForce'
    BY <1>1, SnowflakeStatements DEF BootstrapIsInForce
  <1>4. BoundariesAreKept' /\ OwnersAreWriters' /\ VerbsAreGranted' /\ PostgresStartsEmpty'
    BY <1>1 DEF RolesInvariant, BoundariesAreKept, OwnersAreWriters, VerbsAreGranted, PostgresStartsEmpty
  <1>5. EverybodyReadsEnough' /\ VerbsAreNotRefused'
    BY <1>1 DEF RolesInvariant, EverybodyReadsEnough, VerbsAreNotRefused, CanRead
  <1> QED
    BY <1>2, <1>3, <1>4, <1>5 DEF RolesInvariant

LEMMA RolesInterruptStep == RolesInvariant /\ Interrupt => RolesInvariant'
  <1> SUFFICES ASSUME RolesInvariant, Interrupt
               PROVE  RolesInvariant'
    OBVIOUS
  <1>1. /\ boot' = << >> /\ boots' = boots /\ now' = now
        /\ db' = db /\ booted' = booted /\ checked' = checked /\ admin' = admin /\ during' = during
        /\ refused' = refused /\ writes' = writes
    BY DEF Interrupt
  <1>2. RolesTypeOK'
    BY <1>1 DEF RolesInvariant, RolesTypeOK
  <1>3. BootstrapIsInForce'
    BY <1>1 DEF BootstrapIsInForce
  <1>4. BoundariesAreKept' /\ OwnersAreWriters' /\ VerbsAreGranted' /\ PostgresStartsEmpty'
    BY <1>1 DEF RolesInvariant, BoundariesAreKept, OwnersAreWriters, VerbsAreGranted, PostgresStartsEmpty
  <1>5. EverybodyReadsEnough' /\ VerbsAreNotRefused'
    BY <1>1 DEF RolesInvariant, EverybodyReadsEnough, VerbsAreNotRefused, CanRead
  <1> QED
    BY <1>2, <1>3, <1>4, <1>5 DEF RolesInvariant

LEMMA RolesStatementStep == RolesInvariant /\ RunStatement => RolesInvariant'
  <1> SUFFICES ASSUME RolesInvariant, RunStatement
               PROVE  RolesInvariant'
    OBVIOUS
  <1>1. /\ boot # << >> /\ db' = Apply(Head(boot), db) /\ boot' = Tail(boot) /\ boots' = boots
        /\ now' = now /\ refused' = refused /\ writes' = writes
    BY DEF RunStatement
  <1>2. \/ /\ Tail(boot) = << >> /\ booted' = TRUE /\ admin' = admin \cap now /\ during' = now
           /\ checked' \in {"holds", "does not hold"}
        \/ /\ Tail(boot) # << >> /\ booted' = booted /\ admin' = admin /\ during' = during
           /\ checked' = checked
    BY DEF RunStatement
  <1>3. Snowflake /\ boot \in Seq(Statement) /\ RolesTypeOK /\ db \in Databases /\ booted \in BOOLEAN
    BY <1>1, RolesTypeFacts DEF RolesInvariant, BootstrapIsInForce, RolesTypeOK
  <1>4. /\ Head(boot) \in Statement /\ Tail(boot) \in Seq(Statement)
        /\ Range(boot) \subseteq {Head(boot)} \union Range(Tail(boot))
    <2>1. Head(boot) \in Statement /\ Tail(boot) \in Seq(Statement) /\ Len(Tail(boot)) = Len(boot) - 1
          /\ Len(boot) \in Nat /\ Len(boot) > 0 /\ Head(boot) = boot[1]
      BY <1>1, <1>3
    <2>2. \A i \in 1 .. Len(boot) - 1 : Tail(boot)[i] = boot[i + 1]
      BY <1>1, <1>3
    <2>3. \A i \in 1 .. Len(boot) : i = 1 \/ (i - 1 \in 1 .. Len(boot) - 1 /\ (i - 1) + 1 = i)
      BY <2>1
    <2>4. \A i \in 1 .. Len(boot) : boot[i] = Head(boot) \/ boot[i] = Tail(boot)[i - 1]
      BY <2>1, <2>2, <2>3
    <2>5. DOMAIN boot = 1 .. Len(boot) /\ DOMAIN Tail(boot) = 1 .. Len(boot) - 1
      BY <1>3, <2>1
    <2>6. \A i \in 1 .. Len(boot) : boot[i] = Head(boot) \/ boot[i] \in Range(Tail(boot))
      <3> TAKE i \in 1 .. Len(boot)
      <3>1. CASE i = 1
        BY <2>1, <3>1
      <3>2. CASE i # 1
        <4>1. i - 1 \in DOMAIN Tail(boot) /\ boot[i] = Tail(boot)[i - 1]
          <5>1. i - 1 \in 1 .. Len(boot) - 1 /\ (i - 1) + 1 = i
            BY <2>3, <3>2
          <5> QED
            BY <5>1, <2>2, <2>5
        <4> QED
          BY <4>1, Zenon DEF Range
      <3> QED
        BY <3>1, <3>2
    <2>7. Range(boot) \subseteq {Head(boot)} \union Range(Tail(boot))
      BY <2>5, <2>6, Zenon DEF Range
    <2> QED
      BY <2>1, <2>7
  <1>5. /\ db' \in Databases /\ Grows(db, db') /\ \A new : InForce(Head(boot), db', new)
    BY <1>1, <1>3, <1>4, ApplyFacts
  <1>6. /\ \A s \in SCHEMAS : ~db'.table[s].exists => db'.table[s] = NotCreated
        /\ BoundariesAreKept'
        /\ \A s \in SCHEMAS : db'.table[s].exists =>
             /\ db'.table[s].owner \in {"admin", WriterOf(s)}
             /\ s \notin admin => db'.table[s].owner = WriterOf(s)
        /\ booted /\ booted' => VerbsAreGranted'
        /\ booted /\ booted' /\ during' = during => EverybodyReadsEnough'
        /\ \A r \in ROLES, s \in SCHEMAS :
             CanRead(r, s)' <=> /\ db'.table[s].exists
                                /\ r \in db'.roles /\ r \in db'.compute
                                /\ << r, s >> \in db'.usage
                                /\ r \in db'.table[s].readers \/ r = db'.table[s].owner
    BY <1>5, GrantsKeep
  <1>7. RolesTypeOK'
    <2>1. checked' \in {"nothing", "holds", "does not hold"} /\ booted' \in BOOLEAN
          /\ boots' \in Nat /\ writes' \in Nat
          /\ now' \subseteq SCHEMAS /\ admin' \subseteq SCHEMAS /\ during' \subseteq SCHEMAS
          /\ refused' \subseteq SCHEMAS
      BY <1>1, <1>2, <1>3 DEF RolesTypeOK
    <2> QED
      BY <1>5, <1>6, <2>1 DEF RolesTypeOK
  <1>8. \A st \in Range(SnowflakeBootstrap) : st \in Range(Tail(boot)) \/ InForce(st, db', now)
    <2> TAKE st \in Range(SnowflakeBootstrap)
    <2>1. st \in Statement
      <3>1. PICK i \in DOMAIN SnowflakeBootstrap : st = SnowflakeBootstrap[i]
        BY Zenon DEF Range
      <3>2. SnowflakeBootstrap \in Seq(Statement)
        BY SnowflakeStatements
      <3> HIDE DEF SnowflakeBootstrap
      <3> QED
        BY <3>1, <3>2
    <2>2. st = Head(boot) \/ st \in Range(Tail(boot)) \/ InForce(st, db, now)
      BY <1>1, <1>4 DEF RolesInvariant, BootstrapIsInForce
    <2>3. InForce(st, db, now) => InForce(st, db', now)
      BY <1>3, <1>5, <2>1, InForceStays
    <2> QED
      BY <1>5, <2>2, <2>3
  <1>9. BootstrapIsInForce'
    BY <1>1, <1>3, <1>4, <1>8 DEF BootstrapIsInForce
  <1>10. VerbsAreNotRefused' /\ PostgresStartsEmpty'
    BY <1>1, <1>3 DEF RolesInvariant, VerbsAreNotRefused, PostgresStartsEmpty
  <1>11. CASE Tail(boot) # << >>
    <2>1. booted' = booted /\ admin' = admin /\ during' = during
      BY <1>2, <1>11
    <2>2. OwnersAreWriters'
      BY <1>6, <2>1 DEF OwnersAreWriters
    <2>3. VerbsAreGranted' /\ EverybodyReadsEnough'
      BY <1>3, <1>6, <2>1 DEF VerbsAreGranted, EverybodyReadsEnough
    <2> QED
      BY <1>6, <1>7, <1>9, <1>10, <2>2, <2>3 DEF RolesInvariant
  <1>12. CASE Tail(boot) = << >>
    <2>1. booted' = TRUE /\ admin' = admin \cap now /\ during' = now
      BY <1>2, <1>12
    <2>2. \A st \in Range(SnowflakeBootstrap) : InForce(st, db', now)
      <3>1. Range(Tail(boot)) = {}
        BY <1>12 DEF Range
      <3> QED
        BY <1>8, <3>1
    <2>3. \A s \in SCHEMAS :
            /\ s \in db'.schemas /\ << WriterOf(s), s >> \in db'.usage
            /\ << WriterOf(s), s >> \in db'.create
            /\ db'.table[s].exists /\ s \notin now => db'.table[s].owner = WriterOf(s)
      <3> TAKE s \in SCHEMAS
      <3>1. /\ InForce(Run("schema", s, ""), db', now) /\ InForce(Run("create", s, WriterOf(s)), db', now)
            /\ InForce(Run("usage", s, WriterOf(s)), db', now)
            /\ InForce(Run("ownership", s, WriterOf(s)), db', now)
        BY <2>2, SnowflakeStatements
      <3> QED
        BY <3>1 DEF InForce, Run
    <2>4. \A r \in ROLES : r \in db'.roles /\ r \in db'.compute
      <3> TAKE r \in ROLES
      <3>1. InForce(Run("role", "", r), db', now) /\ InForce(Run("compute", "", r), db', now)
        BY <2>2, SnowflakeStatements
      <3> QED
        BY <3>1 DEF InForce, Run
    <2>5. \A r \in ROLES : \A s \in ISOLATION_MATRIX[r].allow :
            /\ << r, s >> \in db'.usage
            /\ db'.table[s].exists /\ s \notin now => r \in db'.table[s].readers
            /\ \A by \in Everybody : << by, s, r >> \in db'.future
      <3> TAKE r \in ROLES
      <3> TAKE s \in ISOLATION_MATRIX[r].allow
      <3>1. /\ InForce(Run("usage", s, r), db', now) /\ InForce(Run("tables", s, r), db', now)
            /\ InForce(Run("future", s, r), db', now)
        BY <2>2, SnowflakeStatements
      <3> QED
        BY <3>1 DEF InForce, Run
    <2>6. OwnersAreWriters'
      BY <1>6, <2>1, <2>3 DEF OwnersAreWriters
    <2>7. VerbsAreGranted'
      <3>1. db'.schemas = SCHEMAS /\ db'.roles = ROLES /\ db'.compute = ROLES
        BY <1>5, <2>3, <2>4 DEF Databases
      <3>2. \A r \in ROLES : \A s \in ISOLATION_MATRIX[r].allow :
              /\ << r, s >> \in db'.usage
              /\ r = WriterOf(s) \/ << WriterOf(s), s, r >> \in db'.future
              /\ Snowflake => << "admin", s, r >> \in db'.future
        BY <2>5, RoleFacts
      <3> QED
        BY <2>3, <3>1, <3>2 DEF VerbsAreGranted
    <2>8. EverybodyReadsEnough'
      <3>1. ASSUME NEW r \in ROLES, NEW s \in ISOLATION_MATRIX[r].allow \ now, db'.table[s].exists
            PROVE  CanRead(r, s)'
        <4>1. s \in SCHEMAS /\ s \in ISOLATION_MATRIX[r].allow /\ s \notin now
          BY RoleFacts
        <4> QED
          BY <1>6, <2>4, <2>5, <3>1, <4>1
      <3> QED
        BY <2>1, <3>1 DEF EverybodyReadsEnough
    <2> QED
      BY <1>6, <1>7, <1>9, <1>10, <2>6, <2>7, <2>8 DEF RolesInvariant
  <1> QED
    BY <1>11, <1>12

\* A table replaced by the role that writes in its schema, or, where every role
\* reads what an administrator makes, by an administrator.
LEMMA RolesWriteStep ==
    ASSUME RolesInvariant, NEW s \in SCHEMAS, NEW role \in {WriterOf(s), "admin"},
           role = "admin" => Snowflake, Write(role, s)
    PROVE  RolesInvariant'
  <1> DEFINE allowed == CanWrite(role, s) /\ \A source \in Source(s) : CanRead(role, source)
  <1>0. RolesTypeOK /\ role \in Everybody /\ booted \in BOOLEAN
    BY RoleFacts DEF RolesInvariant, RolesTypeOK
  <1>1. /\ \A source \in Source(s) : db.table[source].exists
        /\ s \in db.schemas /\ writes' = writes + 1
        /\ boot' = boot /\ booted' = booted /\ boots' = boots /\ checked' = checked
    BY DEF Write
  <1>2. ~Snowflake => booted
    BY <1>1 DEF RolesInvariant, PostgresStartsEmpty
  <1>3. CASE allowed
    <2>1. /\ db' = [db EXCEPT !.table[s] = Created(role, s)]
          /\ admin' = IF role = "admin" THEN admin \union {s} ELSE admin \ {s}
          /\ refused' = refused
      BY <1>3, Zenon DEF Write
    <2>2. \/ boot = << >> /\ during' = during \ {s} /\ now' = now
          \/ boot # << >> /\ during' = during \union {s} /\ now' = now \union {s}
      BY <1>3 DEF Write
    <2> DEFINE new == Created(role, s)
    <2>3. /\ new \in TableRecords /\ new.exists = TRUE /\ new.owner = role
          /\ \A r \in ROLES : << role, s, r >> \in db.future => r \in new.readers
      BY <1>0 DEF Created, TableRecords
    <2>4. db' = WithTable(db, s, new)
      BY <2>1, Zenon DEF WithTable
    <2> HIDE DEF new
    <2>5. db \in Databases
      BY <1>0, RolesTypeFacts
    <2>6. /\ db' \in Databases /\ db'.schemas = db.schemas /\ db'.roles = db.roles
          /\ db'.compute = db.compute /\ db'.usage = db.usage /\ db'.create = db.create
          /\ db'.future = db.future
          /\ db'.table[s] = new /\ \A u \in SCHEMAS : u # s => db'.table[u] = db.table[u]
      BY <2>3, <2>4, <2>5, DatabaseFacts
    <2>7. RolesTypeOK'
      <3>1. \A u \in SCHEMAS : ~db'.table[u].exists => db'.table[u] = NotCreated
        BY <1>0, <2>3, <2>6, RolesTypeFacts
      <3>2. /\ boots' \in Nat /\ booted' \in BOOLEAN
            /\ checked' \in {"nothing", "holds", "does not hold"}
            /\ refused' \subseteq SCHEMAS
        BY <1>0, <1>1, <2>1, Zenon DEF RolesTypeOK
      <3>3. writes \in Nat /\ now \subseteq SCHEMAS /\ admin \subseteq SCHEMAS /\ during \subseteq SCHEMAS
        BY <1>0, Zenon DEF RolesTypeOK
      <3>4. writes' \in Nat
        BY <1>1, <3>3
      <3>5. now' \subseteq SCHEMAS /\ admin' \subseteq SCHEMAS /\ during' \subseteq SCHEMAS
        BY <2>1, <2>2, <3>3
      <3> QED
        BY <2>6, <3>1, <3>2, <3>4, <3>5 DEF RolesTypeOK
    <2>8. BoundariesAreKept'
      BY <2>6 DEF RolesInvariant, BoundariesAreKept
    <2>9. OwnersAreWriters'
      <3>1. ASSUME NEW u \in SCHEMAS, db'.table[u].exists
            PROVE  /\ db'.table[u].owner \in {"admin", WriterOf(u)}
                   /\ u \notin admin' => db'.table[u].owner = WriterOf(u)
        <4>1. CASE u = s
          BY <2>1, <2>3, <2>6, <4>1
        <4>2. CASE u # s
          <5>1. u \notin admin' => u \notin admin
            BY <2>1, <4>2
          <5> QED
            BY <2>6, <3>1, <4>2, <5>1 DEF RolesInvariant, OwnersAreWriters
        <4> QED
          BY <4>1, <4>2
      <3> QED
        BY <3>1 DEF OwnersAreWriters
    <2>10. BootstrapIsInForce'
      <3>1. CASE boot = << >>
        BY <1>1, <3>1 DEF RolesInvariant, BootstrapIsInForce
      <3>2. CASE boot # << >>
        <4>1. now' = now \union {s}
          BY <2>2, <3>2
        <4>2. \A st \in Range(SnowflakeBootstrap) : InForce(st, db, now) => InForce(st, db', now')
          <5> TAKE st \in Range(SnowflakeBootstrap)
          <5> HAVE InForce(st, db, now)
          <5>0. st \in Statement
            <6>1. PICK i \in DOMAIN SnowflakeBootstrap : st = SnowflakeBootstrap[i]
              BY Zenon DEF Range
            <6>2. SnowflakeBootstrap \in Seq(Statement)
              BY SnowflakeStatements
            <6> HIDE DEF SnowflakeBootstrap
            <6> QED
              BY <6>1, <6>2
          <5>1. st.kind \notin {"role", "compute"} => st.schema \in SCHEMAS
            BY <5>0 DEF Statement
          <5>2. /\ st.kind = "schema" => st.schema \in db'.schemas
                /\ st.kind = "role" => st.role \in db'.roles
                /\ st.kind = "compute" => st.role \in db'.compute
                /\ st.kind = "usage" => << st.role, st.schema >> \in db'.usage
                /\ st.kind = "create" => << st.role, st.schema >> \in db'.create
                /\ st.kind = "future" => \A by \in Everybody : << by, st.schema, st.role >> \in db'.future
                /\ st.kind = "default" => << WriterOf(st.schema), st.schema, st.role >> \in db'.future
            BY <2>6 DEF InForce
          <5>3. st.kind \in {"tables", "ownership"} /\ st.schema \notin now'
                  => st.schema \notin now /\ db'.table[st.schema] = db.table[st.schema]
            BY <2>6, <4>1, <5>1
          <5>4. st.kind = "tables" /\ db'.table[st.schema].exists /\ st.schema \notin now'
                  => st.role \in db'.table[st.schema].readers
            BY <5>3 DEF InForce
          <5>5. st.kind = "ownership" /\ db'.table[st.schema].exists /\ st.schema \notin now'
                  => db'.table[st.schema].owner = WriterOf(st.schema)
            BY <5>3 DEF InForce
          <5> QED
            BY <5>2, <5>4, <5>5 DEF InForce
        <4> QED
          BY <1>1, <3>2, <4>2 DEF RolesInvariant, BootstrapIsInForce
      <3> QED
        BY <3>1, <3>2
    <2>11. VerbsAreGranted'
      BY <1>1, <2>6 DEF RolesInvariant, VerbsAreGranted
    <2>12. PostgresStartsEmpty'
      BY <1>1, <1>2, <2>6 DEF RolesInvariant, PostgresStartsEmpty
    <2>13. \A r \in ROLES, u \in SCHEMAS :
             CanRead(r, u)' <=> /\ db'.table[u].exists
                                /\ r \in db'.roles /\ r \in db'.compute
                                /\ << r, u >> \in db'.usage
                                /\ r \in db'.table[u].readers \/ r = db'.table[u].owner
      BY RoleFacts DEF CanRead, Has
    <2>14. EverybodyReadsEnough'
      <3>1. ASSUME booted, NEW r \in ROLES, NEW u \in ISOLATION_MATRIX[r].allow \ during',
                   db'.table[u].exists
            PROVE  CanRead(r, u)'
        <4>1. u \in SCHEMAS /\ u \in ISOLATION_MATRIX[r].allow /\ u \notin during'
          BY RoleFacts
        <4>2. CASE u = s
          <5>1. /\ r \in db.roles /\ r \in db.compute /\ << r, s >> \in db.usage
                /\ r = WriterOf(s) \/ << WriterOf(s), s, r >> \in db.future
                /\ Snowflake => << "admin", s, r >> \in db.future
            BY <3>1, <4>1, <4>2 DEF RolesInvariant, VerbsAreGranted
          <5>2. r \in new.readers \/ r = new.owner
            BY <5>1, <2>3
          <5> QED
            BY <2>3, <2>6, <2>13, <4>2, <5>1, <5>2
        <4>3. CASE u # s
          <5>1. u \notin during /\ db'.table[u] = db.table[u]
            BY <2>2, <2>6, <4>1, <4>3
          <5>2. CanRead(r, u)
            BY <3>1, <4>1, <5>1 DEF RolesInvariant, EverybodyReadsEnough
          <5>3. /\ db.table[u].exists /\ r \in db.roles /\ r \in db.compute /\ << r, u >> \in db.usage
                /\ r \in db.table[u].readers \/ r = db.table[u].owner
            BY <1>0, <4>1, <5>2, RolesTypeFacts
          <5> QED
            BY <2>6, <2>13, <4>1, <5>1, <5>3
        <4> QED
          BY <4>2, <4>3
      <3> QED
        BY <1>1, <3>1 DEF EverybodyReadsEnough
    <2>15. VerbsAreNotRefused'
      BY <2>1 DEF RolesInvariant, VerbsAreNotRefused
    <2> QED
      BY <2>7, <2>8, <2>9, <2>10, <2>11, <2>12, <2>14, <2>15 DEF RolesInvariant
  <1>4. CASE ~allowed
    <2>1. /\ refused' = IF booted /\ s \notin admin /\ Source(s) \cap during = {}
                        THEN refused \union {s} ELSE refused
          /\ db' = db /\ now' = now /\ admin' = admin /\ during' = during
      BY <1>4, Zenon DEF Write
    <2>2. ~(booted /\ s \notin admin /\ Source(s) \cap during = {})
      <3> SUFFICES ASSUME booted, s \notin admin, Source(s) \cap during = {}
                   PROVE  allowed
        BY <1>4
      <3>1. CASE role = "admin"
        BY <1>1, <3>1 DEF CanWrite, CanRead, Has
      <3>2. CASE role = WriterOf(s)
        <4>1. role \in ROLES
          BY <3>2, RoleFacts
        <4>2. /\ role \in db.roles /\ role \in db.compute
              /\ << role, s >> \in db.usage /\ << role, s >> \in db.create
          BY <3>2, <4>1 DEF RolesInvariant, VerbsAreGranted
        <4>3. db.table[s].exists => db.table[s].owner = role
          BY <3>2 DEF RolesInvariant, OwnersAreWriters
        <4>4. CanWrite(role, s)
          BY <4>2, <4>3, Zenon DEF CanWrite, Has
        <4>5. ASSUME NEW source \in Source(s)
              PROVE  CanRead(role, source)
          <5>1. source \in ISOLATION_MATRIX[role].allow \ during /\ db.table[source].exists
            BY <1>1, <3>2, RoleFacts
          <5> QED
            BY <4>1, <5>1 DEF RolesInvariant, EverybodyReadsEnough
        <4> QED
          BY <4>4, <4>5
      <3> QED
        BY <3>1, <3>2
    <2>3. refused' = refused
      BY <2>1, <2>2
    <2>4. RolesTypeOK'
      <3>1. writes \in Nat
        BY <1>0, Zenon DEF RolesTypeOK
      <3>2. writes' \in Nat
        BY <1>1, <3>1
      <3> QED
        BY <1>0, <1>1, <2>1, <2>3, <3>2, Zenon DEF RolesTypeOK
    <2>5. BoundariesAreKept' /\ OwnersAreWriters' /\ VerbsAreGranted' /\ PostgresStartsEmpty'
      BY <1>1, <2>1 DEF RolesInvariant, BoundariesAreKept, OwnersAreWriters, VerbsAreGranted, PostgresStartsEmpty
    <2>6. EverybodyReadsEnough' /\ VerbsAreNotRefused' /\ BootstrapIsInForce'
      BY <1>1, <2>1, <2>3 DEF RolesInvariant, EverybodyReadsEnough, VerbsAreNotRefused, CanRead, BootstrapIsInForce
    <2> QED
      BY <2>4, <2>5, <2>6 DEF RolesInvariant
  <1> QED
    BY <1>3, <1>4

LEMMA RolesStutterStep == RolesInvariant /\ UNCHANGED roleVars => RolesInvariant'
  <1> SUFFICES ASSUME RolesInvariant, UNCHANGED roleVars
               PROVE  RolesInvariant'
    OBVIOUS
  <1>1. /\ boot' = boot /\ boots' = boots /\ now' = now
        /\ db' = db /\ booted' = booted /\ checked' = checked /\ admin' = admin /\ during' = during
        /\ refused' = refused /\ writes' = writes
    BY DEF roleVars
  <1>2. RolesTypeOK' /\ BootstrapIsInForce'
    BY <1>1 DEF RolesInvariant, RolesTypeOK, BootstrapIsInForce
  <1>4. BoundariesAreKept' /\ OwnersAreWriters' /\ VerbsAreGranted' /\ PostgresStartsEmpty'
    BY <1>1 DEF RolesInvariant, BoundariesAreKept, OwnersAreWriters, VerbsAreGranted, PostgresStartsEmpty
  <1>5. EverybodyReadsEnough' /\ VerbsAreNotRefused'
    BY <1>1 DEF RolesInvariant, EverybodyReadsEnough, VerbsAreNotRefused, CanRead
  <1> QED
    BY <1>2, <1>4, <1>5 DEF RolesInvariant

(* What the bootstrap under way has behind it is in force, and what the    *)
(* verbs need is granted for good once a bootstrap has ended: on Snowflake,*)
(* with administrators that write too, and on Postgres, where only the     *)
(* roles write (postgres-bootstrap gives nothing on tables that are there).*)
THEOREM RolesInvariantHolds ==
    ASSUME Snowflake \/ ~AdminWrites
    PROVE  RolesSpec => []RolesInvariant
  <1>1. RolesInvariant /\ [RolesNext]_roleVars => RolesInvariant'
    <2> SUFFICES ASSUME RolesInvariant, [RolesNext]_roleVars
                 PROVE  RolesInvariant'
      OBVIOUS
    <2>1. ASSUME NEW s \in SCHEMAS, Write(WriterOf(s), s)
          PROVE  RolesInvariant'
      <3>1. WriterOf(s) # "admin"
        BY RoleFacts
      <3> QED
        BY <2>1, <3>1, RolesWriteStep
    <2>2. ASSUME NEW s \in SCHEMAS, AdminWrites, Write("admin", s)
          PROVE  RolesInvariant'
      BY <2>2, RolesWriteStep
    <2>3. CASE BootstrapPostgres
      BY <2>3, RolesPostgresStep
    <2>4. CASE BeginBootstrap
      BY <2>4, RolesBeginBootstrapStep
    <2>5. CASE RunStatement
      BY <2>5, RolesStatementStep
    <2>6. CASE Interrupt
      BY <2>6, RolesInterruptStep
    <2>7. CASE UNCHANGED roleVars
      BY <2>7, RolesStutterStep
    <2> QED
      BY <2>1, <2>2, <2>3, <2>4, <2>5, <2>6, <2>7 DEF RolesNext
  <1> QED
    BY <1>1, RolesBegin, PTL DEF RolesSpec

(* No role ever reads what the isolation matrix denies it, half way        *)
(* through a bootstrap or after tables were replaced or changed owner;     *)
(* once a bootstrap has ended every role reads what the matrix allows it   *)
(* and is not refused its verb, for any number of bootstraps, interrupted  *)
(* anywhere, and of writes between their statements.                       *)
THEOREM RolesAlwaysKeepTheMatrix ==
    ASSUME Snowflake \/ ~AdminWrites
    PROVE  RolesSpec => []RolesKeepTheMatrix
  BY RolesInvariantHolds, RolesInvariantKeepsTheMatrix, PTL

-----------------------------------------------------------------------------
(* The order reference: days, and what an export makes of the tables.      *)

LEMMA FirstOfNumbers ==
    ASSUME NEW S \in SUBSET Nat, S # {}
    PROVE  Min(S) \in S /\ \A n \in S : Min(S) <= n
  BY LeastExists DEF Min

LEMMA LastOfNumbers ==
    ASSUME NEW S \in SUBSET Nat, S # {}, NEW last \in Nat, \A n \in S : n <= last
    PROVE  Max(S) \in S /\ \A n \in S : n <= Max(S)
  <1> DEFINE T == {last - n : n \in S}
  <1>1. T \in SUBSET Nat /\ T # {}
    <2>1. ASSUME NEW n \in S
          PROVE  last - n \in Nat /\ last - n \in T
      <3>1. n \in Nat /\ n <= last
        OBVIOUS
      <3>2. last - n \in Nat
        BY <3>1
      <3> QED
        BY <3>2
    <2> QED
      BY <2>1
  <1>2. Min(T) \in T /\ \A k \in T : Min(T) <= k
    BY <1>1, FirstOfNumbers
  <1>3. PICK m \in S : Min(T) = last - m
    BY <1>2
  <1>4. \A n \in S : n <= m
    <2> SUFFICES ASSUME NEW n \in S
                 PROVE  n <= m
      OBVIOUS
    <2>1. last - m <= last - n
      BY <1>2, <1>3
    <2>2. n \in Nat /\ m \in Nat
      OBVIOUS
    <2> QED
      BY <2>1, <2>2
  <1> QED
    BY <1>4 DEF Max

LEMMA LastDay ==
    ASSUME NEW S \in SUBSET Day, S # {}
    PROVE  Max(S) \in S /\ \A n \in S : n <= Max(S)
  <1>1. PICK last \in Day : \A d \in Day : d <= last
    BY ReferenceAssumption
  <1>2. S \in SUBSET Nat /\ last \in Nat /\ \A n \in S : n <= last
    BY <1>1, ReferenceAssumption
  <1> QED
    BY <1>2, LastOfNumbers

LEMMA FirstDay ==
    ASSUME NEW S \in SUBSET Day, S # {}
    PROVE  Min(S) \in S /\ \A n \in S : Min(S) <= n
  BY FirstOfNumbers, ReferenceAssumption

-----------------------------------------------------------------------------
\* The tables hold what was there and what landed since.
TablesFact ==
    /\ tables = [landed |-> tables.landed, bases |-> tables.bases]
    /\ Landed \subseteq tables.landed /\ tables.landed \subseteq Landed \union LateCatalog
    /\ DOMAIN tables.bases = Day
    /\ \A d \in Day : Bases[d] # None => tables.bases[d] = Base[Bases[d]]
    /\ \A d \in Day : tables.bases[d] # None =>
         \E g \in Landing : g[1] = d /\ tables.bases[d] = Base[g[2]]

\* Tables only grow.
Grow(t, u) ==
    /\ t.landed \subseteq u.landed
    /\ \A d \in Day : t.bases[d] # None => u.bases[d] = t.bases[d]

\* Somebody is in a generation as a row has him, and in the one it calls the first.
KnownRows(t, rows) ==
    /\ \A g \in Day : Bases[g] # None => DOMAIN Base[Bases[g]] \subseteq DOMAIN rows
    /\ \A c \in DOMAIN rows :
         /\ rows[c].first \in Day
         /\ t.bases[rows[c].first] # None
         /\ c \in DOMAIN t.bases[rows[c].first]
         /\ \E g \in Day :
              /\ t.bases[g] # None
              /\ c \in DOMAIN t.bases[g]
              /\ t.bases[g][c].wh = rows[c].wh
              /\ t.bases[g][c].home = rows[c].home
              /\ t.bases[g][c].birth = rows[c].birth
         /\ \A g \in Day :
              Bases[g] # None /\ c \in DOMAIN Base[Bases[g]] => rows[c].first <= g

\* What the catalog of a warehouse and a day has on sale, a product once.
OnSale(wh, d) ==
    {s \in Catalog[wh][d] :
        /\ s.price > 0
        /\ \A o \in Catalog[wh][d] :
             o.price > 0 /\ o.id = s.id =>
               s.at[2] < o.at[2] \/ (s.at[2] = o.at[2] /\ s.at[3] <= o.at[3])}

\* The rows of a date are what was on sale then, all of it.
SoldRows(t, rows) ==
    /\ \A r \in rows :
         /\ r.wh \in Wh /\ r.price_as_of \in Day
         /\ << r.wh, r.price_as_of >> \in t.landed
         /\ \E s \in OnSale(r.wh, r.price_as_of) : r.id = s.id /\ r.price = s.price
    /\ \A r, q \in rows :
         r.wh = q.wh /\ r.price_as_of = q.price_as_of /\ r.id = q.id => r = q
    /\ \A wh \in Wh : \A d \in Day : << wh, d >> \in PairsOf(rows) =>
         \A s \in OnSale(wh, d) : \E r \in rows :
           r.wh = wh /\ r.price_as_of = d /\ r.id = s.id /\ r.price = s.price

\* A price is of a landed day, not a later one, and no earlier than it has to be.
PricedDays(t, rows, days) ==
    /\ DOMAIN rows = Wh \X days
    /\ \A wh \in Wh : \A d \in days :
         LET as_of == rows[<< wh, d >>].price_as_of
         IN  /\ as_of \in Day /\ as_of <= d /\ << wh, as_of >> \in t.landed
             /\ \A c \in Day : << wh, c >> \in Landed /\ c <= d => c <= as_of
             /\ rows[<< wh, d >>].price_source
                  = IF as_of = d THEN "observed" ELSE "carried_forward"

\* What a file holds, by its place in Files.
CustomersFact(t, x) ==
    /\ KnownRows(t, x.rows)
    /\ x.generations \subseteq Generations(t.bases)
    /\ \A d \in Day : Bases[d] # None => d \in x.generations
    /\ \A c \in DOMAIN x.rows : x.rows[c].first \in x.generations
CatalogFact(t, x) == SoldRows(t, x.rows)
CalendarFact(t, x) == x.window \in Window /\ PricedDays(t, x.rows, Days(x.window))
PremisesFact(x) == x.edition \in DOMAIN Premise
DemandFact(t, x) ==
    \E rows : \E window \in Window : \E e \in DOMAIN Premise :
        KnownRows(t, rows) /\ x.vectors = Cohorts(rows, Premise[e].minAge, window[1])

Fact(t, i, x) ==
    /\ i = 1 => CustomersFact(t, x)
    /\ i = 2 => CatalogFact(t, x)
    /\ i = 3 => CalendarFact(t, x)
    /\ i = 4 => PremisesFact(x)
    /\ i = 5 => DemandFact(t, x)

LEMMA KnownRowsStay ==
    ASSUME NEW t, NEW u, Grow(t, u), NEW rows, KnownRows(t, rows)
    PROVE  KnownRows(u, rows)
  <1> SUFFICES ASSUME NEW c \in DOMAIN rows
               PROVE  /\ rows[c].first \in Day
                      /\ u.bases[rows[c].first] # None
                      /\ c \in DOMAIN u.bases[rows[c].first]
                      /\ \E g \in Day :
                           /\ u.bases[g] # None
                           /\ c \in DOMAIN u.bases[g]
                           /\ u.bases[g][c].wh = rows[c].wh
                           /\ u.bases[g][c].home = rows[c].home
                           /\ u.bases[g][c].birth = rows[c].birth
    BY DEF KnownRows
  <1>1. /\ rows[c].first \in Day
        /\ t.bases[rows[c].first] # None
        /\ c \in DOMAIN t.bases[rows[c].first]
    BY DEF KnownRows
  <1>2. PICK g \in Day :
           /\ t.bases[g] # None
           /\ c \in DOMAIN t.bases[g]
           /\ t.bases[g][c].wh = rows[c].wh
           /\ t.bases[g][c].home = rows[c].home
           /\ t.bases[g][c].birth = rows[c].birth
    BY DEF KnownRows
  <1>3. u.bases[rows[c].first] = t.bases[rows[c].first] /\ u.bases[g] = t.bases[g]
    BY <1>1, <1>2 DEF Grow
  <1> QED
    BY <1>1, <1>2, <1>3

LEMMA SoldRowsStay ==
    ASSUME NEW t, NEW u, Grow(t, u), NEW rows, SoldRows(t, rows)
    PROVE  SoldRows(u, rows)
  BY DEF SoldRows, Grow

LEMMA PricedDaysStay ==
    ASSUME NEW t, NEW u, Grow(t, u), NEW rows, NEW days, PricedDays(t, rows, days)
    PROVE  PricedDays(u, rows, days)
  BY DEF PricedDays, Grow

LEMMA FactStays ==
    ASSUME NEW t, NEW u, Grow(t, u), NEW i, NEW x, Fact(t, i, x)
    PROVE  Fact(u, i, x)
  <1>1. CustomersFact(t, x) => CustomersFact(u, x)
    <2>1. Generations(t.bases) \subseteq Generations(u.bases)
      BY DEF Generations, Grow
    <2> QED
      BY <2>1, KnownRowsStay DEF CustomersFact
  <1>2. CatalogFact(t, x) => CatalogFact(u, x)
    BY SoldRowsStay DEF CatalogFact
  <1>3. CalendarFact(t, x) => CalendarFact(u, x)
    BY PricedDaysStay DEF CalendarFact
  <1>4. DemandFact(t, x) => DemandFact(u, x)
    BY KnownRowsStay DEF DemandFact
  <1> QED
    BY <1>1, <1>2, <1>3, <1>4 DEF Fact

\* The tables do not know a pair or a generation before it lands.
LEMMA TablesAre ==
    ASSUME TablesFact
    PROVE  /\ tables.landed \subseteq Wh \X Day
           /\ Generations(tables.bases) \subseteq Day
           /\ \A d \in Day : Bases[d] # None =>
                tables.bases[d] # None /\ tables.bases[d] = Base[Bases[d]]
  <1>1. tables.landed \subseteq Wh \X Day
    BY ReferenceAssumption DEF TablesFact
  <1>2. \A d \in Day : Bases[d] # None => Bases[d] \in DOMAIN Base
    BY SeedsAssumption
  <1> QED
    BY <1>1, <1>2, SeedsAssumption DEF TablesFact, Generations

\* _build_calendar, when no day is refused.
LEMMA CalendarIs ==
    ASSUME TablesFact, NEW window \in Window,
           \A p \in Wh \X Days(window) :
             Calendar(tables.landed, Days(window))[p].price_as_of # None
    PROVE  PricedDays(tables, Calendar(tables.landed, Days(window)), Days(window))
  <1> DEFINE days == Days(window)
             rows == Calendar(tables.landed, days)
  <1>1. days \subseteq Day
    BY ReferenceAssumption DEF Days
  <1>2. DOMAIN rows = Wh \X days
    BY DEF Calendar
  <1>3. ASSUME NEW wh \in Wh, NEW d \in days
        PROVE  LET as_of == rows[<< wh, d >>].price_as_of
               IN  /\ as_of \in Day /\ as_of <= d /\ << wh, as_of >> \in tables.landed
                   /\ \A c \in Day : << wh, c >> \in Landed /\ c <= d => c <= as_of
                   /\ rows[<< wh, d >>].price_source
                        = IF as_of = d THEN "observed" ELSE "carried_forward"
    <2> DEFINE dates == {c \in Day : << wh, c >> \in tables.landed /\ c <= d}
               as_of == PriceAsOf(tables.landed, wh, d)
    <2>1. rows[<< wh, d >>] = [price_as_of |-> as_of,
                               price_source |-> IF as_of = d THEN "observed"
                                                ELSE "carried_forward"]
      BY DEF Calendar
    <2>2. as_of # None
      <3>1. << wh, d >> \in Wh \X Days(window)
        OBVIOUS
      <3>2. rows[<< wh, d >>].price_as_of # None
        BY <3>1
      <3> HIDE DEF as_of, rows
      <3> QED
        BY <2>1, <3>2
    <2>3. dates # {} /\ as_of = Max(dates)
      BY <2>2 DEF PriceAsOf
    <2>4. dates \in SUBSET Day
      OBVIOUS
    <2> HIDE DEF dates, as_of
    <2>5. as_of \in dates /\ \A c \in dates : c <= as_of
      BY <2>3, <2>4, LastDay
    <2>6. \A c \in Day : << wh, c >> \in Landed /\ c <= d => c \in dates
      BY DEF dates, TablesFact
    <2>7. as_of \in Day /\ as_of <= d /\ << wh, as_of >> \in tables.landed
      BY <2>5 DEF dates
    <2> HIDE DEF rows
    <2> QED
      BY <2>1, <2>5, <2>6, <2>7
  <1> HIDE DEF rows
  <1> QED
    BY <1>2, <1>3 DEF PricedDays, rows, days

\* silver_product_price gives a product one row.
LEMMA OnSaleOnce ==
    ASSUME NEW wh \in Wh, NEW d \in Day, NEW r \in OnSale(wh, d), NEW s \in OnSale(wh, d),
           r.id = s.id
    PROVE  r = s
  <1>1. r \in Catalog[wh][d] /\ s \in Catalog[wh][d] /\ r.price > 0 /\ s.price > 0
    BY DEF OnSale
  <1>2. /\ r.at[2] < s.at[2] \/ (r.at[2] = s.at[2] /\ r.at[3] <= s.at[3])
        /\ s.at[2] < r.at[2] \/ (s.at[2] = r.at[2] /\ s.at[3] <= r.at[3])
    BY <1>1 DEF OnSale
  <1>3. {r.at[2], r.at[3], s.at[2], s.at[3]} \subseteq Nat
    BY <1>1, CatalogAssumption
  <1>4. r.at[2] = s.at[2] /\ r.at[3] = s.at[3]
    BY <1>2, <1>3
  <1> QED
    BY <1>1, <1>4, CatalogAssumption

\* What a row of CatalogRows is made of.
Stocked(p, s) == [wh |-> p[1], price_as_of |-> p[2], id |-> s.id, at |-> s.at, price |-> s.price]

LEMMA CatalogRowsAre ==
    ASSUME NEW landed, NEW dates
    PROVE  \A q : q \in CatalogRows(landed, dates) <=>
             \E p \in landed : p[2] \in dates /\ \E s \in OnSale(p[1], p[2]) : q = Stocked(p, s)
  BY DEF CatalogRows, OnSale, Stocked

\* The rows as they are written, with their group.
Written(rules, q) ==
    [wh |-> q.wh, price_as_of |-> q.price_as_of, id |-> q.id, price |-> q.price,
     sub |-> q.at[3], category |-> q.at[2], group |-> GroupOf(rules, q.at)]

LEMMA CatalogIs ==
    ASSUME TablesFact, NEW dates, dates \subseteq Day, NEW rules
    PROVE  SoldRows(tables, {Written(rules, q) : q \in CatalogRows(tables.landed, dates)})
  <1> DEFINE raw == CatalogRows(tables.landed, dates)
             rows == {Written(rules, q) : q \in raw}
  <1>1. ASSUME NEW r \in rows
        PROVE  \E p \in tables.landed : \E s \in OnSale(p[1], p[2]) :
                 /\ p \in Wh \X Day /\ p[2] \in dates
                 /\ r = Written(rules, Stocked(p, s))
    BY CatalogRowsAre, TablesAre
  <1>2. ASSUME NEW p \in tables.landed, p[2] \in dates, NEW s \in OnSale(p[1], p[2])
        PROVE  Written(rules, Stocked(p, s)) \in rows
    BY <1>2, CatalogRowsAre
  <1>3. \A p, s : LET r == Written(rules, Stocked(p, s)) IN
          r.wh = p[1] /\ r.price_as_of = p[2] /\ r.id = s.id /\ r.price = s.price
    BY DEF Written, Stocked
  <1> HIDE DEF rows
  <1>4. ASSUME NEW r \in rows
        PROVE  /\ r.wh \in Wh /\ r.price_as_of \in Day
               /\ << r.wh, r.price_as_of >> \in tables.landed
               /\ r.price_as_of \in dates
               /\ \E s \in OnSale(r.wh, r.price_as_of) : r.id = s.id /\ r.price = s.price
    BY <1>1, <1>3
  <1>5. ASSUME NEW r \in rows, NEW q \in rows,
               r.wh = q.wh, r.price_as_of = q.price_as_of, r.id = q.id
        PROVE  r = q
    <2>1. PICK p \in tables.landed : \E s \in OnSale(p[1], p[2]) :
            p \in Wh \X Day /\ r = Written(rules, Stocked(p, s))
      BY <1>1
    <2>2. PICK s \in OnSale(p[1], p[2]) : p \in Wh \X Day /\ r = Written(rules, Stocked(p, s))
      BY <2>1
    <2>3. PICK o \in tables.landed : \E k \in OnSale(o[1], o[2]) :
            o \in Wh \X Day /\ q = Written(rules, Stocked(o, k))
      BY <1>1
    <2>4. PICK k \in OnSale(o[1], o[2]) : o \in Wh \X Day /\ q = Written(rules, Stocked(o, k))
      BY <2>3
    <2>5. p[1] = o[1] /\ p[2] = o[2] /\ s.id = k.id
      BY <1>3, <1>5, <2>2, <2>4
    <2>6. p = o
      BY <2>2, <2>4, <2>5
    <2>7. s = k
      BY <2>2, <2>4, <2>5, OnSaleOnce
    <2> QED
      BY <2>2, <2>4, <2>6, <2>7
  <1>6. ASSUME NEW wh \in Wh, NEW d \in Day, << wh, d >> \in PairsOf(rows),
               NEW s \in OnSale(wh, d)
        PROVE  \E r \in rows :
                 r.wh = wh /\ r.price_as_of = d /\ r.id = s.id /\ r.price = s.price
    <2>1. PICK q \in rows : q.wh = wh /\ q.price_as_of = d
      BY <1>6 DEF PairsOf
    <2>2. << wh, d >> \in tables.landed /\ d \in dates
      BY <1>4, <2>1
    <2>3. Written(rules, Stocked(<< wh, d >>, s)) \in rows
      BY <1>2, <2>2
    <2> QED
      BY <1>3, <2>3
  <1> QED
    BY <1>4, <1>5, <1>6 DEF SoldRows, rows

\* _CUSTOMERS_SQL, on the generations of the moment.
LEMMA CustomersAre ==
    ASSUME TablesFact
    PROVE  KnownRows(tables, CustomerRows(tables.bases))
  <1> DEFINE bases == tables.bases
             rows == CustomerRows(bases)
  <1>1. DOMAIN rows = CustomersIn(bases)
    BY DEF CustomerRows
  <1>2. ASSUME NEW g \in Day, Bases[g] # None
        PROVE  DOMAIN Base[Bases[g]] \subseteq DOMAIN rows
    BY <1>1, <1>2, TablesAre DEF CustomersIn, Generations
  <1>3. ASSUME NEW c \in DOMAIN rows
        PROVE  /\ rows[c].first \in Day
               /\ bases[rows[c].first] # None
               /\ c \in DOMAIN bases[rows[c].first]
               /\ \E g \in Day :
                    /\ bases[g] # None
                    /\ c \in DOMAIN bases[g]
                    /\ bases[g][c].wh = rows[c].wh
                    /\ bases[g][c].home = rows[c].home
                    /\ bases[g][c].birth = rows[c].birth
               /\ \A g \in Day :
                    Bases[g] # None /\ c \in DOMAIN Base[Bases[g]] => rows[c].first <= g
    <2> DEFINE known == KnownIn(bases, c)
    <2>1. known \in SUBSET Day /\ known # {}
      BY <1>1 DEF CustomersIn, KnownIn, Generations
    <2>2. \A g \in known : g \in Day /\ bases[g] # None /\ c \in DOMAIN bases[g]
      BY DEF KnownIn, Generations
    <2>3. \A g \in Day : Bases[g] # None /\ c \in DOMAIN Base[Bases[g]] => g \in known
      BY TablesAre DEF KnownIn, Generations
    <2>4. rows[c] = [wh |-> bases[Max(known)][c].wh, home |-> bases[Max(known)][c].home,
                     birth |-> bases[Max(known)][c].birth, first |-> Min(known)]
      BY <1>1 DEF CustomerRows
    <2> HIDE DEF known, rows
    <2>5. Max(known) \in known
      BY <2>1, LastDay
    <2>6. Min(known) \in known /\ \A n \in known : Min(known) <= n
      BY <2>1, FirstDay
    <2> QED
      BY <2>2, <2>3, <2>4, <2>5, <2>6
  <1> HIDE DEF rows
  <1> QED
    BY <1>2, <1>3 DEF KnownRows, rows

-----------------------------------------------------------------------------
(* What the files of a reference give to a warehouse and a day.            *)

\* An order of the files r for the warehouse and the day p.
Follows(order, r, p) ==
    LET row == r[3].rows[p]
        who == r[1].rows[order.customer]
        rows == RowsOf(r[2].rows, p[1], row.price_as_of)
        premise == Premise[r[4].edition]
    IN  /\ order.customer \in DOMAIN r[1].rows /\ who.wh = p[1] /\ who.home = order.home
        /\ order.version = VersionAt(r[1], who.first, p[2]) /\ order.version # None
        /\ AgeOn(who.birth, p[2]) >= premise.minAge
        /\ order.band = BandOf(AgeOn(who.birth, p[2]))
        /\ order.price_as_of = row.price_as_of /\ order.price_source = row.price_source
        /\ order.lines \subseteq rows /\ order.lines # {}
        /\ Worth(order.lines) >= premise.minOrder
        /\ order.substitute # None => order.substitute \in rows

OrdersOf(r, p) == Orders(r[1], r[2], r[3], Premise[r[4].edition], r[5], p[1], p[2])

LEMMA NothingIsWorthNothing == Worth({}) = 0
  <1>1. SUBSET {} = {{}}
    OBVIOUS
  <1> QED
    BY <1>1 DEF Worth, MapThenSumSet, MapThenFoldSet

LEMMA SubstitutesAreSold ==
    ASSUME NEW all, NEW wh, NEW as_of, NEW line, NEW taken
    PROVE  Substitutes(all, wh, as_of, line, taken) \subseteq RowsOf(all, wh, as_of)
  BY DEF Substitutes

LEMMA OrdersFollow ==
    ASSUME NEW r, NEW p \in Wh \X Day, NEW order \in OrdersOf(r, p), PremisesFact(r[4])
    PROVE  Follows(order, r, p)
  <1> DEFINE row == r[3].rows[<< p[1], p[2] >>]
             rows == RowsOf(r[2].rows, p[1], row.price_as_of)
             premise == Premise[r[4].edition]
             Swaps(lines) ==
               {None} \union UNION {Substitutes(r[2].rows, p[1], row.price_as_of, l,
                                                {o.id : o \in lines}) : l \in lines}
             Made(lines, c, swap) ==
               [customer |-> c, version |-> VersionAt(r[1], r[1].rows[c].first, p[2]),
                home |-> r[1].rows[c].home,
                band |-> BandOf(AgeOn(r[1].rows[c].birth, p[2])),
                price_as_of |-> row.price_as_of, price_source |-> row.price_source,
                lines |-> lines, substitute |-> swap]
             Of(lines) == {Made(lines, c, swap) :
                             c \in Eligible(r[1], premise.minAge, p[1], p[2]),
                             swap \in Swaps(lines)}
  <1>1. row = r[3].rows[p]
    <2>1. p = << p[1], p[2] >>
      OBVIOUS
    <2> QED
      BY <2>1, Zenon
  <1>2. \E lines \in Baskets(rows, r[5].weighted, premise) :
        \E c \in Eligible(r[1], premise.minAge, p[1], p[2]) : \E swap \in Swaps(lines) :
          order = Made(lines, c, swap)
    <2>1. OrdersOf(r, p) = UNION {Of(lines) : lines \in Baskets(rows, r[5].weighted, premise)}
      BY SMT DEF OrdersOf, Orders
    <2> HIDE DEF rows, row, premise, Swaps, Made
    <2>2. PICK lines \in Baskets(rows, r[5].weighted, premise) : order \in Of(lines)
      <3> HIDE DEF Of
      <3> QED
        BY <2>1
    <2> QED
      BY <2>2
  <1>3. PICK lines \in Baskets(rows, r[5].weighted, premise) :
        \E c \in Eligible(r[1], premise.minAge, p[1], p[2]) : \E swap \in Swaps(lines) :
          order = Made(lines, c, swap)
    BY <1>2
  <1>4. PICK c \in Eligible(r[1], premise.minAge, p[1], p[2]) : \E swap \in Swaps(lines) :
          order = Made(lines, c, swap)
    BY <1>3
  <1>5. PICK swap \in Swaps(lines) : order = Made(lines, c, swap)
    BY <1>4
  <1>6. lines \subseteq rows /\ Worth(lines) >= premise.minOrder
    BY DEF Baskets
  <1>7. lines # {}
    <2>1. premise.minOrder \in Nat \ {0}
      BY SeedsAssumption DEF PremisesFact
    <2> QED
      BY <1>6, <2>1, NothingIsWorthNothing
  <1>8. swap # None => swap \in rows
    BY SubstitutesAreSold
  <1>9. /\ c \in DOMAIN r[1].rows /\ r[1].rows[c].wh = p[1]
        /\ VersionAt(r[1], r[1].rows[c].first, p[2]) # None
        /\ AgeOn(r[1].rows[c].birth, p[2]) >= premise.minAge
    BY DEF Eligible
  <1>10. /\ order.customer = c /\ order.version = VersionAt(r[1], r[1].rows[c].first, p[2])
         /\ order.home = r[1].rows[c].home
         /\ order.band = BandOf(AgeOn(r[1].rows[c].birth, p[2]))
         /\ order.price_as_of = row.price_as_of /\ order.price_source = row.price_source
         /\ order.lines = lines /\ order.substitute = swap
    BY <1>5
  <1> HIDE DEF row, rows, premise, Swaps, Made, Of
  <1> QED
    BY <1>1, <1>6, <1>7, <1>8, <1>9, <1>10 DEF Follows, row, rows, premise

\* A generation keeps whom an earlier one had.
LEMMA KnownLater ==
    ASSUME TablesFact, BaseOnlyGrows, NEW g \in Day, NEW h \in Day, g <= h,
           tables.bases[g] # None, tables.bases[h] # None, NEW c \in DOMAIN tables.bases[g]
    PROVE  c \in DOMAIN tables.bases[h] /\ tables.bases[h][c] = tables.bases[g][c]
  <1>1. PICK m \in Landing : m[1] = g /\ tables.bases[g] = Base[m[2]]
    BY DEF TablesFact
  <1>2. PICK n \in Landing : n[1] = h /\ tables.bases[h] = Base[n[2]]
    BY DEF TablesFact
  <1> QED
    BY <1>1, <1>2 DEF BaseOnlyGrows

\* Whoever is in two generations is the same in both.
LEMMA KnownAlike ==
    ASSUME TablesFact, BaseOnlyGrows, NEW g \in Day, NEW h \in Day,
           tables.bases[g] # None, tables.bases[h] # None,
           NEW c \in DOMAIN tables.bases[g], c \in DOMAIN tables.bases[h]
    PROVE  tables.bases[h][c] = tables.bases[g][c]
  <1>1. g <= h \/ h <= g
    BY ReferenceAssumption
  <1> QED
    BY <1>1, KnownLater

\* A row is what every generation that has its customer says.
LEMMA RowsAreKnown ==
    ASSUME TablesFact, BaseOnlyGrows, NEW rows, KnownRows(tables, rows), NEW c \in DOMAIN rows,
           NEW g \in Day, tables.bases[g] # None, c \in DOMAIN tables.bases[g]
    PROVE  /\ rows[c].wh = tables.bases[g][c].wh
           /\ rows[c].home = tables.bases[g][c].home
           /\ rows[c].birth = tables.bases[g][c].birth
  <1>1. PICK h \in Day :
          /\ tables.bases[h] # None
          /\ c \in DOMAIN tables.bases[h]
          /\ tables.bases[h][c].wh = rows[c].wh
          /\ tables.bases[h][c].home = rows[c].home
          /\ tables.bases[h][c].birth = rows[c].birth
    BY DEF KnownRows
  <1>2. tables.bases[h][c] = tables.bases[g][c]
    BY <1>1, KnownAlike
  <1> QED
    BY <1>1, <1>2

\* customer_version_at names a generation that has the customer.
LEMMA VersionHasHim ==
    ASSUME TablesFact, BaseOnlyGrows, NEW x, CustomersFact(tables, x), NEW c \in DOMAIN x.rows,
           NEW d \in Day, NEW version, version = VersionAt(x, x.rows[c].first, d),
           version # None
    PROVE  /\ version \in Day /\ version <= d
           /\ tables.bases[version] # None /\ c \in DOMAIN tables.bases[version]
  <1> DEFINE past == {g \in x.generations : g <= d}
             first == x.rows[c].first
  <1>1. ~(d < first) /\ past # {} /\ version = Max(past)
    BY DEF VersionAt
  <1>2. past \in SUBSET Day
    BY DEF CustomersFact, Generations
  <1>3. version \in past /\ \A g \in past : g <= version
    BY <1>1, <1>2, LastDay
  <1>4. version \in Day /\ version <= d /\ tables.bases[version] # None
    BY <1>3 DEF CustomersFact, Generations
  <1>5. first \in Day /\ tables.bases[first] # None /\ c \in DOMAIN tables.bases[first]
    BY DEF CustomersFact, KnownRows
  <1>6. first \in past
    <2>1. first \in x.generations
      BY DEF CustomersFact
    <2>2. first <= d
      <3>1. first \in Nat /\ d \in Nat
        BY <1>5, ReferenceAssumption
      <3> HIDE DEF first
      <3> QED
        BY <1>1, <3>1
    <2> QED
      BY <2>1, <2>2
  <1>7. first <= version
    BY <1>3, <1>6
  <1> QED
    BY <1>4, <1>5, <1>7, KnownLater

LEMMA LinesAreSold ==
    ASSUME NEW t, NEW rows, SoldRows(t, rows), NEW wh, NEW as_of,
           NEW line \in RowsOf(rows, wh, as_of)
    PROVE  /\ wh \in Wh /\ as_of \in Day
           /\ \E s \in OnSale(wh, as_of) : line.id = s.id /\ line.price = s.price
  <1>1. line \in rows /\ line.wh = wh /\ line.price_as_of = as_of
    BY DEF RowsOf
  <1>2. /\ line.wh \in Wh /\ line.price_as_of \in Day
        /\ \E s \in OnSale(line.wh, line.price_as_of) : line.id = s.id /\ line.price = s.price
    BY <1>1 DEF SoldRows
  <1> QED
    BY <1>1, <1>2

LEMMA SaleIsPriced ==
    ASSUME NEW wh, NEW d, NEW s \in OnSale(wh, d)
    PROVE  s \in Catalog[wh][d] /\ s.price > 0
  BY DEF OnSale

\* What the files r gave, checked with the files r.
LEMMA FollowsIsAccepted ==
    ASSUME NEW r, NEW p \in DOMAIN r[3].rows, Follows(partition[p].order, r, p),
           partition[p].manifest.version = r[5].version,
           partition[p].manifest.premises = r[4].edition
    PROVE  Accepts(p, r[1], r[2], r[3], r[4], r[5])
  <1> DEFINE order == partition[p].order
             rows == RowsOf(r[2].rows, p[1], r[3].rows[p].price_as_of)
  <1>1. order.lines \subseteq rows /\ order.lines # {}
    BY DEF Follows
  <1>2. order.substitute # None => order.substitute \in rows
    BY DEF Follows
  <1>3. \A line \in rows : LineHolds(rows, line)
    BY DEF LineHolds
  <1>4. \A line \in order.lines : LineHolds(rows, line)
    BY <1>1, <1>3
  <1>5. order.substitute # None => LineHolds(rows, order.substitute)
    BY <1>2, <1>3
  <1>6. rows # {}
    BY <1>1
  <1> QED
    BY <1>4, <1>5, <1>6 DEF Follows, Accepts

\* Every price date of the calendar has rows.
PricedIn(x, y) ==
    {<< p[1], y.rows[p].price_as_of >> : p \in DOMAIN y.rows} \subseteq PairsOf(x.rows)

\* What landed by a day the program is asked for was there from the start.
LEMMA PriceIsSettled ==
    ASSUME TablesFact, LaterIsLater, NEW p \in Target, p \in Wh \X Day, NEW x, NEW y,
           CalendarFact(tables, x), CalendarFact(tables, y),
           p \in DOMAIN x.rows, p \in DOMAIN y.rows
    PROVE  /\ x.rows[p].price_as_of = y.rows[p].price_as_of
           /\ x.rows[p].price_source = y.rows[p].price_source
  <1> DEFINE a == x.rows[p].price_as_of
             b == y.rows[p].price_as_of
  <1>1. PICK wh \in Wh, d \in Day : p = << wh, d >>
    OBVIOUS
  <1>2. d \in Days(x.window) /\ d \in Days(y.window)
    BY <1>1 DEF CalendarFact, PricedDays
  <1>3. /\ a \in Day /\ a <= d /\ << wh, a >> \in tables.landed
        /\ \A c \in Day : << wh, c >> \in Landed /\ c <= d => c <= a
        /\ x.rows[p].price_source = IF a = d THEN "observed" ELSE "carried_forward"
    BY <1>1, <1>2 DEF CalendarFact, PricedDays
  <1>4. /\ b \in Day /\ b <= d /\ << wh, b >> \in tables.landed
        /\ \A c \in Day : << wh, c >> \in Landed /\ c <= d => c <= b
        /\ y.rows[p].price_source = IF b = d THEN "observed" ELSE "carried_forward"
    BY <1>1, <1>2 DEF CalendarFact, PricedDays
  <1> HIDE DEF a, b
  <1>5. ASSUME NEW c \in Day, c <= d, << wh, c >> \in tables.landed
        PROVE  << wh, c >> \in Landed
    <2>1. << wh, c >> \in LateCatalog => d < c
      BY <1>1 DEF LaterIsLater
    <2>2. c \in Nat /\ d \in Nat
      BY ReferenceAssumption
    <2>3. << wh, c >> \notin LateCatalog
      BY <1>5, <2>1, <2>2
    <2> QED
      BY <1>5, <2>3 DEF TablesFact
  <1>6. a <= b /\ b <= a
    BY <1>3, <1>4, <1>5
  <1>7. a = b
    BY <1>3, <1>4, <1>6, ReferenceAssumption
  <1> QED
    BY <1>3, <1>4, <1>7 DEF a, b

\* A generation of such a day was there from the start.
LEMMA GenerationIsSettled ==
    ASSUME TablesFact, LaterIsLater, NEW p \in Target, p \in Wh \X Day,
           NEW g \in Day, g <= p[2], tables.bases[g] # None
    PROVE  Bases[g] # None /\ tables.bases[g] = Base[Bases[g]]
  <1>1. PICK n \in Landing : n[1] = g /\ tables.bases[g] = Base[n[2]]
    BY DEF TablesFact
  <1>2. n \notin NextBase
    <2>1. n \in NextBase => p[2] < g
      BY <1>1 DEF LaterIsLater
    <2>2. p[2] \in Nat /\ g \in Nat
      BY ReferenceAssumption
    <2> QED
      BY <2>1, <2>2
  <1>3. Bases[g] # None
    BY <1>1, <1>2 DEF Landing
  <1> QED
    BY <1>3 DEF TablesFact

\* customer_version_at says the same of such a day with an earlier and a later export.
LEMMA VersionIsSettled ==
    ASSUME TablesFact, BaseOnlyGrows, LaterIsLater, NEW p \in Target, p \in Wh \X Day,
           NEW x, CustomersFact(tables, x), NEW y, CustomersFact(tables, y),
           NEW c \in DOMAIN x.rows, NEW version,
           version = VersionAt(x, x.rows[c].first, p[2]), version # None
    PROVE  /\ c \in DOMAIN y.rows
           /\ version = VersionAt(y, y.rows[c].first, p[2])
           /\ y.rows[c].wh = x.rows[c].wh /\ y.rows[c].home = x.rows[c].home
           /\ y.rows[c].birth = x.rows[c].birth
  <1> DEFINE d == p[2]
             Past(z) == {g \in z.generations : g <= d}
  <1>1. /\ version \in Day /\ version <= d
        /\ tables.bases[version] # None /\ c \in DOMAIN tables.bases[version]
    <2>1. d \in Day
      OBVIOUS
    <2> QED
      BY <2>1, VersionHasHim
  <1>2. Bases[version] # None /\ tables.bases[version] = Base[Bases[version]]
    BY <1>1, GenerationIsSettled
  <1>3. c \in DOMAIN y.rows /\ y.rows[c].first \in Day /\ y.rows[c].first <= version
    BY <1>1, <1>2 DEF CustomersFact, KnownRows
  <1>4. ASSUME NEW z, CustomersFact(tables, z)
        PROVE  Past(z) = {g \in Day : Bases[g] # None /\ g <= d}
    <2>1. \A g \in Past(z) : g \in Day /\ tables.bases[g] # None /\ g <= d
      BY <1>4 DEF CustomersFact, Generations
    <2>2. \A g \in Past(z) : Bases[g] # None
      BY <2>1, GenerationIsSettled
    <2>3. \A g \in Day : Bases[g] # None /\ g <= d => g \in Past(z)
      BY <1>4 DEF CustomersFact
    <2> QED
      BY <2>1, <2>2, <2>3
  <1>5. Past(x) = Past(y)
    BY <1>4
  <1>6. version = Max(Past(x)) /\ Past(x) # {}
    BY DEF VersionAt
  <1>7. ~(d < y.rows[c].first)
    <2>1. d \in Nat /\ version \in Nat /\ y.rows[c].first \in Nat
      BY <1>1, <1>3, ReferenceAssumption
    <2> QED
      BY <1>1, <1>3, <2>1
  <1>8. version = VersionAt(y, y.rows[c].first, p[2])
    BY <1>5, <1>6, <1>7 DEF VersionAt
  <1>9. /\ y.rows[c].wh = x.rows[c].wh /\ y.rows[c].home = x.rows[c].home
        /\ y.rows[c].birth = x.rows[c].birth
    <2>1. KnownRows(tables, x.rows) /\ KnownRows(tables, y.rows)
      BY DEF CustomersFact
    <2> QED
      BY <1>1, <1>3, <2>1, RowsAreKnown
  <1> QED
    BY <1>3, <1>8, <1>9

\* What the files r gave, checked with the files q of a later export.
LEMMA LaterFilesAccept ==
    ASSUME TablesFact, BaseOnlyGrows, LaterIsLater, NEW p \in Target, p \in Wh \X Day,
           NEW r, CustomersFact(tables, r[1]), CatalogFact(tables, r[2]),
           CalendarFact(tables, r[3]),
           NEW q, CustomersFact(tables, q[1]), CatalogFact(tables, q[2]),
           CalendarFact(tables, q[3]), PricedIn(q[2], q[3]),
           p \in DOMAIN r[3].rows, p \in DOMAIN q[3].rows, r[4].edition = q[4].edition,
           Follows(partition[p].order, r, p),
           partition[p].manifest.version = q[5].version,
           partition[p].manifest.premises = q[4].edition
    PROVE  Accepts(p, q[1], q[2], q[3], q[4], q[5])
  <1> DEFINE order == partition[p].order
             as_of == q[3].rows[p].price_as_of
             sold == RowsOf(r[2].rows, p[1], r[3].rows[p].price_as_of)
             rows == RowsOf(q[2].rows, p[1], as_of)
             who == q[1].rows[order.customer]
             premise == Premise[q[4].edition]
  <1>1. as_of = r[3].rows[p].price_as_of /\ q[3].rows[p].price_source = r[3].rows[p].price_source
    BY PriceIsSettled
  <1>2. << p[1], as_of >> \in PairsOf(q[2].rows)
    BY DEF PricedIn
  <1>3. rows # {}
    BY <1>2 DEF PairsOf, RowsOf
  <1>4. ASSUME NEW line \in sold
        PROVE  LineHolds(rows, line)
    <2>1. /\ p[1] \in Wh /\ as_of \in Day
          /\ \E s \in OnSale(p[1], as_of) : line.id = s.id /\ line.price = s.price
      BY <1>1, LinesAreSold DEF CatalogFact
    <2>2. PICK s \in OnSale(p[1], as_of) : line.id = s.id /\ line.price = s.price
      BY <2>1
    <2>3. \E o \in q[2].rows :
            o.wh = p[1] /\ o.price_as_of = as_of /\ o.id = s.id /\ o.price = s.price
      BY <1>2, <2>1 DEF CatalogFact, SoldRows
    <2> HIDE DEF as_of
    <2> QED
      BY <2>2, <2>3 DEF LineHolds, RowsOf
  <1>5. /\ order.customer \in DOMAIN q[1].rows
        /\ order.version = VersionAt(q[1], who.first, p[2])
        /\ who.wh = r[1].rows[order.customer].wh /\ who.home = r[1].rows[order.customer].home
        /\ who.birth = r[1].rows[order.customer].birth
    <2>1. /\ order.customer \in DOMAIN r[1].rows
          /\ order.version = VersionAt(r[1], r[1].rows[order.customer].first, p[2])
          /\ order.version # None
      BY DEF Follows
    <2> QED
      BY <2>1, VersionIsSettled
  <1>6. \A line \in order.lines : LineHolds(rows, line)
    BY <1>4 DEF Follows
  <1>7. order.substitute # None => LineHolds(rows, order.substitute)
    BY <1>4 DEF Follows
  <1>8. /\ order.version # None /\ r[1].rows[order.customer].wh = p[1]
        /\ r[1].rows[order.customer].home = order.home
        /\ AgeOn(r[1].rows[order.customer].birth, p[2]) >= premise.minAge
        /\ order.band = BandOf(AgeOn(r[1].rows[order.customer].birth, p[2]))
        /\ order.price_as_of = r[3].rows[p].price_as_of
        /\ order.price_source = r[3].rows[p].price_source
        /\ Worth(order.lines) >= premise.minOrder
    BY DEF Follows
  <1> QED
    BY <1>1, <1>3, <1>5, <1>6, <1>7, <1>8 DEF Accepts

\* OrdersAreGrounded, of one partition.
Grounded(p) ==
    LET order == partition[p].order
        premise == Premise[partition[p].manifest.premises]
        Sold(line) == \E r \in Catalog[p[1]][order.price_as_of] :
                        r.id = line.id /\ r.price = line.price /\ r.price > 0
    IN  /\ order.version <= p[2] /\ tables.bases[order.version] # None
        /\ order.customer \in DOMAIN tables.bases[order.version]
        /\ LET who == tables.bases[order.version][order.customer]
           IN  who.wh = p[1] /\ who.home = order.home /\ Year[p[2]] - who.birth >= premise.minAge
        /\ order.price_as_of <= p[2] /\ << p[1], order.price_as_of >> \in tables.landed
        /\ \A line \in order.lines : Sold(line)
        /\ order.substitute # None => Sold(order.substitute)

LEMMA FollowsIsGrounded ==
    ASSUME TablesFact, BaseOnlyGrows, NEW p \in Wh \X Day,
           NEW r, CustomersFact(tables, r[1]), CatalogFact(tables, r[2]),
           CalendarFact(tables, r[3]),
           p \in DOMAIN r[3].rows, Follows(partition[p].order, r, p),
           partition[p].manifest.premises = r[4].edition
    PROVE  Grounded(p)
  <1> DEFINE order == partition[p].order
             as_of == r[3].rows[p].price_as_of
             sold == RowsOf(r[2].rows, p[1], as_of)
             row == r[1].rows[order.customer]
             version == order.version
             premise == Premise[partition[p].manifest.premises]
  <1>1. /\ order.customer \in DOMAIN r[1].rows /\ row.wh = p[1] /\ row.home = order.home
        /\ version = VersionAt(r[1], row.first, p[2]) /\ version # None
        /\ AgeOn(row.birth, p[2]) >= premise.minAge
        /\ order.price_as_of = as_of
        /\ order.lines \subseteq sold
        /\ order.substitute # None => order.substitute \in sold
    BY DEF Follows
  <1>2. /\ version \in Day /\ version <= p[2]
        /\ tables.bases[version] # None /\ order.customer \in DOMAIN tables.bases[version]
    <2>1. p[2] \in Day
      OBVIOUS
    <2> QED
      BY <1>1, <2>1, VersionHasHim
  <1>3. /\ row.wh = tables.bases[version][order.customer].wh
        /\ row.home = tables.bases[version][order.customer].home
        /\ row.birth = tables.bases[version][order.customer].birth
    <2>1. KnownRows(tables, r[1].rows)
      BY DEF CustomersFact
    <2> QED
      BY <1>1, <1>2, <2>1, RowsAreKnown
  <1>4. as_of <= p[2] /\ << p[1], as_of >> \in tables.landed
    <2>1. PICK wh \in Wh, d \in Day : p = << wh, d >>
      OBVIOUS
    <2>2. d \in Days(r[3].window)
      BY <2>1 DEF CalendarFact, PricedDays
    <2> QED
      BY <2>1, <2>2 DEF CalendarFact, PricedDays
  <1>5. \A line \in sold : \E s \in Catalog[p[1]][as_of] :
          s.id = line.id /\ s.price = line.price /\ s.price > 0
    <2> SUFFICES ASSUME NEW line \in sold
                 PROVE  \E s \in Catalog[p[1]][as_of] :
                          s.id = line.id /\ s.price = line.price /\ s.price > 0
      OBVIOUS
    <2>1. PICK s \in OnSale(p[1], as_of) : line.id = s.id /\ line.price = s.price
      BY LinesAreSold DEF CatalogFact
    <2> QED
      BY <2>1, SaleIsPriced
  <1> HIDE DEF as_of, sold
  <1>6. Year[p[2]] - tables.bases[version][order.customer].birth >= premise.minAge
    BY <1>1, <1>3 DEF AgeOn
  <1> QED
    BY <1>1, <1>2, <1>3, <1>4, <1>5, <1>6 DEF Grounded

\* The groups of the demand profile are those of the catalog, some have a weight, and
\* every price date has them.
WeighedIn(x, z) ==
    /\ z.groups = GroupsOf(x.rows) /\ z.weighted # {}
    /\ \A p \in PairsOf(x.rows) : z.weighted \subseteq GroupsOf(RowsOf(x.rows, p[1], p[2]))

\* The cohorts of the profile hold every cohort a draw may reach.
LEMMA EveryBandIsCounted ==
    ASSUME TablesFact, BaseOnlyGrows, EveryBandBuys, NEW z, DemandFact(tables, z),
           NEW wh \in Wh, NEW b \in DOMAIN AgeBand
    PROVE  << AgeBand[b][1], WhRegion[wh] >> \in z.vectors
  <1>0. PICK rows : \E window \in Window : \E e \in DOMAIN Premise :
          KnownRows(tables, rows) /\ z.vectors = Cohorts(rows, Premise[e].minAge, window[1])
    BY DEF DemandFact
  <1>1. PICK window \in Window, e \in DOMAIN Premise :
          KnownRows(tables, rows) /\ z.vectors = Cohorts(rows, Premise[e].minAge, window[1])
    BY <1>0
  <1>2. PICK d \in Day : Bases[d] # None /\ \E c \in DOMAIN Base[Bases[d]] :
            LET who == Base[Bases[d]][c]
                age == AgeOn(who.birth, window[1])
            IN  /\ RegionOf[who.home] = WhRegion[wh]
                /\ age >= Premise[e].minAge /\ BandOf(age) = AgeBand[b][1]
    BY DEF EveryBandBuys
  <1>3. PICK c \in DOMAIN Base[Bases[d]] :
          /\ RegionOf[Base[Bases[d]][c].home] = WhRegion[wh]
          /\ AgeOn(Base[Bases[d]][c].birth, window[1]) >= Premise[e].minAge
          /\ BandOf(AgeOn(Base[Bases[d]][c].birth, window[1])) = AgeBand[b][1]
    BY <1>2
  <1>4. tables.bases[d] # None /\ tables.bases[d] = Base[Bases[d]]
    BY <1>2, TablesAre
  <1>5. c \in DOMAIN rows
    BY <1>1, <1>2 DEF KnownRows
  <1>6. rows[c].home = Base[Bases[d]][c].home /\ rows[c].birth = Base[Bases[d]][c].birth
    BY <1>1, <1>4, <1>5, RowsAreKnown
  <1>7. << BandOf(AgeOn(rows[c].birth, window[1])), RegionOf[rows[c].home] >> \in z.vectors
    BY <1>1, <1>3, <1>5, <1>6 DEF Cohorts
  <1> QED
    BY <1>3, <1>6, <1>7

\* Reference.__init__ takes what _assert_coverage let through.
LEMMA CoveredIsUsable ==
    ASSUME TablesFact, BaseOnlyGrows, EveryBandBuys, NEW x, NEW z,
           CatalogFact(tables, x), DemandFact(tables, z), WeighedIn(x, z)
    PROVE  Usable(x, z)
  <1> SUFFICES ASSUME NEW p \in PairsOf(x.rows)
               PROVE  /\ \A b \in DOMAIN AgeBand : << AgeBand[b][1], WhRegion[p[1]] >> \in z.vectors
                      /\ GroupsOf(RowsOf(x.rows, p[1], p[2])) \subseteq z.groups
                      /\ GroupsOf(RowsOf(x.rows, p[1], p[2])) \intersect z.weighted # {}
    BY DEF Usable
  <1>1. p[1] \in Wh
    BY DEF PairsOf, CatalogFact, SoldRows
  <1>2. GroupsOf(RowsOf(x.rows, p[1], p[2])) \subseteq z.groups
    BY DEF WeighedIn, GroupsOf, RowsOf
  <1>3. GroupsOf(RowsOf(x.rows, p[1], p[2])) \intersect z.weighted # {}
    BY DEF WeighedIn
  <1> QED
    BY <1>1, <1>2, <1>3, EveryBandIsCounted

\* A product has one row in the catalog of a warehouse and a day.
LEMMA ProductsAreCounted ==
    ASSUME NEW t, NEW rows, SoldRows(t, rows), NEW wh \in Wh, NEW d \in Day
    PROVE  Cardinality({r.id : r \in RowsOf(rows, wh, d)}) = Cardinality(RowsOf(rows, wh, d))
  <1> DEFINE pair == RowsOf(rows, wh, d)
             ids == {r.id : r \in pair}
             Sale(r) == CHOOSE s \in OnSale(wh, d) : r.id = s.id
             f == [r \in pair |-> Sale(r)]
             g == [r \in pair |-> r.id]
  <1>1. \A r, q \in pair : r.id = q.id => r = q
    BY DEF SoldRows, RowsOf
  <1>2. \A r \in pair : Sale(r) \in Catalog[wh][d] /\ r.id = Sale(r).id
    BY LinesAreSold, SaleIsPriced
  <1> HIDE DEF pair, Sale
  <1>3. f \in Injection(pair, Catalog[wh][d])
    BY <1>1, <1>2 DEF Injection, IsInjective
  <1>4. IsFiniteSet(pair)
    BY <1>3, FS_Injection, CatalogAssumption
  <1>5. g \in Bijection(pair, ids)
    BY <1>1 DEF Bijection, Injection, Surjection, IsInjective
  <1> QED
    BY <1>4, <1>5, FS_Bijection DEF ExistsBijection, pair

-----------------------------------------------------------------------------
(* The copies of the five files that are about.                            *)

FileNames == {Files[i] : i \in 1 .. 5}
Querying == {"calendar", "catalog", "tree", "drift", "customers", "profile"}

\* A file is there when it was written, which somebody who has read it knows.
There(i) ==
    \/ file[Files[i]] # None
    \/ reader.verb # "none" /\ i <= Len(reader.read)
    \/ \E p \in Target : partition[p] # None

\* x is a copy of the i-th file: on disk, in the memory of a reader, or about to be written.
Seen(i, x) ==
    \/ There(i) /\ x = file[Files[i]]
    \/ reader.verb # "none" /\ i <= Len(reader.read) /\ x = reader.read[i]
    \/ exp.pc = "write" /\ x = exp.payload[Files[i]]

\* A copy is true, of an export that was begun, and not of one that still queries.
CopiesAreTrue ==
    \A i \in 1 .. 5 : \A x : Seen(i, x) =>
        /\ Fact(tables, i, x)
        /\ x.made \in 1 .. used.export
        /\ exp.pc \in Querying => x.made # used.export

\* Copies of one export are equal.
CopiesAreEqual ==
    \A i \in 1 .. 5 : \A x, y : Seen(i, x) /\ Seen(i, y) /\ x.made = y.made => x = y

\* The catalog of an export has the prices of its calendar and the groups of its demand.
CopiesAgree ==
    \A x : Seen(2, x) =>
        /\ \A y : Seen(3, y) /\ x.made = y.made => PricedIn(x, y)
        /\ \A z : Seen(5, z) /\ x.made = z.made => WeighedIn(x, z)

\* A partition follows from five files, which no other export has made since.
From(p, r) ==
    /\ \A i \in 1 .. 5 :
         /\ Fact(tables, i, r[i])
         /\ r[i].made \in 1 .. used.export
         /\ exp.pc \in Querying => r[i].made # used.export
         /\ \A x : Seen(i, x) /\ x.made = r[i].made => x = r[i]
         /\ partition[p].manifest.reference[i] = r[i].made
    /\ p \in DOMAIN r[3].rows
    /\ Follows(partition[p].order, r, p)
    /\ partition[p].manifest.version = r[5].version
    /\ partition[p].manifest.premises = r[4].edition

PartitionsFollow == \A p \in Target : partition[p] # None => \E r : From(p, r)

CopiesInvariant == CopiesAreTrue /\ CopiesAreEqual /\ CopiesAgree /\ PartitionsFollow

\* What the export has computed so far.
WriteFact ==
    LET out == exp.payload IN
    /\ DOMAIN exp = {"pc", "left", "payload"}
    /\ exp.left \in Seq(FileNames) /\ exp.left # << >>
    /\ {out.customers.rows[c].wh : c \in DOMAIN out.customers.rows} = Wh
    /\ PricedIn(out.catalog, out.calendar)
    /\ WeighedIn(out.catalog, out.demand)
    /\ \A p \in PairsOf(out.catalog.rows) :
         Cardinality(RowsOf(out.catalog.rows, p[1], p[2]))
           >= Premise[out.premises.edition].lines[2]

ExportFact ==
    /\ exp.pc \in {"idle", "write"} \union Querying
    /\ exp.pc \in Querying =>
         /\ exp.window \in Window /\ exp.premise \in DOMAIN Premise
         /\ exp.made = used.export /\ used.export >= 1
    /\ exp.pc \in Querying \ {"calendar"} =>
         PricedDays(tables, exp.calendar, Days(exp.window))
    /\ exp.pc \in {"catalog", "tree"} => exp.dates \subseteq Day
    /\ exp.pc \in {"tree", "drift", "customers", "profile"} => SoldRows(tables, exp.catalog)
    /\ exp.pc \in {"tree", "drift", "customers"} =>
         DOMAIN exp = {"pc", "window", "premise", "made", "calendar", "dates", "rules", "catalog"}
    /\ exp.pc = "profile" => KnownRows(tables, exp.rows)
    /\ exp.pc = "write" => WriteFact

ReaderFact ==
    \/ reader = Still
    \/ /\ reader = [verb |-> reader.verb, p |-> reader.p, read |-> reader.read]
       /\ reader.verb \in {"extract", "validate"}
       /\ reader.p \in Target
       /\ \E S : reader.read \in Seq(S)
       /\ Len(reader.read) <= 5
       /\ reader.verb = "validate" => partition[reader.p] # None

SeedsFact ==
    /\ seeds = [premise |-> seeds.premise, mapping |-> seeds.mapping, version |-> seeds.version]
    /\ seeds.premise \in DOMAIN Premise /\ seeds.mapping \in DOMAIN Mapping
    /\ used \in [{"change", "export", "read", "crash"} -> Nat]
    /\ DOMAIN file = FileNames
    /\ DOMAIN partition = Target

ReferenceInvariant == TablesFact /\ SeedsFact /\ ExportFact /\ ReaderFact /\ CopiesInvariant

\* No new copy, and tables that only grow.
Quiet ==
    /\ Grow(tables, tables')
    /\ \A i \in 1 .. 5 : \A x : Seen(i, x)' => Seen(i, x)
    /\ \/ used'.export = used.export /\ (exp'.pc \in Querying => exp.pc \in Querying)
       \/ used'.export = used.export + 1

LEMMA QuietMade ==
    ASSUME SeedsFact, Quiet, NEW n \in 1 .. used.export,
           exp.pc \in Querying => n # used.export
    PROVE  n \in 1 .. used'.export /\ (exp'.pc \in Querying => n # used'.export)
  <1>1. used.export \in Nat
    BY DEF SeedsFact
  <1> QED
    BY <1>1 DEF Quiet

LEMMA QuietCopies ==
    ASSUME CopiesInvariant, SeedsFact, Quiet
    PROVE  CopiesAreTrue' /\ CopiesAreEqual' /\ CopiesAgree'
  <1>1. CopiesAreTrue'
    <2> SUFFICES ASSUME NEW i \in 1 .. 5, NEW x, Seen(i, x)'
                 PROVE  /\ Fact(tables', i, x)
                        /\ x.made \in 1 .. used'.export
                        /\ exp'.pc \in Querying => x.made # used'.export
      BY DEF CopiesAreTrue
    <2>1. Seen(i, x)
      BY DEF Quiet
    <2>2. /\ Fact(tables, i, x) /\ x.made \in 1 .. used.export
          /\ exp.pc \in Querying => x.made # used.export
      BY <2>1 DEF CopiesInvariant, CopiesAreTrue
    <2>3. Fact(tables', i, x)
      BY <2>2, FactStays DEF Quiet
    <2> QED
      BY <2>2, <2>3, QuietMade
  <1>2. CopiesAreEqual'
    <2>1. CopiesAreEqual
      BY DEF CopiesInvariant
    <2> QED
      BY <2>1 DEF CopiesAreEqual, Quiet
  <1>3. CopiesAgree'
    <2>1. CopiesAgree
      BY DEF CopiesInvariant
    <2>2. \A x : (Seen(2, x)' => Seen(2, x)) /\ (Seen(3, x)' => Seen(3, x))
                 /\ (Seen(5, x)' => Seen(5, x))
      BY DEF Quiet
    <2> QED
      BY <2>1, <2>2 DEF CopiesAgree
  <1> QED
    BY <1>1, <1>2, <1>3

LEMMA QuietPartition ==
    ASSUME SeedsFact, Quiet, NEW p, partition'[p] = partition[p], NEW r, From(p, r)
    PROVE  From(p, r)'
  <1>1. ASSUME NEW i \in 1 .. 5
        PROVE  /\ Fact(tables', i, r[i])
               /\ r[i].made \in 1 .. used'.export
               /\ exp'.pc \in Querying => r[i].made # used'.export
               /\ \A x : Seen(i, x)' /\ x.made = r[i].made => x = r[i]
               /\ partition'[p].manifest.reference[i] = r[i].made
    <2>1. /\ Fact(tables, i, r[i])
          /\ r[i].made \in 1 .. used.export
          /\ exp.pc \in Querying => r[i].made # used.export
          /\ \A x : Seen(i, x) /\ x.made = r[i].made => x = r[i]
          /\ partition[p].manifest.reference[i] = r[i].made
      BY DEF From
    <2>2. Fact(tables', i, r[i])
      BY <2>1, FactStays DEF Quiet
    <2>3. \A x : Seen(i, x)' => Seen(i, x)
      BY DEF Quiet
    <2> QED
      BY <2>1, <2>2, <2>3, QuietMade
  <1>2. /\ p \in DOMAIN r[3].rows
        /\ Follows(partition'[p].order, r, p)
        /\ partition'[p].manifest.version = r[5].version
        /\ partition'[p].manifest.premises = r[4].edition
    BY DEF From
  <1> QED
    BY <1>1, <1>2 DEF From

LEMMA QuietStep ==
    ASSUME CopiesInvariant, SeedsFact, partition' = partition, Quiet
    PROVE  CopiesInvariant'
  <1>1. PartitionsFollow'
    <2> SUFFICES ASSUME NEW p \in Target, partition[p] # None
                 PROVE  \E r : From(p, r)'
      BY DEF PartitionsFollow
    <2>1. PICK r : From(p, r)
      BY DEF CopiesInvariant, PartitionsFollow
    <2>2. From(p, r)'
      BY <2>1, QuietPartition
    <2> QED
      BY <2>2
  <1> QED
    BY <1>1, QuietCopies DEF CopiesInvariant

LEMMA SpendCounts ==
    ASSUME SeedsFact, NEW what \in {"change", "export", "read", "crash"}, NEW bound,
           Spend(what, bound)
    PROVE  /\ used' \in [{"change", "export", "read", "crash"} -> Nat]
           /\ used'.export = IF what = "export" THEN used.export + 1 ELSE used.export
  BY DEF SeedsFact, Spend

\* What is computed stays true of tables that grow.
LEMMA ExportStays ==
    ASSUME ExportFact, Grow(tables, tables'), exp' = exp, used'.export = used.export
    PROVE  ExportFact'
  <1>1. exp.pc \in Querying \ {"calendar"} =>
          PricedDays(tables', exp.calendar, Days(exp.window))
    BY PricedDaysStay DEF ExportFact
  <1>2. exp.pc \in {"tree", "drift", "customers", "profile"} => SoldRows(tables', exp.catalog)
    BY SoldRowsStay DEF ExportFact
  <1>3. exp.pc = "profile" => KnownRows(tables', exp.rows)
    BY KnownRowsStay DEF ExportFact
  <1>4. WriteFact => WriteFact'
    BY DEF WriteFact
  <1> QED
    BY <1>1, <1>2, <1>3, <1>4 DEF ExportFact

LEMMA SameGrows == \A t : Grow(t, t)
  BY DEF Grow

LEMMA SameCopies ==
    ASSUME UNCHANGED << file, reader, partition >>,
           exp'.pc = "write" => exp.pc = "write" /\ exp'.payload = exp.payload
    PROVE  \A i \in 1 .. 5 : \A x : Seen(i, x)' => Seen(i, x)
  BY DEF Seen, There

\* A generation or a catalog lands, or neither.
LEMMA ChangeGrows ==
    ASSUME TablesFact, Change
    PROVE  TablesFact' /\ Grow(tables, tables')
  <1>1. CASE UNCHANGED tables
    BY <1>1, SameGrows DEF TablesFact
  <1>2. CASE \E p \in LateCatalog \ tables.landed :
               tables' = [tables EXCEPT !.landed = @ \union {p}]
    <2>1. PICK p \in LateCatalog : tables' = [tables EXCEPT !.landed = @ \union {p}]
      BY <1>2
    <2>2. tables' = [landed |-> tables.landed \union {p}, bases |-> tables.bases]
      BY <2>1 DEF TablesFact
    <2>3. tables'.landed = tables.landed \union {p} /\ tables'.bases = tables.bases
      BY <2>2
    <2>4. tables' = [landed |-> tables'.landed, bases |-> tables'.bases]
      BY <2>2, <2>3
    <2> QED
      BY <2>3, <2>4 DEF TablesFact, Grow
  <1>3. CASE \E n \in NextBase : tables.bases[n[1]] = None
               /\ tables' = [tables EXCEPT !.bases[n[1]] = Base[n[2]]]
    <2>1. PICK n \in NextBase : tables.bases[n[1]] = None
               /\ tables' = [tables EXCEPT !.bases[n[1]] = Base[n[2]]]
      BY <1>3
    <2>2. tables' = [landed |-> tables.landed,
                     bases |-> [tables.bases EXCEPT ![n[1]] = Base[n[2]]]]
      BY <2>1 DEF TablesFact
    <2>3. /\ tables'.landed = tables.landed
          /\ tables'.bases = [tables.bases EXCEPT ![n[1]] = Base[n[2]]]
      BY <2>2
    <2>4. tables' = [landed |-> tables'.landed, bases |-> tables'.bases]
      BY <2>2, <2>3
    <2>5. /\ DOMAIN tables'.bases = Day
          /\ n[1] \in Day
          /\ \A d \in Day : d # n[1] => tables'.bases[d] = tables.bases[d]
          /\ tables'.bases[n[1]] = Base[n[2]]
      BY <2>3, SeedsAssumption DEF TablesFact
    <2>6. \A d \in Day : Bases[d] # None => d # n[1]
      BY <2>1, TablesAre
    <2>7. Grow(tables, tables')
      BY <2>1, <2>3, <2>5 DEF Grow
    <2>8. \A d \in Day : tables'.bases[d] # None =>
            \E g \in Landing : g[1] = d /\ tables'.bases[d] = Base[g[2]]
      <3>1. n \in Landing
        BY DEF Landing
      <3> QED
        BY <2>5, <3>1 DEF TablesFact
    <2> QED
      BY <2>3, <2>4, <2>5, <2>6, <2>7, <2>8 DEF TablesFact
  <1> QED
    BY <1>1, <1>2, <1>3 DEF Change

\* A generation or a catalog lands, a seed is edited.
LEMMA ChangeStep ==
    ASSUME ReferenceInvariant, Change
    PROVE  ReferenceInvariant'
  <1>1. TablesFact /\ SeedsFact /\ ExportFact /\ ReaderFact /\ CopiesInvariant
    BY DEF ReferenceInvariant
  <1>2. UNCHANGED << file, exp, reader, partition >> /\ Spend("change", MaxChange)
    BY DEF Change
  <1>3. /\ used' \in [{"change", "export", "read", "crash"} -> Nat]
        /\ used'.export = used.export
    <2>1. PICK what \in {"change", "export", "read", "crash"} : what = "change"
      OBVIOUS
    <2>2. Spend(what, MaxChange) /\ what # "export"
      BY <1>2, <2>1
    <2> QED
      BY <1>1, <2>2, SpendCounts
  <1>4. TablesFact' /\ Grow(tables, tables')
    BY <1>1, ChangeGrows
  <1>5. SeedsFact'
    <2>1. CASE UNCHANGED seeds
      BY <1>1, <1>2, <1>3, <2>1 DEF SeedsFact
    <2>2. CASE seeds.premise + 1 \in DOMAIN Premise
               /\ seeds' = [seeds EXCEPT !.premise = @ + 1]
      BY <1>1, <1>2, <1>3, <2>2 DEF SeedsFact
    <2>3. CASE /\ seeds.mapping + 1 \in DOMAIN Mapping
               /\ \E bump \in {0, 1} :
                    seeds' = [seeds EXCEPT !.mapping = @ + 1, !.version = @ + bump]
      BY <1>1, <1>2, <1>3, <2>3 DEF SeedsFact
    <2> QED
      BY <2>1, <2>2, <2>3 DEF Change
  <1>6. ExportFact'
    BY <1>1, <1>2, <1>3, <1>4, ExportStays
  <1>7. ReaderFact'
    BY <1>1, <1>2 DEF ReaderFact
  <1>8. CopiesInvariant'
    <2>1. \A i \in 1 .. 5 : \A x : Seen(i, x)' => Seen(i, x)
      BY <1>2, SameCopies
    <2> QED
      BY <1>1, <1>2, <1>3, <1>4, <2>1, QuietStep DEF Quiet
  <1> QED
    BY <1>4, <1>5, <1>6, <1>7, <1>8 DEF ReferenceInvariant

LEMMA TablesStay ==
    ASSUME TablesFact, UNCHANGED tables
    PROVE  TablesFact' /\ Grow(tables, tables')
  BY SameGrows DEF TablesFact

LEMMA SeedsStay ==
    ASSUME SeedsFact, UNCHANGED << seeds, file, partition >>,
           used' \in [{"change", "export", "read", "crash"} -> Nat]
    PROVE  SeedsFact'
  BY DEF SeedsFact

LEMMA ReaderStays ==
    ASSUME ReaderFact, UNCHANGED << reader, partition >>
    PROVE  ReaderFact'
  BY DEF ReaderFact

LEMMA IdleIsFine ==
    ASSUME exp' = Idle
    PROVE  ExportFact'
  BY DEF ExportFact, Idle, Querying

\* An export that begins, or does not go on.
LEMMA KillStep ==
    ASSUME ReferenceInvariant, KillExport
    PROVE  ReferenceInvariant'
  <1>1. TablesFact /\ SeedsFact /\ ReaderFact /\ CopiesInvariant
    BY DEF ReferenceInvariant
  <1>2. exp' = Idle /\ UNCHANGED << tables, seeds, file, reader, partition >>
    BY DEF KillExport
  <1>3. /\ used' \in [{"change", "export", "read", "crash"} -> Nat]
        /\ used'.export = used.export
    <2>1. PICK what \in {"change", "export", "read", "crash"} : what = "crash"
      OBVIOUS
    <2>2. Spend(what, MaxCrash) /\ what # "export"
      BY <2>1 DEF KillExport
    <2> QED
      BY <1>1, <2>2, SpendCounts
  <1>4. TablesFact' /\ Grow(tables, tables') /\ SeedsFact' /\ ReaderFact' /\ ExportFact'
    BY <1>1, <1>2, <1>3, TablesStay, SeedsStay, ReaderStays, IdleIsFine
  <1>5. exp'.pc = "idle"
    BY <1>2 DEF Idle
  <1>6. \A i \in 1 .. 5 : \A x : Seen(i, x)' => Seen(i, x)
    BY <1>2, <1>5, SameCopies
  <1>7. CopiesInvariant'
    BY <1>1, <1>2, <1>3, <1>4, <1>5, <1>6, QuietStep DEF Querying, Quiet
  <1> QED
    BY <1>4, <1>7 DEF ReferenceInvariant

LEMMA StartExportStep ==
    ASSUME ReferenceInvariant, NEW window \in Window, StartExport(window)
    PROVE  ReferenceInvariant'
  <1>1. TablesFact /\ SeedsFact /\ ReaderFact /\ CopiesInvariant
    BY DEF ReferenceInvariant
  <1>2. /\ exp' = [pc |-> "calendar", window |-> window, premise |-> seeds.premise,
                   made |-> used.export + 1]
        /\ UNCHANGED << tables, seeds, file, reader, partition >>
    BY DEF StartExport
  <1>3. /\ used' \in [{"change", "export", "read", "crash"} -> Nat]
        /\ used'.export = used.export + 1
    <2>1. PICK what \in {"change", "export", "read", "crash"} : what = "export"
      OBVIOUS
    <2>2. Spend(what, MaxExport)
      BY <2>1 DEF StartExport
    <2> QED
      BY <1>1, <2>1, <2>2, SpendCounts
  <1>4. TablesFact' /\ Grow(tables, tables') /\ SeedsFact' /\ ReaderFact'
    BY <1>1, <1>2, <1>3, TablesStay, SeedsStay, ReaderStays
  <1>5. /\ exp'.pc = "calendar" /\ exp'.window = window /\ exp'.premise = seeds.premise
        /\ exp'.made = used.export + 1
    BY <1>2
  <1>6. seeds.premise \in DOMAIN Premise /\ used.export \in Nat
    BY <1>1 DEF SeedsFact
  <1>7. ExportFact'
    BY <1>3, <1>5, <1>6 DEF ExportFact, Querying
  <1>8. \A i \in 1 .. 5 : \A x : Seen(i, x)' => Seen(i, x)
    BY <1>2, <1>5, SameCopies
  <1>9. CopiesInvariant'
    BY <1>1, <1>2, <1>3, <1>4, <1>8, QuietStep DEF Quiet
  <1> QED
    BY <1>4, <1>7, <1>9 DEF ReferenceInvariant

\* A query that writes nothing.
LEMMA QueryStep ==
    ASSUME ReferenceInvariant, UNCHANGED << tables, seeds, file, reader, partition, used >>,
           exp.pc \in Querying, exp' = Idle \/ exp'.pc \in Querying, ExportFact'
    PROVE  ReferenceInvariant'
  <1>1. TablesFact /\ SeedsFact /\ ReaderFact /\ CopiesInvariant
    BY DEF ReferenceInvariant
  <1>2. used' \in [{"change", "export", "read", "crash"} -> Nat]
    BY <1>1 DEF SeedsFact
  <1>3. TablesFact' /\ Grow(tables, tables') /\ SeedsFact' /\ ReaderFact'
    BY <1>1, <1>2, TablesStay, SeedsStay, ReaderStays
  <1>4. exp'.pc # "write"
    BY DEF Idle, Querying
  <1>5. \A i \in 1 .. 5 : \A x : Seen(i, x)' => Seen(i, x)
    BY <1>4, SameCopies
  <1>6. CopiesInvariant'
    BY <1>1, <1>3, <1>5, QuietStep DEF Quiet
  <1> QED
    BY <1>3, <1>6 DEF ReferenceInvariant

LEMMA QueryCalendarStep ==
    ASSUME ReferenceInvariant, QueryCalendar
    PROVE  ReferenceInvariant'
  <1>1. TablesFact /\ ExportFact
    BY DEF ReferenceInvariant
  <1>2. exp.pc = "calendar" /\ UNCHANGED << tables, seeds, file, reader, partition, used >>
    BY DEF QueryCalendar, ExportStep
  <1>3. CASE exp' = Idle
    BY <1>2, <1>3, IdleIsFine, QueryStep DEF Querying
  <1>4. CASE exp' # Idle
    <2> DEFINE days == Days(exp.window)
               rows == Calendar(tables.landed, days)
    <2>1. exp.window \in Window /\ exp.premise \in DOMAIN Premise
          /\ exp.made = used.export /\ used.export >= 1
      BY <1>1, <1>2 DEF ExportFact, Querying
    <2>2. /\ \A p \in DOMAIN rows : rows[p].price_as_of # None
          /\ exp' = [pc |-> "catalog", window |-> exp.window, premise |-> exp.premise,
                     made |-> exp.made, calendar |-> rows,
                     dates |-> {rows[p].price_as_of : p \in DOMAIN rows}]
      BY <1>4 DEF QueryCalendar
    <2>3. DOMAIN rows = Wh \X days
      BY DEF Calendar
    <2>4. PricedDays(tables, rows, days)
      BY <1>1, <2>1, <2>2, <2>3, CalendarIs
    <2> HIDE DEF rows, days
    <2>5. {rows[p].price_as_of : p \in DOMAIN rows} \subseteq Day
      <3>1. \A p \in DOMAIN rows : \E wh \in Wh : \E d \in days : p = << wh, d >>
        BY <2>3
      <3>2. \A wh \in Wh : \A d \in days : rows[<< wh, d >>].price_as_of \in Day
        BY <2>4 DEF PricedDays
      <3>3. \A p \in DOMAIN rows : rows[p].price_as_of \in Day
        BY <3>1, <3>2
      <3> QED
        BY <3>3
    <2>6. /\ exp'.pc = "catalog" /\ exp'.window = exp.window /\ exp'.premise = exp.premise
          /\ exp'.made = exp.made /\ exp'.calendar = rows /\ exp'.dates \subseteq Day
      BY <2>2, <2>5
    <2>7. ExportFact'
      BY <1>2, <2>1, <2>4, <2>6 DEF ExportFact, Querying, days
    <2> QED
      BY <1>2, <2>6, <2>7, QueryStep DEF Querying
  <1> QED
    BY <1>3, <1>4

LEMMA QueryCatalogStep ==
    ASSUME ReferenceInvariant, QueryCatalog
    PROVE  ReferenceInvariant'
  <1>1. TablesFact /\ ExportFact
    BY DEF ReferenceInvariant
  <1>2. exp.pc = "catalog" /\ UNCHANGED << tables, seeds, file, reader, partition, used >>
    BY DEF QueryCatalog, ExportStep
  <1>3. CASE exp' = Idle
    BY <1>2, <1>3, IdleIsFine, QueryStep DEF Querying
  <1>4. CASE exp' # Idle
    <2> DEFINE rules == Mapping[seeds.mapping]
               raw == CatalogRows(tables.landed, exp.dates)
               rows == {Written(rules, q) : q \in raw}
    <2>1. /\ exp.window \in Window /\ exp.premise \in DOMAIN Premise
          /\ exp.made = used.export /\ used.export >= 1
          /\ PricedDays(tables, exp.calendar, Days(exp.window)) /\ exp.dates \subseteq Day
      BY <1>1, <1>2 DEF ExportFact, Querying
    <2>2. exp' = [pc |-> "tree", window |-> exp.window, premise |-> exp.premise,
                  made |-> exp.made, calendar |-> exp.calendar, dates |-> exp.dates,
                  rules |-> rules, catalog |-> rows]
      BY <1>4 DEF QueryCatalog, Written
    <2>3. SoldRows(tables, rows)
      BY <1>1, <2>1, CatalogIs
    <2> HIDE DEF rows, rules
    <2>4. /\ exp'.pc = "tree" /\ exp'.window = exp.window /\ exp'.premise = exp.premise
          /\ exp'.made = exp.made /\ exp'.calendar = exp.calendar /\ exp'.dates = exp.dates
          /\ exp'.catalog = rows
          /\ DOMAIN exp' = {"pc", "window", "premise", "made", "calendar", "dates", "rules",
                            "catalog"}
      BY <2>2
    <2>5. ExportFact'
      BY <1>2, <2>1, <2>3, <2>4 DEF ExportFact, Querying
    <2> QED
      BY <1>2, <2>4, <2>5, QueryStep DEF Querying
  <1> QED
    BY <1>3, <1>4

\* A check that lets the export go on, or not.
LEMMA CheckStep ==
    ASSUME ReferenceInvariant, UNCHANGED << tables, seeds, file, reader, partition, used >>,
           exp' = Idle \/ \/ exp.pc = "tree" /\ exp' = [exp EXCEPT !.pc = "drift"]
                          \/ exp.pc = "drift" /\ exp' = [exp EXCEPT !.pc = "customers"],
           exp.pc \in Querying
    PROVE  ReferenceInvariant'
  <1>1. TablesFact /\ ExportFact
    BY DEF ReferenceInvariant
  <1>2. CASE exp' = Idle
    BY <1>2, IdleIsFine, QueryStep
  <1>3. CASE exp' # Idle
    <2>1. PICK pc \in {"drift", "customers"} : exp' = [exp EXCEPT !.pc = pc]
      BY <1>3
    <2>2. exp.pc \in {"tree", "drift"}
      BY <1>3
    <2>3. /\ exp.window \in Window /\ exp.premise \in DOMAIN Premise
          /\ exp.made = used.export /\ used.export >= 1
          /\ PricedDays(tables, exp.calendar, Days(exp.window))
          /\ SoldRows(tables, exp.catalog)
          /\ DOMAIN exp = {"pc", "window", "premise", "made", "calendar", "dates", "rules",
                           "catalog"}
      BY <1>1, <2>2 DEF ExportFact, Querying
    <2>4. /\ exp'.pc = pc /\ exp'.window = exp.window /\ exp'.premise = exp.premise
          /\ exp'.made = exp.made /\ exp'.calendar = exp.calendar
          /\ exp'.catalog = exp.catalog /\ DOMAIN exp' = DOMAIN exp
      BY <2>1, <2>3
    <2>5. ExportFact'
      BY <2>3, <2>4 DEF ExportFact, Querying
    <2> QED
      BY <2>4, <2>5, QueryStep DEF Querying
  <1> QED
    BY <1>2, <1>3

LEMMA QueryCustomersStep ==
    ASSUME ReferenceInvariant, QueryCustomers
    PROVE  ReferenceInvariant'
  <1>1. TablesFact /\ ExportFact
    BY DEF ReferenceInvariant
  <1>2. exp.pc = "customers" /\ UNCHANGED << tables, seeds, file, reader, partition, used >>
    BY DEF QueryCustomers, ExportStep
  <1>3. CASE exp' = Idle
    BY <1>2, <1>3, IdleIsFine, QueryStep DEF Querying
  <1>4. CASE exp' # Idle
    <2> DEFINE rows == CustomerRows(tables.bases)
    <2>1. /\ exp.window \in Window /\ exp.premise \in DOMAIN Premise
          /\ exp.made = used.export /\ used.export >= 1
          /\ PricedDays(tables, exp.calendar, Days(exp.window))
          /\ SoldRows(tables, exp.catalog)
      BY <1>1, <1>2 DEF ExportFact, Querying
    <2>2. exp' = [pc |-> "profile", window |-> exp.window, premise |-> exp.premise,
                  made |-> exp.made, calendar |-> exp.calendar, catalog |-> exp.catalog,
                  rows |-> rows]
      BY <1>4 DEF QueryCustomers
    <2>3. KnownRows(tables, rows)
      BY <1>1, CustomersAre
    <2> HIDE DEF rows
    <2>4. /\ exp'.pc = "profile" /\ exp'.window = exp.window /\ exp'.premise = exp.premise
          /\ exp'.made = exp.made /\ exp'.calendar = exp.calendar
          /\ exp'.catalog = exp.catalog /\ exp'.rows = rows
      BY <2>2
    <2>5. ExportFact'
      BY <1>2, <2>1, <2>3, <2>4 DEF ExportFact, Querying
    <2> QED
      BY <1>2, <2>4, <2>5, QueryStep DEF Querying
  <1> QED
    BY <1>3, <1>4

LEMMA FilesAre ==
    /\ Files[1] = "customers" /\ Files[2] = "catalog" /\ Files[3] = "calendar"
    /\ Files[4] = "premises" /\ Files[5] = "demand"
    /\ Files \in Seq(FileNames) /\ Files # << >>
  <1>1. /\ Files[1] = "customers" /\ Files[2] = "catalog" /\ Files[3] = "calendar"
        /\ Files[4] = "premises" /\ Files[5] = "demand"
    BY DEF Files
  <1>2. Len(Files) = 5 /\ Files # << >> /\ DOMAIN Files = 1 .. 5
    BY DEF Files
  <1>3. Files \in Seq({"customers", "catalog", "calendar", "premises", "demand"})
    BY DEF Files
  <1>4. {"customers", "catalog", "calendar", "premises", "demand"} = FileNames
    <2>1. \A i \in 1 .. 5 : i = 1 \/ i = 2 \/ i = 3 \/ i = 4 \/ i = 5
      OBVIOUS
    <2>2. {1, 2, 3, 4, 5} \subseteq 1 .. 5
      OBVIOUS
    <2> QED
      BY <1>1, <2>1, <2>2 DEF FileNames
  <1> QED
    BY <1>1, <1>2, <1>3, <1>4

\* What an export writes, of what it has queried.
Payload(customers, cohorts) ==
    [customers |-> customers,
     catalog |-> [made |-> exp.made, rows |-> exp.catalog],
     calendar |-> [made |-> exp.made, window |-> exp.window, rows |-> exp.calendar],
     premises |-> [made |-> exp.made, edition |-> exp.premise],
     demand |-> [made |-> exp.made, version |-> seeds.version,
                 groups |-> GroupsOf(exp.catalog), weighted |-> Weighted(GroupsOf(exp.catalog)),
                 vectors |-> cohorts]]

\* The payload is true of the tables at the last query, though each file is of its own.
LEMMA PayloadIsTrue ==
    ASSUME TablesFact, ExportFact, exp.pc = "profile",
           NEW customers, customers = [made |-> exp.made, rows |-> exp.rows,
                                       generations |-> Generations(tables.bases)],
           NEW cohorts, cohorts = Cohorts(exp.rows, Premise[exp.premise].minAge, exp.window[1]),
           NEW i \in 1 .. 5
    PROVE  /\ Fact(tables, i, Payload(customers, cohorts)[Files[i]])
           /\ Payload(customers, cohorts)[Files[i]].made = exp.made
  <1> DEFINE out == Payload(customers, cohorts)
  <1>1. /\ exp.window \in Window /\ exp.premise \in DOMAIN Premise
        /\ PricedDays(tables, exp.calendar, Days(exp.window))
        /\ SoldRows(tables, exp.catalog) /\ KnownRows(tables, exp.rows)
    BY DEF ExportFact, Querying
  <1>2. /\ out.customers = customers /\ out.catalog = [made |-> exp.made, rows |-> exp.catalog]
        /\ out.calendar = [made |-> exp.made, window |-> exp.window, rows |-> exp.calendar]
        /\ out.premises = [made |-> exp.made, edition |-> exp.premise]
        /\ out.demand.made = exp.made /\ out.demand.vectors = cohorts
    BY DEF Payload
  <1> HIDE DEF out
  <1>3. CASE i = 1
    <2>1. out[Files[i]] = customers
      BY <1>2, <1>3, FilesAre
    <2>2. customers.made = exp.made /\ customers.rows = exp.rows
          /\ customers.generations = Generations(tables.bases)
      OBVIOUS
    <2>3. \A d \in Day : Bases[d] # None => d \in Generations(tables.bases)
      BY TablesAre DEF Generations
    <2>4. \A c \in DOMAIN exp.rows : exp.rows[c].first \in Generations(tables.bases)
      BY <1>1 DEF KnownRows, Generations
    <2>5. CustomersFact(tables, customers)
      BY <1>1, <2>2, <2>3, <2>4 DEF CustomersFact
    <2> QED
      BY <1>3, <2>1, <2>2, <2>5 DEF Fact, out
  <1>4. CASE i = 2
    <2>1. out[Files[i]] = out.catalog
      BY <1>4, FilesAre
    <2>2. out.catalog.made = exp.made /\ CatalogFact(tables, out.catalog)
      BY <1>1, <1>2 DEF CatalogFact
    <2> QED
      BY <1>4, <2>1, <2>2 DEF Fact, out
  <1>5. CASE i = 3
    <2>1. out[Files[i]] = out.calendar
      BY <1>5, FilesAre
    <2>2. out.calendar.made = exp.made /\ CalendarFact(tables, out.calendar)
      BY <1>1, <1>2 DEF CalendarFact
    <2> QED
      BY <1>5, <2>1, <2>2 DEF Fact, out
  <1>6. CASE i = 4
    <2>1. out[Files[i]] = out.premises
      BY <1>6, FilesAre
    <2>2. out.premises.made = exp.made /\ PremisesFact(out.premises)
      BY <1>1, <1>2 DEF PremisesFact
    <2> QED
      BY <1>6, <2>1, <2>2 DEF Fact, out
  <1>7. CASE i = 5
    <2>1. out[Files[i]] = out.demand
      BY <1>7, FilesAre
    <2>2. DemandFact(tables, out.demand)
      BY <1>1, <1>2 DEF DemandFact
    <2> QED
      BY <1>2, <1>7, <2>1, <2>2 DEF Fact, out
  <1> QED
    BY <1>3, <1>4, <1>5, <1>6, <1>7

LEMMA QueryGenerationsStep ==
    ASSUME ReferenceInvariant, QueryGenerations
    PROVE  ReferenceInvariant'
  <1>1. TablesFact /\ SeedsFact /\ ExportFact /\ ReaderFact /\ CopiesInvariant
    BY DEF ReferenceInvariant
  <1>2. exp.pc = "profile" /\ UNCHANGED << tables, seeds, file, reader, partition, used >>
    BY DEF QueryGenerations, ExportStep
  <1>3. CASE exp' = Idle
    BY <1>2, <1>3, IdleIsFine, QueryStep DEF Querying
  <1>4. CASE exp' # Idle
    <2> DEFINE customers == [made |-> exp.made, rows |-> exp.rows,
                             generations |-> Generations(tables.bases)]
               cohorts == Cohorts(exp.rows, Premise[exp.premise].minAge, exp.window[1])
               groups == GroupsOf(exp.catalog)
               whole == [customers |-> customers, catalog |-> exp.catalog,
                         calendar |-> exp.calendar, premise |-> exp.premise]
               out == Payload(customers, cohorts)
    <2>1. /\ ProfileHolds(cohorts, groups) /\ Covered(whole, Weighted(groups))
          /\ exp' = [pc |-> "write", left |-> Files, payload |-> out]
      BY <1>4 DEF QueryGenerations, Payload
    <2>2. \A i \in 1 .. 5 : Fact(tables, i, out[Files[i]]) /\ out[Files[i]].made = exp.made
      BY <1>1, <1>2, PayloadIsTrue
    <2>3. exp.made = used.export /\ used.export >= 1 /\ exp.pc \in Querying
      BY <1>1, <1>2 DEF ExportFact, Querying
    <2>4. /\ out.customers = customers /\ out.catalog = [made |-> exp.made, rows |-> exp.catalog]
          /\ out.calendar = [made |-> exp.made, window |-> exp.window, rows |-> exp.calendar]
          /\ out.premises = [made |-> exp.made, edition |-> exp.premise]
          /\ out.demand.groups = groups /\ out.demand.weighted = Weighted(groups)
      BY DEF Payload
    <2>5. /\ {exp.rows[c].wh : c \in DOMAIN exp.rows} = Wh
          /\ {<< p[1], exp.calendar[p].price_as_of >> : p \in DOMAIN exp.calendar}
               \subseteq PairsOf(exp.catalog)
          /\ \A p \in PairsOf(exp.catalog) :
               /\ Cardinality(RowsOf(exp.catalog, p[1], p[2])) >= Premise[exp.premise].lines[2]
               /\ Weighted(groups) \subseteq GroupsOf(RowsOf(exp.catalog, p[1], p[2]))
          /\ Weighted(groups) # {}
      BY <2>1 DEF Covered, ProfileHolds
    <2>6. /\ customers.rows = exp.rows
          /\ out.catalog.rows = exp.catalog /\ out.calendar.rows = exp.calendar
          /\ out.premises.edition = exp.premise
      BY <2>4
    <2> HIDE DEF out, customers, cohorts, groups
    <2>7. PricedIn(out.catalog, out.calendar)
      BY <2>5, <2>6 DEF PricedIn
    <2>8. WeighedIn(out.catalog, out.demand)
      BY <2>4, <2>5, <2>6 DEF WeighedIn, groups
    <2>9. exp'.pc = "write" /\ exp'.left = Files /\ exp'.payload = out
          /\ DOMAIN exp' = {"pc", "left", "payload"}
      BY <2>1
    <2>10. ExportFact'
      <3>1. WriteFact'
        BY <2>4, <2>5, <2>6, <2>7, <2>8, <2>9, FilesAre DEF WriteFact
      <3> QED
        BY <2>9, <3>1 DEF ExportFact, Querying
    <2>11. used' \in [{"change", "export", "read", "crash"} -> Nat]
      BY <1>1, <1>2 DEF SeedsFact
    <2>12. TablesFact' /\ SeedsFact' /\ ReaderFact'
      BY <1>1, <1>2, <2>11, TablesStay, SeedsStay, ReaderStays
    <2>13. \A i \in 1 .. 5 : \A x : Seen(i, x)' => Seen(i, x) \/ x = out[Files[i]]
      BY <1>2, <2>9 DEF Seen, There
    <2>14. \A i \in 1 .. 5 : \A x : Seen(i, x) =>
             Fact(tables, i, x) /\ x.made \in 1 .. used.export /\ x.made # used.export
      BY <1>1, <2>3 DEF CopiesInvariant, CopiesAreTrue
    <2>15. CopiesAreTrue'
      <3>1. exp'.pc \notin Querying
        BY <2>9 DEF Querying
      <3>2. used.export \in 1 .. used.export
        BY <1>1, <2>3 DEF SeedsFact
      <3>3. ASSUME NEW i \in 1 .. 5, NEW x, Seen(i, x)'
            PROVE  Fact(tables, i, x) /\ x.made \in 1 .. used.export
        <4>1. Seen(i, x) \/ x = out[Files[i]]
          BY <2>13, <3>3
        <4> QED
          BY <2>2, <2>3, <2>14, <3>2, <4>1
      <3> QED
        BY <1>2, <3>1, <3>3 DEF CopiesAreTrue
    <2>16. CopiesAreEqual'
      <3>1. ASSUME NEW i \in 1 .. 5, NEW x, NEW y, Seen(i, x)', Seen(i, y)', x.made = y.made
            PROVE  x = y
        <4>1. (Seen(i, x) \/ x = out[Files[i]]) /\ (Seen(i, y) \/ y = out[Files[i]])
          BY <2>13, <3>1
        <4>2. CASE Seen(i, x) /\ Seen(i, y)
          BY <1>1, <3>1, <4>2 DEF CopiesInvariant, CopiesAreEqual
        <4>3. CASE Seen(i, x) /\ y = out[Files[i]]
          BY <2>2, <2>3, <2>14, <3>1, <4>3
        <4>4. CASE Seen(i, y) /\ x = out[Files[i]]
          BY <2>2, <2>3, <2>14, <3>1, <4>4
        <4> QED
          BY <4>1, <4>2, <4>3, <4>4
      <3> QED
        BY <3>1 DEF CopiesAreEqual
    <2>17. CopiesAgree'
      <3>1. /\ out[Files[2]] = out.catalog /\ out[Files[3]] = out.calendar
            /\ out[Files[5]] = out.demand
        BY FilesAre
      <3>2. \A x : Seen(2, x)' => Seen(2, x) \/ x = out.catalog
        BY <2>13, <3>1
      <3>3. \A x : Seen(3, x)' => Seen(3, x) \/ x = out.calendar
        BY <2>13, <3>1
      <3>4. \A x : Seen(5, x)' => Seen(5, x) \/ x = out.demand
        BY <2>13, <3>1
      <3>5. /\ out.catalog.made = used.export /\ out.calendar.made = used.export
            /\ out.demand.made = used.export
        BY <2>2, <2>3, <3>1
      <3>6. /\ \A x : Seen(2, x) => x.made # used.export
            /\ \A x : Seen(3, x) => x.made # used.export
            /\ \A x : Seen(5, x) => x.made # used.export
        BY <2>14
      <3>7. CopiesAgree
        BY <1>1 DEF CopiesInvariant
      <3>8. ASSUME NEW x, NEW y, Seen(2, x)', Seen(3, y)', x.made = y.made
            PROVE  PricedIn(x, y)
        BY <2>7, <3>2, <3>3, <3>5, <3>6, <3>7, <3>8 DEF CopiesAgree
      <3>9. ASSUME NEW x, NEW z, Seen(2, x)', Seen(5, z)', x.made = z.made
            PROVE  WeighedIn(x, z)
        BY <2>8, <3>2, <3>4, <3>5, <3>6, <3>7, <3>9 DEF CopiesAgree
      <3> QED
        BY <3>8, <3>9 DEF CopiesAgree
    <2>18. PartitionsFollow'
      <3> SUFFICES ASSUME NEW p \in Target, partition[p] # None
                   PROVE  \E r : From(p, r)'
        BY <1>2 DEF PartitionsFollow
      <3>1. PICK r : From(p, r)
        BY <1>1 DEF CopiesInvariant, PartitionsFollow
      <3>2. exp'.pc \notin Querying
        BY <2>9 DEF Querying
      <3>3. ASSUME NEW i \in 1 .. 5
            PROVE  /\ Fact(tables, i, r[i])
                   /\ r[i].made \in 1 .. used.export
                   /\ \A x : Seen(i, x)' /\ x.made = r[i].made => x = r[i]
                   /\ partition[p].manifest.reference[i] = r[i].made
        <4>1. /\ Fact(tables, i, r[i]) /\ r[i].made \in 1 .. used.export
              /\ r[i].made # used.export
              /\ \A x : Seen(i, x) /\ x.made = r[i].made => x = r[i]
              /\ partition[p].manifest.reference[i] = r[i].made
          BY <2>3, <3>1 DEF From
        <4> QED
          BY <2>2, <2>3, <2>13, <4>1
      <3>4. From(p, r)'
        BY <1>2, <3>1, <3>2, <3>3 DEF From
      <3> QED
        BY <3>4
    <2> QED
      BY <2>10, <2>12, <2>15, <2>16, <2>17, <2>18 DEF ReferenceInvariant, CopiesInvariant
  <1> QED
    BY <1>3, <1>4

LEMMA MoreIsLeft ==
    ASSUME NEW S, NEW s \in Seq(S), s # << >>, Len(s) # 1
    PROVE  Tail(s) \in Seq(S) /\ Tail(s) # << >>
  <1>1. Len(s) \in Nat /\ Len(s) # 0
    OBVIOUS
  <1>2. Tail(s) \in Seq(S) /\ Len(Tail(s)) = Len(s) - 1
    OBVIOUS
  <1>3. Len(Tail(s)) # 0
    BY <1>1, <1>2
  <1>4. Len(<< >>) = 0
    OBVIOUS
  <1> QED
    BY <1>2, <1>3, <1>4, Zenon

\* One file is replaced by the one the export has made.
LEMMA WriteFileStep ==
    ASSUME ReferenceInvariant, WriteFile
    PROVE  ReferenceInvariant'
  <1> DEFINE name == Head(exp.left)
  <1>1. TablesFact /\ SeedsFact /\ ExportFact /\ ReaderFact /\ CopiesInvariant
    BY DEF ReferenceInvariant
  <1>2. /\ exp.pc = "write"
        /\ file' = [file EXCEPT ![name] = exp.payload[name]]
        /\ exp' = IF Len(exp.left) = 1 THEN Idle ELSE [exp EXCEPT !.left = Tail(@)]
        /\ UNCHANGED << tables, seeds, reader, partition, used >>
    BY DEF WriteFile
  <1>3. WriteFact
    BY <1>1, <1>2 DEF ExportFact, Querying
  <1>4. DOMAIN exp = {"pc", "left", "payload"} /\ exp.left \in Seq(FileNames) /\ exp.left # << >>
    BY <1>3 DEF WriteFact
  <1>5. name \in FileNames
    BY <1>4
  <1>6. SeedsFact'
    BY <1>1, <1>2 DEF SeedsFact
  <1>7. TablesFact' /\ Grow(tables, tables') /\ ReaderFact'
    BY <1>1, <1>2, TablesStay, ReaderStays
  <1>8. ExportFact' /\ exp'.pc \notin Querying /\ (exp'.pc = "write" => exp'.payload = exp.payload)
    <2>1. CASE exp' = Idle
      BY <2>1, IdleIsFine DEF Idle, Querying
    <2>2. CASE exp' # Idle
      <3>1. exp' = [exp EXCEPT !.left = Tail(@)] /\ Len(exp.left) # 1
        BY <1>2, <2>2
      <3>2. /\ exp'.pc = "write" /\ exp'.payload = exp.payload /\ DOMAIN exp' = DOMAIN exp
            /\ exp'.left = Tail(exp.left)
        BY <1>2, <1>4, <3>1
      <3>3. Tail(exp.left) \in Seq(FileNames) /\ Tail(exp.left) # << >>
        BY <1>4, <3>1, MoreIsLeft
      <3>4. WriteFact'
        BY <1>3, <3>2, <3>3 DEF WriteFact
      <3> QED
        BY <3>2, <3>4 DEF ExportFact, Querying
    <2> QED
      BY <2>1, <2>2
  <1>9. ASSUME NEW i \in 1 .. 5, NEW x, Seen(i, x)'
        PROVE  Seen(i, x)
    <2>1. Files[i] \in DOMAIN file
      BY <1>1 DEF SeedsFact, FileNames
    <2>2. CASE Files[i] = name
      <3>1. file'[Files[i]] = exp.payload[Files[i]]
        BY <1>2, <2>1, <2>2
      <3> QED
        BY <1>2, <1>8, <1>9, <3>1 DEF Seen
    <2>3. CASE Files[i] # name
      <3>1. file'[Files[i]] = file[Files[i]]
        BY <1>2, <2>1, <2>3
      <3>2. There(i)' => There(i)
        BY <1>2, <3>1 DEF There
      <3> QED
        BY <1>2, <1>8, <1>9, <3>1, <3>2 DEF Seen
    <2> QED
      BY <2>2, <2>3
  <1>10. CopiesInvariant'
    BY <1>1, <1>2, <1>7, <1>8, <1>9, QuietStep DEF Quiet
  <1> QED
    BY <1>6, <1>7, <1>8, <1>10 DEF ReferenceInvariant

\* A reader that moves and writes nothing.
LEMMA ReaderStep ==
    ASSUME ReferenceInvariant, UNCHANGED << tables, seeds, file, exp, partition >>,
           used' \in [{"change", "export", "read", "crash"} -> Nat],
           used'.export = used.export, ReaderFact',
           \A i \in 1 .. 5 : reader'.verb # "none" /\ i <= Len(reader'.read) =>
             There(i) /\ Seen(i, reader'.read[i])
    PROVE  ReferenceInvariant'
  <1>1. TablesFact /\ SeedsFact /\ ExportFact /\ CopiesInvariant
    BY DEF ReferenceInvariant
  <1>2. TablesFact' /\ Grow(tables, tables') /\ SeedsFact' /\ ExportFact'
    BY <1>1, TablesStay, SeedsStay, ExportStays
  <1>3. ASSUME NEW i \in 1 .. 5, NEW x, Seen(i, x)'
        PROVE  Seen(i, x)
    <2>1. CASE There(i)' /\ x = file'[Files[i]]
      <3>1. There(i) \/ (reader'.verb # "none" /\ i <= Len(reader'.read))
        BY <2>1 DEF There
      <3>2. There(i)
        BY <3>1
      <3> QED
        BY <2>1, <3>2 DEF Seen
    <2>2. CASE reader'.verb # "none" /\ i <= Len(reader'.read) /\ x = reader'.read[i]
      BY <2>2
    <2>3. CASE exp'.pc = "write" /\ x = exp'.payload[Files[i]]
      BY <2>3 DEF Seen
    <2> QED
      BY <1>3, <2>1, <2>2, <2>3 DEF Seen
  <1>4. CopiesInvariant'
    BY <1>1, <1>2, <1>3, QuietStep DEF Quiet
  <1> QED
    BY <1>2, <1>4 DEF ReferenceInvariant

LEMMA StartReaderStep ==
    ASSUME ReferenceInvariant, NEW verb \in {"extract", "validate"}, NEW p \in Target,
           reader' = [verb |-> verb, p |-> p, read |-> << >>],
           verb = "validate" => partition[p] # None,
           Spend("read", MaxRead), UNCHANGED << tables, seeds, file, exp, partition >>
    PROVE  ReferenceInvariant'
  <1>1. /\ used' \in [{"change", "export", "read", "crash"} -> Nat]
        /\ used'.export = used.export
    <2>1. PICK what \in {"change", "export", "read", "crash"} : what = "read"
      OBVIOUS
    <2>2. SeedsFact /\ Spend(what, MaxRead) /\ what # "export"
      BY <2>1 DEF ReferenceInvariant
    <2> QED
      BY <2>2, SpendCounts
  <1>2. reader'.verb = verb /\ reader'.p = p /\ reader'.read = << >>
    OBVIOUS
  <1>3. << >> \in Seq({}) /\ Len(<< >>) = 0
    OBVIOUS
  <1>4. ReaderFact'
    BY <1>2, <1>3 DEF ReaderFact
  <1>5. \A i \in 1 .. 5 : ~(i <= Len(reader'.read))
    BY <1>2, <1>3
  <1> QED
    BY <1>1, <1>4, <1>5, ReaderStep

LEMMA StopReaderStep ==
    ASSUME ReferenceInvariant, reader' = Still,
           UNCHANGED << tables, seeds, file, exp, partition, used >>
    PROVE  ReferenceInvariant'
  <1>1. used' \in [{"change", "export", "read", "crash"} -> Nat]
    BY DEF ReferenceInvariant, SeedsFact
  <1>2. reader'.verb = "none" /\ ReaderFact'
    BY DEF Still, ReaderFact
  <1> QED
    BY <1>1, <1>2, ReaderStep

LEMMA AddedLast ==
    ASSUME NEW S, NEW s \in Seq(S), NEW e
    PROVE  /\ Append(s, e) \in Seq(S \union {e})
           /\ Len(Append(s, e)) = Len(s) + 1 /\ Len(s) \in Nat
           /\ Append(s, e)[Len(s) + 1] = e
           /\ \A i \in 1 .. Len(s) : Append(s, e)[i] = s[i]
  <1>1. s \in Seq(S \union {e})
    OBVIOUS
  <1> QED
    BY <1>1

LEMMA ReadFileStep ==
    ASSUME ReferenceInvariant, ReadFile
    PROVE  ReferenceInvariant'
  <1> DEFINE s == reader.read
             next == file[Files[Len(s) + 1]]
  <1>1. SeedsFact /\ ReaderFact
    BY DEF ReferenceInvariant
  <1>2. reader # Still /\ Len(s) < 5 /\ UNCHANGED << tables, seeds, file, exp, partition, used >>
    BY DEF ReadFile
  <1>3. CASE reader' = Still
    BY <1>2, <1>3, StopReaderStep
  <1>4. CASE reader' # Still
    <2>1. next # None /\ reader' = [reader EXCEPT !.read = Append(s, next)]
      BY <1>4 DEF ReadFile
    <2>2. /\ reader = [verb |-> reader.verb, p |-> reader.p, read |-> reader.read]
          /\ reader.verb \in {"extract", "validate"}
          /\ reader.p \in Target
          /\ \E S : s \in Seq(S)
          /\ reader.verb = "validate" => partition[reader.p] # None
      BY <1>1, <1>2 DEF ReaderFact
    <2>3. PICK S : s \in Seq(S)
      BY <2>2
    <2> HIDE DEF next
    <2>4. reader' = [verb |-> reader.verb, p |-> reader.p, read |-> Append(s, next)]
      BY <2>1, <2>2
    <2>5. reader'.verb = reader.verb /\ reader'.p = reader.p /\ reader'.read = Append(s, next)
      BY <2>4
    <2> HIDE DEF s
    <2>6. /\ Append(s, next) \in Seq(S \union {next})
          /\ Len(Append(s, next)) = Len(s) + 1 /\ Len(s) \in Nat
          /\ Append(s, next)[Len(s) + 1] = next
          /\ \A i \in 1 .. Len(s) : Append(s, next)[i] = s[i]
      BY <2>3, AddedLast
    <2>7. reader' = [verb |-> reader'.verb, p |-> reader'.p, read |-> reader'.read]
      BY <2>4, <2>5
    <2>8. Len(Append(s, next)) <= 5
      BY <1>2, <2>6
    <2>9. ReaderFact'
      BY <1>2, <2>2, <2>5, <2>6, <2>7, <2>8 DEF ReaderFact
    <2>10. ASSUME NEW i \in 1 .. 5, i <= Len(reader'.read)
           PROVE  There(i) /\ Seen(i, reader'.read[i])
      <3>1. i \in 1 .. Len(s) \/ i = Len(s) + 1
        BY <2>5, <2>6, <2>10
      <3>2. CASE i \in 1 .. Len(s)
        <4>1. reader'.read[i] = reader.read[i] /\ i <= Len(reader.read)
          BY <2>5, <2>6, <3>2 DEF s
        <4> QED
          BY <2>2, <4>1 DEF Seen, There
      <3>3. CASE i = Len(s) + 1
        <4>1. reader'.read[i] = next /\ next = file[Files[i]]
          BY <2>5, <2>6, <3>3 DEF next
        <4> QED
          BY <2>1, <4>1 DEF Seen, There
      <3> QED
        BY <3>1, <3>2, <3>3
    <2>11. used' \in [{"change", "export", "read", "crash"} -> Nat]
      BY <1>1, <1>2 DEF SeedsFact
    <2> QED
      BY <1>2, <2>9, <2>10, <2>11, ReaderStep
  <1> QED
    BY <1>3, <1>4

LEMMA ReadsAre ==
    /\ Read("customers") = reader.read[1] /\ Read("catalog") = reader.read[2]
    /\ Read("calendar") = reader.read[3] /\ Read("premises") = reader.read[4]
    /\ Read("demand") = reader.read[5]
  <1>1. \A i \in 1 .. 5 : i = 1 \/ i = 2 \/ i = 3 \/ i = 4 \/ i = 5
    OBVIOUS
  <1>2. \A i, j \in 1 .. 5 : Files[i] = Files[j] => i = j
    BY <1>1, FilesAre
  <1>3. ASSUME NEW n \in 1 .. 5
        PROVE  Read(Files[n]) = reader.read[n]
    <2>1. (CHOOSE i \in 1 .. 5 : Files[i] = Files[n]) = n
      BY <1>2
    <2> QED
      BY <2>1 DEF Read
  <1>4. 1 \in 1 .. 5 /\ 2 \in 1 .. 5 /\ 3 \in 1 .. 5 /\ 4 \in 1 .. 5 /\ 5 \in 1 .. 5
    OBVIOUS
  <1> QED
    BY <1>3, <1>4, FilesAre

\* A partition is written from the five files that were read.
LEMMA ExtractStep ==
    ASSUME ReferenceInvariant, Extract
    PROVE  ReferenceInvariant'
  <1>1. TablesFact /\ SeedsFact /\ ExportFact /\ ReaderFact /\ CopiesInvariant
    BY DEF ReferenceInvariant
  <1>2. /\ reader.verb = "extract" /\ Len(reader.read) = 5
        /\ reader' = Still /\ UNCHANGED << tables, seeds, file, exp, used >>
    BY DEF Extract, Loaded
  <1>0. PICK r : r = reader.read
    OBVIOUS
  <1>3. PICK p \in Target : p = reader.p
    BY <1>1, <1>2 DEF ReaderFact, Still
  <1>4. p \in Wh \X Day
    BY <1>3, ReferenceAssumption
  <1>5. CASE UNCHANGED partition
    BY <1>2, <1>5, StopReaderStep
  <1>6. CASE ~(UNCHANGED partition)
    <2>1. /\ p \in DOMAIN Read("calendar").rows
          /\ \E order \in Orders(Read("customers"), Read("catalog"), Read("calendar"),
                                 Premise[Read("premises").edition], Read("demand"),
                                 p[1], p[2]) :
               partition' = [partition EXCEPT ![p] =
                 [order |-> order,
                  manifest |-> [premises |-> Read("premises").edition,
                                version |-> Read("demand").version,
                                reference |-> [i \in 1 .. 5 |-> reader.read[i].made]]]]
      <3>1. UNCHANGED partition \/
          /\ reader.p \in DOMAIN Read("calendar").rows
          /\ \E order \in Orders(Read("customers"), Read("catalog"), Read("calendar"),
                                 Premise[Read("premises").edition], Read("demand"),
                                 reader.p[1], reader.p[2]) :
               partition' = [partition EXCEPT ![reader.p] =
                 [order |-> order,
                  manifest |-> [premises |-> Read("premises").edition,
                                version |-> Read("demand").version,
                                reference |-> [i \in 1 .. 5 |-> reader.read[i].made]]]]
        BY Zenon DEF Extract
      <3> QED
        BY <1>3, <1>6, <3>1, Zenon
    <2>2. /\ p \in DOMAIN r[3].rows
          /\ \E order \in OrdersOf(r, p) :
               partition' = [partition EXCEPT ![p] =
                 [order |-> order,
                  manifest |-> [premises |-> r[4].edition, version |-> r[5].version,
                                reference |-> [i \in 1 .. 5 |-> r[i].made]]]]
      BY <1>0, <2>1, ReadsAre, Zenon DEF OrdersOf
    <2>3. PICK order \in OrdersOf(r, p) :
               partition' = [partition EXCEPT ![p] =
                 [order |-> order,
                  manifest |-> [premises |-> r[4].edition, version |-> r[5].version,
                                reference |-> [i \in 1 .. 5 |-> r[i].made]]]]
      BY <2>2
    <2>4. DOMAIN partition = Target
      BY <1>1 DEF SeedsFact
    <2>5. /\ partition'[p].order = order
          /\ partition'[p].manifest.premises = r[4].edition
          /\ partition'[p].manifest.version = r[5].version
          /\ \A i \in 1 .. 5 : partition'[p].manifest.reference[i] = r[i].made
          /\ DOMAIN partition' = Target
          /\ \A q \in Target : q # p => partition'[q] = partition[q]
      BY <1>3, <2>3, <2>4
    <2>6. reader'.verb = "none"
      BY <1>2 DEF Still
    <2>7. \A i \in 1 .. 5 : There(i) /\ Seen(i, r[i])
      BY <1>0, <1>2 DEF There, Seen
    <2>8. Quiet
      <3>1. Grow(tables, tables')
        BY <1>1, <1>2, TablesStay
      <3>2. \A i \in 1 .. 5 : \A x : Seen(i, x)' => Seen(i, x)
        BY <1>2, <2>6, <2>7 DEF Seen
      <3> QED
        BY <1>2, <3>1, <3>2 DEF Quiet
    <2>9. TablesFact' /\ ExportFact' /\ ReaderFact' /\ SeedsFact'
      <3>1. ReaderFact'
        BY <1>2 DEF ReaderFact
      <3>2. SeedsFact'
        BY <1>1, <1>2, <2>5 DEF SeedsFact
      <3> QED
        BY <1>1, <1>2, <3>1, <3>2, TablesStay, ExportStays
    <2>10. \A i \in 1 .. 5 :
             /\ Fact(tables, i, r[i])
             /\ r[i].made \in 1 .. used.export
             /\ exp.pc \in Querying => r[i].made # used.export
             /\ \A x : Seen(i, x) /\ x.made = r[i].made => x = r[i]
      BY <1>1, <2>7 DEF CopiesInvariant, CopiesAreTrue, CopiesAreEqual
    <2>11. Follows(order, r, p)
      <3>1. PremisesFact(r[4])
        BY <2>10 DEF Fact
      <3> QED
        BY <1>4, <3>1, OrdersFollow
    <2>12. From(p, r)'
      <3>1. ASSUME NEW i \in 1 .. 5
            PROVE  /\ Fact(tables', i, r[i])
                   /\ r[i].made \in 1 .. used'.export
                   /\ exp'.pc \in Querying => r[i].made # used'.export
                   /\ \A x : Seen(i, x)' /\ x.made = r[i].made => x = r[i]
                   /\ partition'[p].manifest.reference[i] = r[i].made
        BY <1>2, <2>5, <2>8, <2>10 DEF Quiet
      <3>2. p \in DOMAIN r[3].rows
        BY <2>2
      <3> QED
        BY <2>5, <2>11, <3>1, <3>2 DEF From
    <2>13. PartitionsFollow'
      <3> SUFFICES ASSUME NEW q \in Target, partition'[q] # None
                   PROVE  \E f : From(q, f)'
        BY DEF PartitionsFollow
      <3>1. CASE q = p
        BY <2>12, <3>1
      <3>2. CASE q # p
        <4>1. partition'[q] = partition[q]
          BY <2>5, <3>2
        <4>2. PICK f : From(q, f)
          BY <1>1, <4>1 DEF CopiesInvariant, PartitionsFollow
        <4>3. From(q, f)'
          BY <1>1, <2>8, <4>1, <4>2, QuietPartition
        <4> QED
          BY <4>3
      <3> QED
        BY <3>1, <3>2
    <2> QED
      BY <1>1, <2>8, <2>9, <2>13, QuietCopies DEF ReferenceInvariant, CopiesInvariant
  <1> QED
    BY <1>5, <1>6

-----------------------------------------------------------------------------
(* The invariant is inductive.                                             *)

LEMMA ReferenceStarts == ReferenceInit => ReferenceInvariant
  <1> SUFFICES ASSUME ReferenceInit
               PROVE  ReferenceInvariant
    OBVIOUS
  <1>1. /\ tables = [landed |-> Landed,
                     bases |-> [d \in Day |-> IF Bases[d] = None THEN None ELSE Base[Bases[d]]]]
        /\ seeds = [premise |-> 1, mapping |-> 1, version |-> 1]
        /\ file = [f \in {Files[i] : i \in 1 .. 5} |-> None]
        /\ exp = Idle /\ reader = Still /\ partition = [p \in Target |-> None]
        /\ used = [change |-> 0, export |-> 0, read |-> 0, crash |-> 0]
    BY DEF ReferenceInit
  <1>2. TablesFact
    <2>1. /\ tables.landed = Landed
          /\ tables.bases = [d \in Day |-> IF Bases[d] = None THEN None ELSE Base[Bases[d]]]
      BY <1>1
    <2>2. tables = [landed |-> tables.landed, bases |-> tables.bases]
      BY <1>1, <2>1
    <2>3. \A d \in Day : Bases[d] # None => << d, Bases[d] >> \in Landing
      BY DEF Landing
    <2>4. \A d \in Day : tables.bases[d] # None =>
            \E g \in Landing : g[1] = d /\ tables.bases[d] = Base[g[2]]
      BY <2>1, <2>3
    <2> QED
      BY <2>1, <2>2, <2>4 DEF TablesFact
  <1>3. SeedsFact
    <2>1. used \in [{"change", "export", "read", "crash"} -> Nat]
      BY <1>1
    <2>2. /\ seeds.premise = 1 /\ seeds.mapping = 1
          /\ seeds = [premise |-> seeds.premise, mapping |-> seeds.mapping,
                      version |-> seeds.version]
      BY <1>1
    <2> QED
      BY <1>1, <2>1, <2>2, SeedsAssumption DEF SeedsFact, FileNames
  <1>4. ExportFact
    BY <1>1 DEF ExportFact, Idle, Querying
  <1>5. ReaderFact
    BY <1>1 DEF ReaderFact
  <1>6. CopiesInvariant
    <2>1. \A i \in 1 .. 5 : Files[i] \in DOMAIN file /\ file[Files[i]] = None
      BY <1>1
    <2>2. /\ \A p \in Target : partition[p] = None
          /\ exp.pc = "idle" /\ reader.verb = "none"
      BY <1>1 DEF Idle, Still
    <2>3. \A i \in 1 .. 5 : \A x : ~Seen(i, x)
      BY <2>1, <2>2 DEF Seen, There
    <2>4. 2 \in 1 .. 5
      OBVIOUS
    <2> QED
      BY <2>2, <2>3, <2>4 DEF CopiesInvariant, CopiesAreTrue, CopiesAreEqual, CopiesAgree,
                              PartitionsFollow
  <1> QED
    BY <1>2, <1>3, <1>4, <1>5, <1>6 DEF ReferenceInvariant

LEMMA ReferenceStutters ==
    ASSUME ReferenceInvariant, UNCHANGED referenceVars
    PROVE  ReferenceInvariant'
  <1>1. TablesFact /\ SeedsFact /\ ExportFact /\ ReaderFact /\ CopiesInvariant
    BY DEF ReferenceInvariant
  <1>2. UNCHANGED << tables, seeds, file, exp, reader, partition, used >>
    BY DEF referenceVars
  <1>3. used' \in [{"change", "export", "read", "crash"} -> Nat]
    BY <1>1, <1>2 DEF SeedsFact
  <1>4. TablesFact' /\ Grow(tables, tables') /\ SeedsFact' /\ ReaderFact' /\ ExportFact'
    BY <1>1, <1>2, <1>3, TablesStay, SeedsStay, ReaderStays, ExportStays
  <1>5. \A i \in 1 .. 5 : \A x : Seen(i, x)' => Seen(i, x)
    BY <1>2, SameCopies
  <1>6. CopiesInvariant'
    BY <1>1, <1>2, <1>4, <1>5, QuietStep DEF Quiet
  <1> QED
    BY <1>4, <1>6 DEF ReferenceInvariant

\* What TLC checks on one Silver holds of every one: whatever lands while the export
\* queries, whatever exports and readers overlap and wherever an export dies, every copy of
\* a file is true of the tables, copies of one export agree, and every partition follows
\* from five such files.
THEOREM ReferenceStaysTrue == ReferenceSpec => []ReferenceInvariant
  <1>1. ReferenceInit => ReferenceInvariant
    BY ReferenceStarts
  <1>2. ReferenceInvariant /\ [ReferenceNext]_referenceVars => ReferenceInvariant'
    <2> SUFFICES ASSUME ReferenceInvariant, [ReferenceNext]_referenceVars
                 PROVE  ReferenceInvariant'
      OBVIOUS
    <2>1. CASE Change
      BY <2>1, ChangeStep
    <2>2. CASE KillExport
      BY <2>2, KillStep
    <2>3. CASE \E window \in Window : StartExport(window)
      BY <2>3, StartExportStep
    <2>4. CASE QueryCalendar
      BY <2>4, QueryCalendarStep
    <2>5. CASE QueryCatalog
      BY <2>5, QueryCatalogStep
    <2>6. CASE QueryTree
      BY <2>6, CheckStep DEF QueryTree, ExportStep, Querying
    <2>7. CASE QueryDrift
      BY <2>7, CheckStep DEF QueryDrift, ExportStep, Querying
    <2>8. CASE QueryCustomers
      BY <2>8, QueryCustomersStep
    <2>9. CASE QueryGenerations
      BY <2>9, QueryGenerationsStep
    <2>10. CASE WriteFile
      BY <2>10, WriteFileStep
    <2>11. CASE \E p \in Target : StartValidate(p)
      <3>1. PICK p \in Target, verb \in {"extract", "validate"} :
              verb = "validate" /\ StartValidate(p)
        BY <2>11
      <3>2. reader' = [verb |-> verb, p |-> p, read |-> << >>]
        BY <3>1 DEF StartValidate
      <3> QED
        BY <3>1, <3>2, StartReaderStep DEF StartValidate
    <2>12. CASE \E p \in Target : \E overwrite \in BOOLEAN : StartExtract(p, overwrite)
      <3>1. PICK p \in Target, overwrite \in BOOLEAN, verb \in {"extract", "validate"} :
              verb = "extract" /\ StartExtract(p, overwrite)
        BY <2>12
      <3>2. reader' = [verb |-> verb, p |-> p, read |-> << >>]
        BY <3>1 DEF StartExtract
      <3> QED
        BY <3>1, <3>2, StartReaderStep DEF StartExtract
    <2>13. CASE ReadFile
      BY <2>13, ReadFileStep
    <2>14. CASE Extract
      BY <2>14, ExtractStep
    <2>15. CASE Judge
      BY <2>15, StopReaderStep DEF Judge
    <2>16. CASE UNCHANGED referenceVars
      BY <2>16, ReferenceStutters
    <2> QED
      BY <2>1, <2>2, <2>3, <2>4, <2>5, <2>6, <2>7, <2>8, <2>9, <2>10, <2>11, <2>12, <2>13,
         <2>14, <2>15, <2>16 DEF ReferenceNext
  <1> QED
    BY <1>1, <1>2, PTL DEF ReferenceSpec

-----------------------------------------------------------------------------
(* What the invariant says of the files and the orders.                    *)

LEMMA FileIs ==
    /\ file.customers = file[Files[1]] /\ file.catalog = file[Files[2]]
    /\ file.calendar = file[Files[3]] /\ file.premises = file[Files[4]]
    /\ file.demand = file[Files[5]]
  BY FilesAre

LEMMA ReferenceIsTyped ==
    ASSUME ReferenceInvariant
    PROVE  ReferenceTypeOK
  <1>1. TablesFact /\ SeedsFact /\ ExportFact /\ ReaderFact /\ CopiesInvariant
    BY DEF ReferenceInvariant
  <1>2. tables.landed \subseteq Wh \X Day /\ DOMAIN tables.bases = Day
    BY <1>1, TablesAre DEF TablesFact
  <1>3. ASSUME NEW f \in DOMAIN file, file[f] # None
        PROVE  file[f].made \in 1 .. used.export
    <2>1. PICK i \in 1 .. 5 : f = Files[i]
      BY <1>1 DEF SeedsFact, FileNames
    <2>2. Seen(i, file[f])
      BY <1>3, <2>1 DEF Seen, There
    <2> QED
      BY <1>1, <2>2 DEF CopiesInvariant, CopiesAreTrue
  <1>4. reader.verb \in {"none", "extract", "validate"}
    BY <1>1 DEF ReaderFact, Still
  <1>5. ASSUME NEW p \in Target, partition[p] # None, NEW i \in 1 .. 5
        PROVE  partition[p].manifest.reference[i] \in 1 .. used.export
    <2>1. PICK r : From(p, r)
      BY <1>1, <1>5 DEF CopiesInvariant, PartitionsFollow
    <2> QED
      BY <2>1 DEF From
  <1>6. /\ exp.pc \in {"idle", "calendar", "catalog", "tree", "drift", "customers", "profile",
                       "write"}
        /\ exp.pc \in {"catalog", "tree"} => exp.dates \subseteq Day
    BY <1>1 DEF ExportFact, Querying
  <1>7. seeds.premise \in DOMAIN Premise /\ seeds.mapping \in DOMAIN Mapping
    BY <1>1 DEF SeedsFact
  <1> QED
    BY <1>2, <1>3, <1>4, <1>5, <1>6, <1>7 DEF ReferenceTypeOK

\* _assert_coverage, whatever landed between two queries.
LEMMA PayloadCovers ==
    ASSUME ReferenceInvariant
    PROVE  PayloadsCover
  <1> DEFINE out == exp.payload
             as_of(wh, d) == out.calendar.rows[<< wh, d >>].price_as_of
             Pair(wh, d) == RowsOf(out.catalog.rows, wh, as_of(wh, d))
  <1> SUFFICES ASSUME exp.pc = "write", NEW wh \in Wh, NEW d \in Days(out.calendar.window)
               PROVE  /\ as_of(wh, d) <= d /\ << wh, as_of(wh, d) >> \in tables.landed
                      /\ Cardinality({r.id : r \in Pair(wh, d)}) = Cardinality(Pair(wh, d))
                      /\ Cardinality(Pair(wh, d)) >= Premise[out.premises.edition].lines[2]
                      /\ \A g \in out.demand.weighted : \E r \in Pair(wh, d) : r.group = g
                      /\ \E c \in DOMAIN out.customers.rows : out.customers.rows[c].wh = wh
    BY DEF PayloadsCover, RowsOf
  <1>1. ExportFact /\ CopiesInvariant
    BY DEF ReferenceInvariant
  <1>2. WriteFact
    BY <1>1 DEF ExportFact
  <1>3. \A i \in 1 .. 5 : Fact(tables, i, out[Files[i]])
    BY <1>1 DEF CopiesInvariant, CopiesAreTrue, Seen
  <1>4. out[Files[2]] = out.catalog /\ out[Files[3]] = out.calendar
    BY FilesAre
  <1>5. CatalogFact(tables, out.catalog) /\ CalendarFact(tables, out.calendar)
    <2>1. Fact(tables, 2, out.catalog) /\ Fact(tables, 3, out.calendar)
      <3>1. 2 \in 1 .. 5 /\ 3 \in 1 .. 5
        OBVIOUS
      <3> QED
        BY <1>3, <1>4, <3>1
    <2> QED
      BY <2>1 DEF Fact
  <1>6. as_of(wh, d) \in Day /\ as_of(wh, d) <= d /\ << wh, as_of(wh, d) >> \in tables.landed
    BY <1>5 DEF CalendarFact, PricedDays
  <1>7. << wh, as_of(wh, d) >> \in PairsOf(out.catalog.rows)
    <2>1. << wh, d >> \in DOMAIN out.calendar.rows
      BY <1>5 DEF CalendarFact, PricedDays
    <2>2. \A p \in DOMAIN out.calendar.rows :
            << p[1], out.calendar.rows[p].price_as_of >> \in PairsOf(out.catalog.rows)
      BY <1>2 DEF WriteFact, PricedIn
    <2> QED
      BY <2>1, <2>2
  <1>8. Cardinality(Pair(wh, d)) >= Premise[out.premises.edition].lines[2]
    <2> DEFINE pair == << wh, as_of(wh, d) >>
    <2>1. pair[1] = wh /\ pair[2] = as_of(wh, d) /\ pair \in PairsOf(out.catalog.rows)
      BY <1>7
    <2> HIDE DEF pair
    <2>2. Cardinality(RowsOf(out.catalog.rows, pair[1], pair[2]))
            >= Premise[out.premises.edition].lines[2]
      BY <1>2, <2>1 DEF WriteFact
    <2> QED
      BY <2>1, <2>2
  <1>9. out.demand.weighted \subseteq GroupsOf(Pair(wh, d))
    <2> DEFINE pair == << wh, as_of(wh, d) >>
    <2>1. pair[1] = wh /\ pair[2] = as_of(wh, d) /\ pair \in PairsOf(out.catalog.rows)
      BY <1>7
    <2> HIDE DEF pair
    <2>2. out.demand.weighted \subseteq GroupsOf(RowsOf(out.catalog.rows, pair[1], pair[2]))
      BY <1>2, <2>1 DEF WriteFact, WeighedIn
    <2> QED
      BY <2>1, <2>2
  <1>10. \A g \in out.demand.weighted : \E r \in Pair(wh, d) : r.group = g
    BY <1>9 DEF GroupsOf
  <1>11. \E c \in DOMAIN out.customers.rows : out.customers.rows[c].wh = wh
    BY <1>2 DEF WriteFact
  <1>12. Cardinality({r.id : r \in Pair(wh, d)}) = Cardinality(Pair(wh, d))
    BY <1>5, <1>6, ProductsAreCounted DEF CatalogFact
  <1> QED
    BY <1>6, <1>8, <1>10, <1>11, <1>12

LEMMA WholeExportIsUsable ==
    ASSUME ReferenceInvariant, BaseOnlyGrows, EveryBandBuys
    PROVE  AWholeExportLoads
  <1> SUFFICES ASSUME OneExport
               PROVE  Usable(file.catalog, file.demand)
    BY DEF AWholeExportLoads
  <1>1. TablesFact /\ SeedsFact /\ CopiesInvariant
    BY DEF ReferenceInvariant
  <1>2. 2 \in 1 .. 5 /\ 5 \in 1 .. 5
    OBVIOUS
  <1>3. Files[2] \in DOMAIN file /\ Files[5] \in DOMAIN file
    BY <1>1, <1>2 DEF SeedsFact, FileNames
  <1>4. Seen(2, file[Files[2]]) /\ Seen(5, file[Files[5]])
    BY <1>3 DEF OneExport, Seen, There
  <1>5. file[Files[2]].made = file[Files[5]].made
    <2>1. /\ file[Files[2]].made = file.demand.made
          /\ file[Files[5]].made = file.demand.made
      BY <1>3 DEF OneExport
    <2> QED
      BY <2>1
  <1>6. Seen(2, file.catalog) /\ Seen(5, file.demand) /\ file.catalog.made = file.demand.made
    BY <1>4, <1>5, FileIs, Zenon
  <1>7. CatalogFact(tables, file.catalog) /\ DemandFact(tables, file.demand)
    BY <1>1, <1>2, <1>6 DEF CopiesInvariant, CopiesAreTrue, Fact
  <1>8. WeighedIn(file.catalog, file.demand)
    BY <1>1, <1>6 DEF CopiesInvariant, CopiesAgree
  <1> QED
    BY <1>1, <1>7, <1>8, CoveredIsUsable

LEMMA FromIsTrue ==
    ASSUME NEW p, NEW r, From(p, r)
    PROVE  /\ CustomersFact(tables, r[1]) /\ CatalogFact(tables, r[2])
           /\ CalendarFact(tables, r[3])
  <1>1. 1 \in 1 .. 5 /\ 2 \in 1 .. 5 /\ 3 \in 1 .. 5
    OBVIOUS
  <1>2. Fact(tables, 1, r[1]) /\ Fact(tables, 2, r[2]) /\ Fact(tables, 3, r[3])
    BY <1>1 DEF From
  <1> QED
    BY <1>2 DEF Fact

LEMMA TargetIs ==
    ASSUME NEW p \in Target
    PROVE  p \in Wh \X Day
  BY ReferenceAssumption

LEMMA EveryOrderIsGrounded ==
    ASSUME ReferenceInvariant, BaseOnlyGrows
    PROVE  OrdersAreGrounded
  <1> SUFFICES ASSUME NEW p \in Target, partition[p] # None
               PROVE  Grounded(p)
    BY DEF OrdersAreGrounded, Grounded
  <1>1. TablesFact /\ CopiesInvariant
    BY DEF ReferenceInvariant
  <1>2. PICK r : From(p, r)
    BY <1>1 DEF CopiesInvariant, PartitionsFollow
  <1>3. /\ p \in DOMAIN r[3].rows /\ Follows(partition[p].order, r, p)
        /\ partition[p].manifest.premises = r[4].edition
    BY <1>2 DEF From
  <1> QED
    BY <1>1, <1>2, <1>3, FromIsTrue, TargetIs, FollowsIsGrounded

LEMMA FreshLogIsAccepted ==
    ASSUME ReferenceInvariant
    PROVE  AFreshLogIsAccepted
  <1> SUFFICES ASSUME NEW p \in Target, partition[p] # None,
                      \A i \in 1 .. 5 :
                        file[Files[i]].made = partition[p].manifest.reference[i]
               PROVE  Accepts(p, file.customers, file.catalog, file.calendar, file.premises,
                              file.demand)
    BY DEF AFreshLogIsAccepted
  <1>1. PICK r : From(p, r)
    BY DEF ReferenceInvariant, CopiesInvariant, PartitionsFollow
  <1>2. ASSUME NEW i \in 1 .. 5
        PROVE  file[Files[i]] = r[i]
    <2>1. Seen(i, file[Files[i]])
      BY DEF Seen, There
    <2> QED
      BY <1>1, <2>1 DEF From
  <1>3. 1 \in 1 .. 5 /\ 2 \in 1 .. 5 /\ 3 \in 1 .. 5 /\ 4 \in 1 .. 5 /\ 5 \in 1 .. 5
    OBVIOUS
  <1>4. /\ file.customers = r[1] /\ file.catalog = r[2] /\ file.calendar = r[3]
        /\ file.premises = r[4] /\ file.demand = r[5]
    BY <1>2, <1>3, FileIs
  <1>5. Accepts(p, r[1], r[2], r[3], r[4], r[5])
    BY <1>1, FollowsIsAccepted DEF From
  <1> QED
    BY <1>4, <1>5, Zenon

LEMMA LaterExportAccepts ==
    ASSUME ReferenceInvariant, BaseOnlyGrows, LaterIsLater
    PROVE  ALaterExportAccepts
  <1> DEFINE q == reader.read
             p == reader.p
  <1> SUFFICES ASSUME Loaded("validate"),
                      \A i \in 1 .. 5 :
                        [k \in 1 .. 5 |-> q[k].made][i] = [k \in 1 .. 5 |-> q[k].made][1],
                      partition[p].manifest.premises = Read("premises").edition,
                      partition[p].manifest.version = Read("demand").version,
                      p \in DOMAIN Read("calendar").rows
               PROVE  Accepted
    BY DEF ALaterExportAccepts
  <1>1. TablesFact /\ ReaderFact /\ CopiesInvariant
    BY DEF ReferenceInvariant
  <1>2. reader.verb = "validate" /\ Len(q) = 5
    BY DEF Loaded
  <1>3. p \in Target /\ partition[p] # None
    BY <1>1, <1>2 DEF ReaderFact, Still
  <1>4. PICK r : From(p, r)
    BY <1>1, <1>3 DEF CopiesInvariant, PartitionsFollow
  <1>5. 1 \in 1 .. 5 /\ 2 \in 1 .. 5 /\ 3 \in 1 .. 5
    OBVIOUS
  <1>6. Seen(1, q[1]) /\ Seen(2, q[2]) /\ Seen(3, q[3])
    BY <1>2 DEF Seen
  <1>7. /\ CustomersFact(tables, q[1]) /\ CatalogFact(tables, q[2])
        /\ CalendarFact(tables, q[3])
    <2>1. Fact(tables, 1, q[1]) /\ Fact(tables, 2, q[2]) /\ Fact(tables, 3, q[3])
      BY <1>1, <1>5, <1>6 DEF CopiesInvariant, CopiesAreTrue
    <2> QED
      BY <2>1 DEF Fact
  <1>8. q[2].made = q[3].made
    BY <1>5
  <1>9. PricedIn(q[2], q[3])
    BY <1>1, <1>6, <1>8 DEF CopiesInvariant, CopiesAgree
  <1>10. /\ partition[p].manifest.premises = q[4].edition
         /\ partition[p].manifest.version = q[5].version
         /\ p \in DOMAIN q[3].rows
    BY ReadsAre
  <1>11. /\ p \in DOMAIN r[3].rows /\ Follows(partition[p].order, r, p)
         /\ partition[p].manifest.premises = r[4].edition
    BY <1>4 DEF From
  <1> HIDE DEF p, q
  <1>12. Accepts(p, q[1], q[2], q[3], q[4], q[5])
    BY <1>1, <1>3, <1>4, <1>7, <1>9, <1>10, <1>11, FromIsTrue, TargetIs, LaterFilesAccept
  <1> QED
    BY <1>12, ReadsAre, Zenon DEF Accepted, p, q

\* An export that passed its own check covers every warehouse and day of its window,
\* whatever landed between two of its queries; a log is accepted with the files it was
\* generated from, of one export or of several.
THEOREM CoverageAndFreshLogs == ReferenceSpec => [](PayloadsCover /\ AFreshLogIsAccepted)
  BY ReferenceStaysTrue, PayloadCovers, FreshLogIsAccepted, PTL

\* Where a customer stays as he was, an order is of a customer, of products and of prices
\* of its day, though its five files are of as many exports (orders_generator.py).
THEOREM OrdersStayGrounded ==
    ASSUME BaseOnlyGrows
    PROVE  ReferenceSpec => []OrdersAreGrounded
  BY ReferenceStaysTrue, EveryOrderIsGrounded, PTL

\* Where a customer stays as he was, what lands is later than the days that are asked for
\* and every age band has buyers in every community: orders are of customers, products and
\* prices of their day, a whole export loads, and a later export accepts the orders of an
\* earlier one (orders_reference.py, orders_generator.py, validate.py).
THEOREM ReferenceAlwaysHolds ==
    ASSUME BaseOnlyGrows, LaterIsLater, EveryBandBuys
    PROVE  ReferenceSpec => []ReferenceHolds
  <1>1. ReferenceInvariant => ReferenceHolds
    BY ReferenceIsTyped, PayloadCovers, WholeExportIsUsable, EveryOrderIsGrounded,
       FreshLogIsAccepted, LaterExportAccepts DEF ReferenceHolds
  <1> QED
    BY <1>1, ReferenceStaysTrue, PTL

-----------------------------------------------------------------------------
(* Growing the base.                                                       *)

\* A row calls first the first generation that has the customer.
FirstOf(t, rows) ==
    \A c \in DOMAIN rows : \A g \in Generations(t.bases) :
        c \in DOMAIN t.bases[g] => rows[c].first <= g

\* What an export has read of the customers, and then writes, is of everybody in the file.
GrowthFact ==
    /\ file.customers # None => FirstOf(tables, file.customers.rows)
    /\ exp.pc = "profile" =>
         /\ FirstOf(tables, exp.rows)
         /\ file.customers # None => DOMAIN file.customers.rows \subseteq DOMAIN exp.rows
    /\ exp.pc = "write" =>
         /\ FirstOf(tables, exp.payload.customers.rows)
         /\ file.customers # None =>
              DOMAIN file.customers.rows \subseteq DOMAIN exp.payload.customers.rows

\* Whoever is in a file is in the tables since the generation his row calls the first.
LEMMA CustomersCopied ==
    ASSUME ReferenceInvariant
    PROVE  /\ file.customers # None => CustomersFact(tables, file.customers)
           /\ exp.pc = "profile" => KnownRows(tables, exp.rows)
           /\ exp.pc = "write" => CustomersFact(tables, exp.payload.customers)
  <1>1. ExportFact /\ CopiesAreTrue
    BY DEF ReferenceInvariant, CopiesInvariant
  <1>2. 1 \in 1 .. 5 /\ Files[1] = "customers"
    BY FilesAre
  <1>3. \A x : Seen(1, x) => CustomersFact(tables, x)
    <2>1. \A x : Seen(1, x) => Fact(tables, 1, x)
      BY <1>1, <1>2 DEF CopiesAreTrue
    <2> QED
      BY <2>1 DEF Fact
  <1>4. file.customers # None => Seen(1, file.customers)
    BY <1>2 DEF Seen, There
  <1>5. exp.pc = "write" => Seen(1, exp.payload.customers)
    BY <1>2 DEF Seen
  <1> QED
    BY <1>1, <1>3, <1>4, <1>5 DEF ExportFact

LEMMA FirstStays ==
    ASSUME TablesFact, Grow(tables, tables'), LandsInOrder \/ UNCHANGED tables, TablesFact',
           NEW rows, KnownRows(tables, rows), FirstOf(tables, rows)
    PROVE  FirstOf(tables', rows)
  <1> SUFFICES ASSUME NEW c \in DOMAIN rows, NEW g \in Generations(tables'.bases),
                      c \in DOMAIN tables'.bases[g]
               PROVE  rows[c].first <= g
    BY DEF FirstOf
  <1>1. g \in Day /\ tables'.bases[g] # None
    BY DEF Generations
  <1>2. rows[c].first \in Generations(tables.bases) /\ rows[c].first \in Day
    BY DEF KnownRows, Generations
  <1>3. CASE tables.bases[g] # None
    <2>1. tables'.bases[g] = tables.bases[g] /\ g \in Generations(tables.bases)
      BY <1>1, <1>3 DEF Grow, Generations
    <2> QED
      BY <2>1 DEF FirstOf
  <1>4. CASE tables.bases[g] = None
    <2>1. LandsInOrder
      BY <1>1, <1>4
    <2>2. rows[c].first < g
      BY <1>1, <1>2, <1>4, <2>1 DEF LandsInOrder
    <2>3. rows[c].first \in Nat /\ g \in Nat
      BY <1>1, <1>2, ReferenceAssumption
    <2> QED
      BY <2>2, <2>3
  <1> QED
    BY <1>3, <1>4

\* _CUSTOMERS_SQL: everybody, since the first generation that has him.
LEMMA RowsOfTheMoment ==
    ASSUME TablesFact
    PROVE  /\ FirstOf(tables, CustomerRows(tables.bases))
           /\ \A g \in Generations(tables.bases) :
                DOMAIN tables.bases[g] \subseteq DOMAIN CustomerRows(tables.bases)
  <1> DEFINE bases == tables.bases
  <1>1. DOMAIN CustomerRows(bases) = CustomersIn(bases)
    BY DEF CustomerRows
  <1>2. ASSUME NEW c \in CustomersIn(bases), NEW g \in Generations(bases),
               c \in DOMAIN bases[g]
        PROVE  CustomerRows(bases)[c].first <= g
    <2>1. KnownIn(bases, c) \in SUBSET Day /\ g \in KnownIn(bases, c)
      BY <1>2 DEF KnownIn, Generations
    <2>2. Min(KnownIn(bases, c)) <= g
      BY <2>1, FirstDay
    <2>3. CustomerRows(bases)[c].first = Min(KnownIn(bases, c))
      BY DEF CustomerRows
    <2> QED
      BY <2>2, <2>3
  <1>3. \A g \in Generations(bases) : DOMAIN bases[g] \subseteq CustomersIn(bases)
    BY DEF CustomersIn
  <1> QED
    BY <1>1, <1>2, <1>3 DEF FirstOf

\* A step that reads no customers and replaces no file of them.
LEMMA GrowthStays ==
    ASSUME ReferenceInvariant, ReferenceInvariant', GrowthFact,
           LandsInOrder \/ UNCHANGED tables, Grow(tables, tables'),
           file'.customers = file.customers,
           exp'.pc = "profile" => exp.pc = "profile" /\ exp'.rows = exp.rows,
           exp'.pc = "write" => exp.pc = "write" /\ exp'.payload = exp.payload
    PROVE  GrowthFact'
  <1>1. TablesFact /\ TablesFact'
    BY DEF ReferenceInvariant
  <1>2. \A rows : KnownRows(tables, rows) /\ FirstOf(tables, rows) => FirstOf(tables', rows)
    BY <1>1, FirstStays
  <1>3. /\ file.customers # None => KnownRows(tables, file.customers.rows)
        /\ exp.pc = "profile" => KnownRows(tables, exp.rows)
        /\ exp.pc = "write" => KnownRows(tables, exp.payload.customers.rows)
    BY CustomersCopied DEF CustomersFact
  <1> QED
    BY <1>2, <1>3 DEF GrowthFact

\* Everybody in the file is in what is read now.
LEMMA GrowthRead ==
    ASSUME ReferenceInvariant, GrowthFact, QueryCustomers
    PROVE  GrowthFact'
  <1>1. TablesFact
    BY DEF ReferenceInvariant
  <1>2. exp.pc = "customers" /\ UNCHANGED << tables, file >>
    BY DEF QueryCustomers, ExportStep
  <1>3. CASE exp' = Idle
    BY <1>2, <1>3 DEF GrowthFact, Idle
  <1>4. CASE exp' # Idle
    <2>1. exp'.pc = "profile" /\ exp'.rows = CustomerRows(tables.bases)
      BY <1>4 DEF QueryCustomers
    <2>2. ASSUME file.customers # None, NEW c \in DOMAIN file.customers.rows
          PROVE  c \in DOMAIN CustomerRows(tables.bases)
      <3>1. KnownRows(tables, file.customers.rows)
        BY <2>2, CustomersCopied DEF CustomersFact
      <3>2. PICK g \in Generations(tables.bases) : c \in DOMAIN tables.bases[g]
        BY <3>1 DEF KnownRows, Generations
      <3> QED
        BY <1>1, <3>2, RowsOfTheMoment
    <2>3. FirstOf(tables, CustomerRows(tables.bases))
      BY <1>1, RowsOfTheMoment
    <2> QED
      BY <1>2, <2>1, <2>2, <2>3 DEF GrowthFact
  <1> QED
    BY <1>3, <1>4

\* What was read is what will be written.
LEMMA GrowthPayload ==
    ASSUME GrowthFact, QueryGenerations
    PROVE  GrowthFact'
  <1>1. exp.pc = "profile" /\ UNCHANGED << tables, file >>
    BY DEF QueryGenerations, ExportStep
  <1>2. CASE exp' = Idle
    BY <1>1, <1>2 DEF GrowthFact, Idle
  <1>3. CASE exp' # Idle
    <2>1. exp'.pc = "write" /\ exp'.payload.customers.rows = exp.rows
      BY <1>3 DEF QueryGenerations
    <2> QED
      BY <1>1, <2>1 DEF GrowthFact
  <1> QED
    BY <1>2, <1>3

\* Of the file that replaces another, and of the one that stays.
LEMMA GrowthWrite ==
    ASSUME ReferenceInvariant, WriteFile
    PROVE  /\ exp.pc = "write" /\ UNCHANGED tables
           /\ file'.customers \in {file.customers, exp.payload.customers}
           /\ exp'.pc # "profile"
           /\ exp'.pc = "write" => exp'.payload = exp.payload
  <1>1. /\ exp.pc = "write" /\ UNCHANGED tables
        /\ file' = [file EXCEPT ![Head(exp.left)] = exp.payload[Head(exp.left)]]
        /\ exp' = IF Len(exp.left) = 1 THEN Idle ELSE [exp EXCEPT !.left = Tail(@)]
    BY DEF WriteFile
  <1>2. DOMAIN file = FileNames /\ DOMAIN exp = {"pc", "left", "payload"}
    BY <1>1 DEF ReferenceInvariant, SeedsFact, ExportFact, WriteFact
  <1>3. file'.customers \in {file.customers, exp.payload.customers}
    <2>1. "customers" \in DOMAIN file
      BY <1>2, FilesAre DEF FileNames
    <2> QED
      BY <1>1, <2>1
  <1>4. exp'.pc # "profile" /\ (exp'.pc = "write" => exp'.payload = exp.payload)
    BY <1>1, <1>2 DEF Idle
  <1> QED
    BY <1>1, <1>3, <1>4

LEMMA GrowthWritten ==
    ASSUME ReferenceInvariant, GrowthFact, WriteFile
    PROVE  GrowthFact'
  <1>1. /\ exp.pc = "write" /\ UNCHANGED tables
        /\ file'.customers \in {file.customers, exp.payload.customers}
        /\ exp'.pc # "profile"
        /\ exp'.pc = "write" => exp'.payload = exp.payload
    BY GrowthWrite
  <1> QED
    BY <1>1 DEF GrowthFact

\* Who may order on a day that no generation was added before.
LEMMA EligibleAlike ==
    ASSUME TablesFact, BirthsAreKept, ~Drifts(tables.bases),
           NEW x, NEW y, CustomersFact(tables, x), CustomersFact(tables, y),
           FirstOf(tables, x.rows), FirstOf(tables, y.rows),
           DOMAIN x.rows \subseteq DOMAIN y.rows, NEW d \in Day,
           \A g \in x.generations : DOMAIN tables.bases[g] \subseteq DOMAIN x.rows,
           x.generations \subseteq y.generations,
           \A g \in y.generations \ x.generations : g > d, NEW age, NEW wh
    PROVE  Eligible(y, age, wh, d) = Eligible(x, age, wh, d)
  <1>1. Day \subseteq Nat
    BY ReferenceAssumption
  <1>2. ASSUME NEW c \in DOMAIN y.rows, y.rows[c].first <= d
        PROVE  c \in DOMAIN x.rows /\ x.rows[c].first <= d
    <2>1. /\ y.rows[c].first \in y.generations /\ y.rows[c].first \in Day
          /\ y.rows[c].first \in Generations(tables.bases)
          /\ c \in DOMAIN tables.bases[y.rows[c].first]
      BY DEF CustomersFact, KnownRows, Generations
    <2>2. y.rows[c].first \in x.generations
      BY <1>1, <1>2, <2>1
    <2>3. c \in DOMAIN x.rows
      BY <2>1, <2>2
    <2>4. x.rows[c].first <= y.rows[c].first /\ x.rows[c].first \in Day
      BY <2>1, <2>3 DEF FirstOf, CustomersFact, KnownRows
    <2>5. /\ x.rows[c].first \in Nat /\ y.rows[c].first \in Nat /\ d \in Nat
          /\ y.rows[c].first <= d
      BY <1>1, <1>2, <2>1, <2>4
    <2>6. x.rows[c].first <= d
      BY <2>4, <2>5
    <2> QED
      BY <2>3, <2>6
  <1>3. ASSUME NEW c \in DOMAIN x.rows
        PROVE  /\ y.rows[c].first <= x.rows[c].first
               /\ x.rows[c].first \in Day /\ y.rows[c].first \in Day
    BY DEF FirstOf, CustomersFact, KnownRows, Generations
  <1>4. ASSUME NEW c \in DOMAIN x.rows
        PROVE  x.rows[c].wh = y.rows[c].wh /\ x.rows[c].birth = y.rows[c].birth
    <2>1. PICK g \in Day : /\ tables.bases[g] # None
                           /\ c \in DOMAIN tables.bases[g]
                           /\ tables.bases[g][c].wh = x.rows[c].wh
                           /\ tables.bases[g][c].birth = x.rows[c].birth
      BY DEF CustomersFact, KnownRows
    <2>2. PICK h \in Day : /\ tables.bases[h] # None
                           /\ c \in DOMAIN tables.bases[h]
                           /\ tables.bases[h][c].wh = y.rows[c].wh
                           /\ tables.bases[h][c].birth = y.rows[c].birth
      BY DEF CustomersFact, KnownRows
    <2>3. g \in KnownIn(tables.bases, c) /\ h \in KnownIn(tables.bases, c)
          /\ c \in CustomersIn(tables.bases)
      BY <2>1, <2>2 DEF KnownIn, Generations, CustomersIn
    <2>4. tables.bases[g][c].wh = tables.bases[h][c].wh
      BY <2>3 DEF Drifts
    <2>5. tables.bases[g][c].birth = tables.bases[h][c].birth
      <3>1. PICK m \in Landing : tables.bases[g] = Base[m[2]]
        BY <2>1 DEF TablesFact
      <3>2. PICK n \in Landing : tables.bases[h] = Base[n[2]]
        BY <2>2 DEF TablesFact
      <3> QED
        BY <2>1, <2>2, <3>1, <3>2 DEF BirthsAreKept
    <2> QED
      BY <2>1, <2>2, <2>4, <2>5
  <1>5. {g \in y.generations : g <= d} = {g \in x.generations : g <= d}
    <2>1. y.generations \subseteq Day
      BY DEF CustomersFact, Generations
    <2> QED
      BY <1>1, <2>1
  <1>6. ASSUME NEW c \in DOMAIN x.rows
        PROVE  VersionAt(y, y.rows[c].first, d) = VersionAt(x, x.rows[c].first, d)
    <2>1. d < y.rows[c].first <=> d < x.rows[c].first
      BY <1>1, <1>2, <1>3, <1>6
    <2> QED
      BY <1>5, <2>1 DEF VersionAt
  <1>7. ASSUME NEW c \in DOMAIN y.rows, VersionAt(y, y.rows[c].first, d) # None
        PROVE  c \in DOMAIN x.rows
    <2>1. ~(d < y.rows[c].first)
      BY <1>7 DEF VersionAt
    <2>2. y.rows[c].first \in Day
      BY DEF CustomersFact, KnownRows
    <2>3. y.rows[c].first \in Nat /\ d \in Nat
      BY <1>1, <2>2
    <2>4. y.rows[c].first <= d
      BY <2>1, <2>3
    <2> QED
      BY <1>2, <2>4
  <1> QED
    BY <1>4, <1>6, <1>7 DEF Eligible

LEMMA GrowthStep ==
    ASSUME ReferenceInvariant, ReferenceInvariant', GrowthFact, [ReferenceNext]_referenceVars,
           [LandsInOrder]_tables
    PROVE  GrowthFact'
  <1>1. LandsInOrder \/ UNCHANGED tables
    OBVIOUS
  <1>2. \A t : Grow(t, t)
    BY SameGrows
  <1>3. CASE Change
    <2>1. UNCHANGED << file, exp >>
      BY <1>3 DEF Change
    <2>2. Grow(tables, tables')
      BY <1>3, ChangeGrows DEF ReferenceInvariant
    <2> QED
      BY <1>1, <2>1, <2>2, GrowthStays
  <1>4. CASE KillExport \/ \E window \in Window : StartExport(window)
    <2>1. /\ UNCHANGED << tables, file >>
          /\ exp'.pc \notin {"profile", "write"}
      BY <1>4 DEF KillExport, StartExport, Idle
    <2> QED
      BY <1>2, <2>1, GrowthStays
  <1>5. CASE QueryCalendar \/ QueryCatalog
    <2>1. UNCHANGED << tables, file >>
      BY <1>5 DEF QueryCalendar, QueryCatalog, ExportStep
    <2>2. exp'.pc \notin {"profile", "write"}
      BY <1>5 DEF QueryCalendar, QueryCatalog, Idle
    <2> QED
      BY <1>2, <2>1, <2>2, GrowthStays
  <1>6. CASE QueryTree \/ QueryDrift
    <2>1. UNCHANGED << tables, file >> /\ exp.pc \in {"tree", "drift"}
      BY <1>6 DEF QueryTree, QueryDrift, ExportStep
    <2>2. "pc" \in DOMAIN exp
      BY <2>1 DEF ReferenceInvariant, ExportFact
    <2>3. exp'.pc \notin {"profile", "write"}
      BY <1>6, <2>2 DEF QueryTree, QueryDrift, Idle
    <2> QED
      BY <1>2, <2>1, <2>3, GrowthStays
  <1>7. CASE QueryCustomers
    BY <1>7, GrowthRead
  <1>8. CASE QueryGenerations
    BY <1>8, GrowthPayload
  <1>9. CASE WriteFile
    BY <1>9, GrowthWritten
  <1>10. CASE \/ \E p \in Target : StartValidate(p)
              \/ \E p \in Target : \E overwrite \in BOOLEAN : StartExtract(p, overwrite)
              \/ ReadFile \/ Extract \/ Judge \/ UNCHANGED referenceVars
    <2>1. UNCHANGED << tables, file, exp >>
      BY <1>10 DEF StartValidate, StartExtract, ReadFile, Extract, Judge, referenceVars
    <2> QED
      BY <1>2, <2>1, GrowthStays
  <1> QED
    BY <1>3, <1>4, <1>5, <1>6, <1>7, <1>8, <1>9, <1>10 DEF ReferenceNext

LEMMA DayIsKept ==
    ASSUME ReferenceInvariant, GrowthFact, BirthsAreKept, [ReferenceNext]_referenceVars
    PROVE  [KeepsTheDay]_file
  <1> SUFFICES ASSUME NEW wh \in Wh, NEW d \in Day,
                      NEW age \in {Premise[i].minAge : i \in DOMAIN Premise},
                      file.customers # None, ~Drifts(tables.bases),
                      \A g \in file.customers.generations :
                        DOMAIN tables.bases[g] \subseteq DOMAIN file.customers.rows,
                      file.customers.generations \subseteq file'.customers.generations,
                      \A g \in file'.customers.generations \ file.customers.generations : g > d
               PROVE  Eligible(file'.customers, age, wh, d) = Eligible(file.customers, age, wh, d)
    BY DEF KeepsTheDay
  <1>1. CASE file'.customers = file.customers
    BY <1>1
  <1>2. CASE file'.customers # file.customers
    <2>1. WriteFile
      BY <1>2 DEF ReferenceNext, referenceVars, Change, KillExport, StartExport, QueryCalendar,
                  QueryCatalog, QueryTree, QueryDrift, QueryCustomers, QueryGenerations,
                  ExportStep, StartValidate, StartExtract, ReadFile, Extract, Judge
    <2>2. exp.pc = "write" /\ file'.customers = exp.payload.customers
      BY <1>2, <2>1, GrowthWrite
    <2> DEFINE x == file.customers
               y == exp.payload.customers
    <2>3. CustomersFact(tables, x) /\ CustomersFact(tables, y)
      BY <2>2, CustomersCopied
    <2>4. FirstOf(tables, x.rows) /\ FirstOf(tables, y.rows)
          /\ DOMAIN x.rows \subseteq DOMAIN y.rows
      BY <2>2 DEF GrowthFact
    <2>5. TablesFact
      BY DEF ReferenceInvariant
    <2>6. /\ x.generations \subseteq y.generations
          /\ \A g \in y.generations \ x.generations : g > d
          /\ \A g \in x.generations : DOMAIN tables.bases[g] \subseteq DOMAIN x.rows
      BY <2>2
    <2>7. Eligible(y, age, wh, d) = Eligible(x, age, wh, d)
      <3> HIDE DEF x, y
      <3> QED
        BY <2>3, <2>4, <2>5, <2>6, EligibleAlike
    <2> QED
      BY <2>2, <2>7
  <1> QED
    BY <1>1, <1>2

\* Where nobody's year of birth is corrected and generations land in order, a later
\* generation changes nobody's right to order on a day before it: somebody in the file is
\* in every later one, and a row calls first the first generation that has him
\* (customer_version_at, first_ingestion_date).
THEOREM GrowthAlwaysKeepsTheDay ==
    ASSUME BirthsAreKept
    PROVE  ReferenceSpec /\ [][LandsInOrder]_tables => GrowthKeepsTheDay
  <1>1. ReferenceInit => GrowthFact
    <2>1. ReferenceInit => file.customers = None /\ exp.pc = "idle"
      BY FilesAre DEF ReferenceInit, Idle
    <2> QED
      BY <2>1 DEF GrowthFact
  <1>2. /\ ReferenceInvariant /\ ReferenceInvariant' /\ GrowthFact
        /\ [ReferenceNext]_referenceVars /\ [LandsInOrder]_tables
        => GrowthFact'
    BY GrowthStep
  <1>3. ReferenceInvariant /\ GrowthFact /\ [ReferenceNext]_referenceVars => [KeepsTheDay]_file
    BY DayIsKept
  <1> QED
    BY <1>1, <1>2, <1>3, ReferenceStaysTrue, PTL DEF ReferenceSpec, GrowthKeepsTheDay
=============================================================================
