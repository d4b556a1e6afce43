---------------------------- MODULE WarehouseLoad ----------------------------
(***************************************************************************)
(* The boundary between the lakehouse and the warehouse, as the            *)
(* warehouse_load DAG crosses it: `export-cut` writes a parquet per table  *)
(* of the cut, `load-postgres` or `load-snowflake` recreates the STAGE     *)
(* tables from them, dbt builds GOLD and MART from STAGE.  Silver goes on  *)
(* being rebuilt, table by table (SilverBuild), while a run is under way.  *)
(*                                                                         *)
(* A version of a table stands for its rows; Columns and RowCount say what *)
(* the loaders can tell of a version: two versions may well have as many   *)
(* rows.  Version 0 is no table.                                           *)
(***************************************************************************)
EXTENDS Integers, Sequences, SequencesExt, FiniteSetsExt

CONSTANTS
    SPECS,          \* the tables of the cut, in their order
    NeedsSpark,     \* those of them that Silver only has once Spark has run
    Versions,       \* how often Silver is built
    Columns,        \* the columns of every version
    RowCount,       \* the rows of every version
    MaxRuns,        \* DAG runs
    MaxFaults       \* failures of the network, and processes that die

ASSUME CutAssumption ==
    /\ Versions \in Nat /\ MaxRuns \in Nat /\ MaxFaults \in Nat
    /\ SPECS \in Seq(Range(SPECS)) /\ SPECS # <<>>
    /\ NeedsSpark \subseteq Range(SPECS)
    /\ RowCount \in [1..Versions -> Nat]

VARIABLES
    engine,     \* the warehouse the runs load: "postgres" or "snowflake"
    silver,     \* the version of every table in the lake
    rebuild,    \* the tables the Silver build under way has still to write
    sparkRan,   \* has the stock ledger ever been computed?
    cut,        \* the parquet of every table: its version and the export that wrote it
    stage,      \* STAGE as the others see it
    session,    \* STAGE as the loader's own session sees it
    put,        \* the file every table stage holds (Snowflake)
    gold,       \* the version of every table GOLD was built from
    run,        \* the DAG run under way, or the outcome of the last one
    job,        \* the process the running task has started
    runs,       \* DAG runs so far
    faults      \* faults so far

\* What the runs find and leave as it is.
setting == <<engine, sparkRan>>
lake == <<silver, rebuild, setting>>
warehouse == <<cut, stage, session, put, gold>>
dag == <<run, job, runs>>
vars == <<engine, silver, rebuild, sparkRan, cut, stage, session, put, gold, run, job, runs, faults>>

\* Postgres commits a load as a whole, Snowflake its DDL and each COPY at once.
Transactional == engine = "postgres"

Cut == Range(SPECS)
Built == Cut \ (IF sparkRan THEN {} ELSE NeedsSpark)
Whole == \A t \in Cut : silver[t] > 0 /\ silver[t] = silver[SPECS[1]]

NoTable == [from |-> <<>>, columns |-> {}, export |-> 0]
Rows(table) == FoldSeq(LAMBDA v, n : n + RowCount[v], 0, table.from)

(* Retries of the three tasks.                                             *)
(* Mutant of Retries: the load is not repeated.                            *)
RetriesNone(task) == 0
Retries(task) ==
    CASE task = "load" -> 2
      [] task = "build" -> 1
      [] OTHER -> 0

NoJob == [step |-> "none", todo |-> <<>>, expected |-> [t \in Cut |-> 0]]
NoRun == [task |-> "none", outcome |-> "none", tries |-> 0, why |-> "none", at |-> "none",
          floor |-> [t \in Cut |-> 0], whole |-> FALSE]

Init ==
    /\ engine \in {"postgres", "snowflake"}
    /\ silver = [t \in Cut |-> 0]
    /\ rebuild = {}
    /\ sparkRan \in BOOLEAN
    /\ NeedsSpark = {} => sparkRan
    /\ cut = [t \in Cut |-> [version |-> 0, export |-> 0]]
    /\ stage = [t \in Cut |-> NoTable]
    /\ session = stage
    /\ put = [t \in Cut |-> 0]
    /\ gold = [t \in Cut |-> [version |-> 0, export |-> 0]]
    /\ run = NoRun
    /\ job = NoJob
    /\ runs = 0
    /\ faults = 0

(***************************************************************************)
(* Silver, as the source DAGs and `make silver` rebuild it.                *)
(***************************************************************************)
NextVersion == Max({silver[t] : t \in Cut}) + 1

StartSilver ==
    /\ rebuild = {}
    /\ NextVersion <= Versions
    /\ \E first \in Built :
         /\ silver' = [silver EXCEPT ![first] = NextVersion]
         /\ rebuild' = Built \ {first}
    /\ UNCHANGED <<setting, warehouse, dag, faults>>

RebuildTable(t) ==
    /\ t \in rebuild
    /\ silver' = [silver EXCEPT ![t] = Max({silver[u] : u \in Cut})]
    /\ rebuild' = rebuild \ {t}
    /\ UNCHANGED <<setting, warehouse, dag, faults>>

(***************************************************************************)
(* The DAG: one run at a time.                                             *)
(***************************************************************************)
(* Somebody, or the catalog's DAG after its silver, triggers a run.  The   *)
(* gate asks for data in RAW, which Silver is built from.                  *)
StartRun ==
    /\ run.task = "none"
    /\ runs < MaxRuns
    /\ \E t \in Cut : silver[t] > 0
    /\ runs' = runs + 1
    /\ run' = [NoRun EXCEPT !.task = "export", !.floor = silver,
                            !.whole = (rebuild = {} /\ Whole)]
    /\ job' = NoJob
    /\ UNCHANGED <<lake, warehouse, faults>>

(* The task's process ends well, or does not.                              *)
Succeed ==
    /\ job' = NoJob
    /\ run' = CASE run.task = "export" -> [run EXCEPT !.task = "load", !.tries = 0]
                [] run.task = "load" -> [run EXCEPT !.task = "build", !.tries = 0]
                [] OTHER -> [run EXCEPT !.task = "none", !.outcome = "success"]

(* Mutant of Fail: the tries are not counted.                              *)
FailUncounted(why) ==
    /\ job' = NoJob
    /\ run' = IF run.tries < Retries(run.task)
              THEN run
              ELSE [run EXCEPT !.task = "none", !.outcome = "failed", !.why = why,
                               !.at = run.task]
Fail(why) ==
    /\ job' = NoJob
    /\ run' = IF run.tries < Retries(run.task)
              THEN [run EXCEPT !.tries = @ + 1]
              ELSE [run EXCEPT !.task = "none", !.outcome = "failed", !.why = why,
                               !.at = run.task]

Fault ==
    /\ faults < MaxFaults
    /\ faults' = faults + 1

(* The connection, or the process, dies between two steps: what the        *)
(* session has not committed is lost.                                      *)
Die ==
    /\ run.task # "none"
    /\ Fault
    /\ Fail("fault")
    /\ session' = stage
    /\ UNCHANGED <<lake, cut, stage, put, gold, runs>>

(***************************************************************************)
(* export-cut: parquet by parquet, each replaced at once.                  *)
(***************************************************************************)
(* Mutant of BeginExport: a cut that is on disk is taken for the export.   *)
BeginExportOnce ==
    /\ run.task = "export" /\ job.step = "none"
    /\ job' = [NoJob EXCEPT !.step = "cut",
                  !.todo = IF \A t \in Cut : cut[t].version > 0 THEN <<>> ELSE SPECS]
    /\ UNCHANGED <<lake, warehouse, run, runs, faults>>
BeginExport ==
    /\ run.task = "export" /\ job.step = "none"
    /\ job' = [NoJob EXCEPT !.step = "cut", !.todo = SPECS]
    /\ UNCHANGED <<lake, warehouse, run, runs, faults>>

(* A table Silver does not have raises, and leaves the parquets before it. *)
ExportTable ==
    LET t == Head(job.todo)
    IN  /\ job.step = "cut" /\ job.todo # <<>>
        /\ IF silver[t] = 0
           THEN /\ Fail("data")
                /\ UNCHANGED cut
           ELSE /\ cut' = [cut EXCEPT ![t] = [version |-> silver[t], export |-> runs]]
                /\ job' = [job EXCEPT !.todo = Tail(@)]
                /\ UNCHANGED run
        /\ UNCHANGED <<lake, stage, session, put, gold, runs, faults>>

EndExport ==
    /\ job.step = "cut" /\ job.todo = <<>>
    /\ Succeed
    /\ UNCHANGED <<lake, warehouse, runs, faults>>

(***************************************************************************)
(* load-postgres, load-snowflake                                           *)
(***************************************************************************)
(* Every parquet must be there; its rows are counted before connecting.    *)
BeginLoad ==
    /\ run.task = "load" /\ job.step = "none"
    /\ IF \E t \in Cut : cut[t].version = 0
       THEN Fail("data")
       ELSE /\ job' = [NoJob EXCEPT !.step = "recreate", !.todo = SPECS,
                           !.expected = [t \in Cut |-> RowCount[cut[t].version]]]
            /\ UNCHANGED run
    /\ session' = stage
    /\ UNCHANGED <<lake, cut, stage, put, gold, runs, faults>>

(* Mutant of InSession: every table is committed on its own.               *)
InSessionCommitted(tables) ==
    /\ session' = tables
    /\ stage' = tables
(* What the session does shows at once where DDL and COPY commit.          *)
InSession(tables) ==
    /\ session' = tables
    /\ stage' = IF Transactional THEN stage ELSE tables

(* Mutant of Recreated: `create table if not exists`.                      *)
RecreatedIfMissing(t) ==
    IF session[t].columns # {} THEN session[t]
    ELSE [NoTable EXCEPT !.columns = Columns[silver[t]]]
(* The DDL is derived from the query over Silver, as Silver is now.        *)
Recreated(t) == [NoTable EXCEPT !.columns = Columns[silver[t]]]

RecreateTable ==
    LET t == Head(job.todo)
    IN  /\ job.step = "recreate" /\ job.todo # <<>>
        /\ InSession([session EXCEPT ![t] = Recreated(t)])
        /\ job' = [job EXCEPT !.step = IF Transactional THEN "copy" ELSE "put"]
        /\ UNCHANGED <<lake, cut, put, gold, run, runs, faults>>

(* Mutant of PutFile: a file of that name in the table stage is kept.      *)
PutFileKept(t) == IF put[t] = 0 THEN cut[t].version ELSE put[t]
(* PUT ... overwrite = true.                                               *)
PutFile(t) == cut[t].version

PutTable ==
    LET t == Head(job.todo)
    IN  /\ job.step = "put"
        /\ put' = [put EXCEPT ![t] = PutFile(t)]
        /\ job' = [job EXCEPT !.step = "copy"]
        /\ UNCHANGED <<lake, cut, stage, session, gold, run, runs, faults>>

(* Postgres selects the table's columns from the parquet, which fails      *)
(* where it lacks one; Snowflake matches by name and leaves nulls.         *)
CopyTable ==
    LET t == Head(job.todo)
        file == IF Transactional THEN cut[t].version ELSE put[t]
        copied == [session[t] EXCEPT !.from = Append(@, file), !.export = cut[t].export]
    IN  /\ job.step = "copy"
        /\ IF Transactional /\ ~(session[t].columns \subseteq Columns[file])
           THEN /\ Fail("data")
                /\ InSession(stage)
           ELSE /\ InSession([session EXCEPT ![t] = copied])
                /\ job' = [job EXCEPT !.todo = Tail(@), !.step = "recreate"]
                /\ UNCHANGED run
        /\ UNCHANGED <<lake, cut, put, gold, runs, faults>>

(* One commit for all the tables, and then verify.                         *)
Commit ==
    /\ job.step = "recreate" /\ job.todo = <<>>
    /\ job' = [job EXCEPT !.step = "verify"]
    /\ stage' = session
    /\ UNCHANGED <<lake, cut, session, put, gold, run, runs, faults>>

Recounted == \A t \in Cut : Rows(stage[t]) = job.expected[t]

VerifyLoad ==
    /\ job.step = "verify"
    /\ IF Recounted THEN Succeed ELSE Fail("data")
    /\ UNCHANGED <<lake, warehouse, runs, faults>>

(***************************************************************************)
(* dbt build over STAGE, table by table, and its tests between the tables. *)
(* A test asks something of the rows (that the stock ledger covers the     *)
(* window of the orders, say) that versions do not tell: any may be red.   *)
(***************************************************************************)
BeginBuild ==
    /\ run.task = "build" /\ job.step = "none"
    /\ job' = [NoJob EXCEPT !.step = "gold", !.todo = SPECS]
    /\ UNCHANGED <<lake, warehouse, run, runs, faults>>

Refresh(t) ==
    gold' = [gold EXCEPT ![t] = [version |-> Last(stage[t].from), export |-> stage[t].export]]

(* What stands below a red test is skipped, and stays as it was.           *)
BuildGold ==
    LET t == Head(job.todo)
    IN  /\ job.step \in {"gold", "red"} /\ job.todo # <<>>
        /\ \/ Refresh(t)
           \/ job.step = "red" /\ UNCHANGED gold
        /\ \E step \in {job.step, "red"} : job' = [job EXCEPT !.step = step, !.todo = Tail(@)]
        /\ UNCHANGED <<lake, cut, stage, session, put, run, runs, faults>>

(* The task fails on dbt's exit code.                                      *)
EndBuild ==
    /\ job.step \in {"gold", "red"} /\ job.todo = <<>>
    /\ IF job.step = "gold" THEN Succeed ELSE Fail("test")
    /\ UNCHANGED <<lake, warehouse, runs, faults>>

Task == \/ BeginExport \/ ExportTable \/ EndExport
        \/ BeginLoad \/ RecreateTable \/ PutTable \/ CopyTable \/ Commit \/ VerifyLoad
        \/ BeginBuild \/ BuildGold \/ EndBuild

Next == \/ StartSilver
        \/ \E t \in Cut : RebuildTable(t)
        \/ StartRun
        \/ Task
        \/ Die

Spec == Init /\ [][Next]_vars
FairSpec == Spec /\ WF_vars(Task) /\ WF_vars(\E t \in Cut : RebuildTable(t))

-----------------------------------------------------------------------------
Tables == [from : UNION {[1..n -> 1..Versions] : n \in 0..2},
           columns : {Columns[v] : v \in 1..Versions} \cup {{}}, export : 0..MaxRuns]
Parquets == [version : 0..Versions, export : 0..MaxRuns]

(* The shape of the state.                                                 *)
TypeOK ==
    /\ engine \in {"postgres", "snowflake"}
    /\ silver \in [Cut -> 0..Versions] /\ rebuild \subseteq Cut /\ sparkRan \in BOOLEAN
    /\ cut \in [Cut -> Parquets] /\ gold \in [Cut -> Parquets]
    /\ stage \in [Cut -> Tables] /\ session \in [Cut -> Tables]
    /\ put \in [Cut -> 0..Versions]
    /\ run.task \in {"none", "export", "load", "build"}
    /\ run.outcome \in {"none", "success", "failed"}
    /\ job.step \in {"none", "cut", "recreate", "put", "copy", "verify", "gold", "red"}
    /\ runs \in 0..MaxRuns /\ faults \in 0..MaxFaults

(* However often a load dies and is repeated, no table of STAGE holds the  *)
(* rows of two copies: a task that is retried starts from empty tables.    *)
NoTableIsDoubled == \A t \in Cut : Len(stage[t].from) <= 1

(* Postgres: STAGE is always the work of a single export; who reads it     *)
(* while a load runs, or after one died, sees the one before, whole.       *)
ReadersSeeOneLoad ==
    Transactional => \A t, u \in Cut : stage[t].export = stage[u].export

(* A run that ends well leaves GOLD built from that run's own export, of   *)
(* nothing older than what Silver held when the run began, for all that    *)
(* the only check between the two is a count of rows.                      *)
FreshAfterSuccess ==
    run.outcome = "success" =>
        \A t \in Cut : gold[t].version >= run.floor[t] /\ gold[t].export = runs

(* The export and the load are refused only when Silver lacked a table, or *)
(* changed while the run was under way: a STAGE left by earlier runs,      *)
(* whole or half loaded, does not stop them.  (A red test of the build     *)
(* needs no such cause.)                                                   *)
RefusalsHaveACause ==
    run.outcome = "failed" /\ run.why = "data" =>
        \/ \E t \in Cut : run.floor[t] = 0
        \/ silver # run.floor

(* Two faults do not stop a load of a Silver that stays as it is: the load *)
(* is repeated from the beginning.                                         *)
TwoFaultsDoNotStopALoad ==
    run.outcome = "failed" /\ run.why = "fault" /\ run.at = "load" =>
        faults > 2 \/ silver # run.floor

(* A load repeated over what a failed try left replaces it: no table is    *)
(* doubled, a green run is newer than its start, Postgres readers see one  *)
(* load, and a Silver that is whole and stays is exported and loaded,      *)
(* whatever lies in STAGE and through two faults of the load.              *)
LoadsReplace ==
    /\ TypeOK
    /\ NoTableIsDoubled
    /\ ReadersSeeOneLoad
    /\ FreshAfterSuccess
    /\ RefusalsHaveACause
    /\ TwoFaultsDoNotStopALoad

(* Every run ends, whatever Silver does meanwhile.                         *)
RunsEnd == run.task # "none" ~> run.task = "none"

(* Of a Silver whose build was finished and whole when the run began, GOLD *)
(* is built from one build: the DAG is scheduled by asset for that.  (It   *)
(* is not: nothing keeps Silver from being rebuilt during the export.)     *)
CutIsOneSilver ==
    run.outcome = "success" /\ run.whole => \A t, u \in Cut : gold[t].version = gold[u].version

(* The columns of a STAGE table are those of the rows that were copied     *)
(* into it.  (They are those of Silver at the time of the load.)           *)
StageShape ==
    \A t \in Cut : stage[t].from # <<>> => stage[t].columns = Columns[Last(stage[t].from)]

(* Without Spark the warehouse is refreshed all the same.  (The cut asks   *)
(* for the stock ledger, which only Spark computes.)                       *)
StandardPathLoads == run.outcome = "failed" => run.why = "fault"
=============================================================================
