------------------------------ MODULE LandingDag ------------------------------
(***************************************************************************)
(* The five source DAGs: per branch (a warehouse, or the only partition)   *)
(* guard_date or export_reference >> skip_if_landed >> extract >> validate *)
(* >> land >> verify_landing, then one shared silver and, for the catalog, *)
(* trigger_warehouse_load.  The scheduler runs a task once its upstream    *)
(* tasks have settled and its trigger rule lets it.  What a command does   *)
(* to a partition is abstracted to its outcome: RawLanding models land and *)
(* verify-landing byte by byte, CatalogExtract and its siblings extract.   *)
(***************************************************************************)
EXTENDS Integers, FiniteSets

CONSTANTS
    Branches,
    HasGuard,       \* guard_date comes first (Mercadona)
    HasReference,   \* export_reference comes first (customers, orders)
    HasTrigger,     \* trigger_warehouse_load comes last (Mercadona)
    HasOverwrite,   \* the run takes the overwrite parameter
    Daily,          \* the partition is that of the day of the run
    Pruning,        \* somebody runs prune-local after a landing
    Midnight,       \* the day may end in the middle of a run
    MaxFailures     \* commands that fail on the network, the disk or a kill

VARIABLES
    run,        \* the DAG run: under way, its day, its overwrite parameter
    task,       \* the state of each task instance
    tries,      \* the attempts each has spent
    local,      \* the partition of each branch under data/
    bucket,     \* the partition of each branch in the bucket
    same,       \* branches whose bucket copy is of the local edition
    pending,    \* branches that landed something no Silver build has read
    suspect,    \* branches that left a partition of an earlier day unfinished
    unloaded,   \* Silver was built and the warehouse load not triggered since
    failures    \* failures so far

dagVars == <<run, task, tries, local, bucket, same, pending, suspect, unloaded, failures>>
data == <<local, bucket, same, pending, suspect, unloaded>>

Stages == {"guard", "gate", "extract", "validate", "land", "verify"}
Shared == {<<"export_reference", "dag">>, <<"silver", "dag">>, <<"trigger", "dag">>}
Tasks == (Stages \X Branches) \cup Shared

Present(t) ==
    CASE t[1] = "guard" -> HasGuard
      [] t[1] = "export_reference" -> HasReference
      [] t[1] = "trigger" -> HasTrigger
      [] OTHER -> TRUE

(* The edges of the graph.                                                 *)
Upstream(t) ==
    {u \in Tasks : Present(u) /\
        \/ t[1] = "gate" /\ u \in {<<"guard", t[2]>>, <<"export_reference", "dag">>}
        \/ t[1] = "extract" /\ u = <<"gate", t[2]>>
        \/ t[1] = "validate" /\ u = <<"extract", t[2]>>
        \/ t[1] = "land" /\ u = <<"validate", t[2]>>
        \/ t[1] = "verify" /\ u = <<"land", t[2]>>
        \/ t[1] = "silver" /\ u[1] = "verify"
        \/ t[1] = "trigger" /\ u[1] = "silver"}

Retries(t) ==
    CASE t[1] = "land" -> 2
      [] t[1] \in {"verify", "silver", "export_reference"} -> 1
      [] OTHER -> 0

Settled == {"success", "failed", "skipped", "upstream_failed"}
Ready(t) ==
    /\ run.on /\ Present(t) /\ task[t] = "none"
    /\ \A u \in Upstream(t) : task[u] \in Settled

Blocked(t) == \E u \in Upstream(t) : task[u] \in {"failed", "upstream_failed"}
AllSuccess(t) == \A u \in Upstream(t) : task[u] = "success"
NoneFailedMinOneSuccess(t) == ~Blocked(t) /\ \E u \in Upstream(t) : task[u] = "success"
(* Mutant of Runs: silver runs whatever became of the branches.            *)
RunsAllDone(t) == AllSuccess(t) \/ t[1] = "silver"
(* The trigger rule of each task.                                          *)
Runs(t) == IF t[1] = "silver" THEN NoneFailedMinOneSuccess(t) ELSE AllSuccess(t)

Cascade(t) ==
    /\ Ready(t) /\ ~Runs(t)
    /\ task' = [task EXCEPT ![t] = IF Blocked(t) THEN "upstream_failed" ELSE "skipped"]
    /\ UNCHANGED <<run, tries, data, failures>>

Start(t) == Ready(t) /\ Runs(t)

Succeeds(t) ==
    /\ task' = [task EXCEPT ![t] = "success"]
    /\ UNCHANGED <<run, tries, failures>>

(* Mutant of Raises: one retry too many.                                   *)
RaisesOnceMore(t) ==
    /\ tries' = [tries EXCEPT ![t] = @ + 1]
    /\ task' = [task EXCEPT ![t] = IF tries[t] <= Retries(t) THEN "none" ELSE "failed"]
    /\ UNCHANGED run

(* The attempt raises: again after retry_delay, or the task has failed.    *)
Raises(t) ==
    /\ tries' = [tries EXCEPT ![t] = @ + 1]
    /\ task' = [task EXCEPT ![t] = IF tries[t] < Retries(t) THEN "none" ELSE "failed"]
    /\ UNCHANGED run

Breaks(t) == failures < MaxFailures /\ failures' = failures + 1 /\ Raises(t)
Refuses(t) == Raises(t) /\ UNCHANGED failures

Fresh == [b \in Branches |-> "none"]

DagInit ==
    /\ run = [on |-> FALSE, day |-> "today", overwrite |-> FALSE]
    /\ task = [t \in Tasks |-> "none"]
    /\ tries = [t \in Tasks |-> 0]
    /\ local = Fresh
    /\ bucket = Fresh
    /\ same = {}
    /\ pending = {}
    /\ suspect = {}
    /\ unloaded = FALSE
    /\ failures = 0

(* max_active_runs = 1.  A manual run may carry a past date.               *)
StartRun(day, overwrite) ==
    /\ ~run.on
    /\ overwrite => HasOverwrite
    /\ day = "past" => HasGuard
    /\ run' = [on |-> TRUE, day |-> day, overwrite |-> overwrite]
    /\ task' = [t \in Tasks |-> "none"]
    /\ tries' = [t \in Tasks |-> 0]
    /\ UNCHANGED <<data, failures>>

(* Mutant of Overnight: the partition path does not carry the date.        *)
OvernightUndated == UNCHANGED <<local, bucket, same, suspect, pending, unloaded>>

(* The partitions of the day are behind: whatever did not get to the end   *)
(* stays in the bucket as it is.                                           *)
Overnight ==
    /\ local' = Fresh
    /\ bucket' = Fresh
    /\ same' = {}
    /\ suspect' = suspect \cup {b \in Branches : bucket[b] \in {"mixed", "orphaned"}}
    /\ UNCHANGED <<pending, unloaded>>

Finished == \A t \in Tasks : Present(t) => task[t] \in Settled

EndRun ==
    /\ run.on /\ Finished
    /\ run' = [run EXCEPT !.on = FALSE]
    /\ IF run.day = "overtaken" THEN Overnight ELSE UNCHANGED data
    /\ UNCHANGED <<task, tries, failures>>

NewDay ==
    /\ Daily
    /\ IF run.on
       THEN /\ Midnight /\ run.day = "today"
            /\ run' = [run EXCEPT !.day = "overtaken"]
            /\ UNCHANGED data
       ELSE Overnight /\ UNCHANGED run
    /\ UNCHANGED <<task, tries, failures>>

(***************************************************************************)
(* The tasks                                                               *)
(***************************************************************************)
(* Mutant of GuardDate: a run of any date goes ahead.                      *)
GuardDateOff(b) ==
    LET t == <<"guard", b>>
    IN  Start(t) /\ Succeeds(t) /\ UNCHANGED data

(* The run must be dated today.                                            *)
GuardDate(b) ==
    LET t == <<"guard", b>>
    IN  /\ Start(t)
        /\ IF run.day = "today" THEN Succeeds(t) ELSE Refuses(t)
        /\ UNCHANGED data

ExportReference ==
    LET t == <<"export_reference", "dag">>
    IN  /\ Start(t)
        /\ Succeeds(t) \/ Breaks(t)
        /\ UNCHANGED data

(* Mutant of Verified: the prefix is there, so it has landed.              *)
VerifiedByPrefix(b) == bucket[b] # "none"
(* verify-landing exits 0: the bucket holds the local edition, no more.    *)
Verified(b) == local[b] = "whole" /\ bucket[b] = "exact" /\ b \in same

(* already_landed: False skips the task below and nothing else, the rules  *)
(* of the others decide for themselves.  A verification that could not     *)
(* reach the bucket exits like one that found a difference.                *)
SkipIfLanded(b) ==
    LET t == <<"gate", b>>
    IN  /\ Start(t)
        /\ \/ /\ task' = [task EXCEPT ![t] = "success",
                                      ![<<"extract", b>>] =
                                          IF Verified(b) /\ ~run.overwrite THEN "skipped" ELSE @]
              /\ UNCHANGED failures
           \/ /\ failures < MaxFailures /\ failures' = failures + 1
              /\ task' = [task EXCEPT ![t] = "success"]
        /\ UNCHANGED <<run, tries, data>>

(* The bucket's copy is that of an earlier edition from now on.            *)
Rewritten(b, state) ==
    /\ local' = [local EXCEPT ![b] = state]
    /\ same' = same \ {b}
    /\ UNCHANGED <<bucket, pending, suspect, unloaded>>

(* Mutant of ExtractTask: the local mark is not looked at first.           *)
ExtractTaskAgain(b) ==
    LET t == <<"extract", b>>
    IN  Start(t) /\ Succeeds(t) /\ Rewritten(b, "whole")

(* A complete partition is left alone; otherwise the Source runs, exits 1  *)
(* or 2, is killed, or writes a partition its own validator rejects.       *)
ExtractTask(b) ==
    LET t == <<"extract", b>>
    IN  /\ Start(t)
        /\ IF local[b] \in {"whole", "rejected"} /\ ~run.overwrite
           THEN Succeeds(t) /\ UNCHANGED data
           ELSE IF local[b] = "stuck" /\ ~run.overwrite
           THEN Refuses(t) /\ UNCHANGED data
           ELSE \/ Succeeds(t) /\ Rewritten(b, "whole")
                \/ /\ failures < MaxFailures /\ failures' = failures + 1
                   /\ task' = [task EXCEPT ![t] = "success"]
                   /\ UNCHANGED <<run, tries>>
                   /\ Rewritten(b, "rejected")
                \/ \E left \in {"open", "stuck"} : Breaks(t) /\ Rewritten(b, left)

Validate(b) ==
    LET t == <<"validate", b>>
    IN  /\ Start(t)
        /\ IF local[b] = "whole" THEN Succeeds(t) ELSE Refuses(t)
        /\ UNCHANGED data

(* To the end, with or without an object of an earlier edition left over,  *)
(* or broken off somewhere between the first object and the last.          *)
Land(b) ==
    LET t == <<"land", b>>
    IN  /\ Start(t)
        /\ \/ /\ Succeeds(t)
              /\ \E left \in {"exact", "orphaned"} :
                    /\ left = "orphaned" => bucket[b] # "none" /\ b \notin same
                    /\ bucket' = [bucket EXCEPT ![b] = IF b \in same THEN @ ELSE left]
              /\ same' = same \cup {b}
              /\ pending' = IF b \in same THEN pending ELSE pending \cup {b}
           \/ /\ Breaks(t)
              /\ bucket' = [bucket EXCEPT ![b] = IF b \in same THEN @ ELSE "mixed"]
              /\ UNCHANGED <<same, pending>>
        /\ UNCHANGED <<local, suspect, unloaded>>

VerifyLanding(b) ==
    LET t == <<"verify", b>>
    IN  /\ Start(t)
        /\ \/ Verified(b) /\ Succeeds(t)
           \/ ~Verified(b) /\ Refuses(t)
           \/ Breaks(t)
        /\ UNCHANGED data

(* silver-build reads every partition in the bucket, marked or not.        *)
Silver ==
    LET t == <<"silver", "dag">>
    IN  /\ Start(t)
        /\ \/ /\ Succeeds(t)
              /\ pending' = {}
              /\ unloaded' = TRUE
              /\ UNCHANGED <<local, bucket, same, suspect>>
           \/ Breaks(t) /\ UNCHANGED data

(* Fire and forget: WarehouseLoad models what it starts.                   *)
TriggerWarehouseLoad ==
    LET t == <<"trigger", "dag">>
    IN  /\ Start(t)
        /\ \/ Succeeds(t) /\ unloaded' = FALSE
           \/ Breaks(t) /\ UNCHANGED unloaded
        /\ UNCHANGED <<local, bucket, same, pending, suspect>>

(* By hand, between runs; it proves both copies intact first.              *)
PruneLocal(b) ==
    /\ Pruning
    /\ ~run.on /\ Verified(b)
    /\ local' = [local EXCEPT ![b] = "none"]
    /\ UNCHANGED <<run, task, tries, bucket, same, pending, suspect, unloaded, failures>>

Scheduler ==
    \/ \E t \in Tasks : Cascade(t)
    \/ \E b \in Branches : \/ GuardDate(b) \/ SkipIfLanded(b) \/ ExtractTask(b)
                           \/ Validate(b) \/ Land(b) \/ VerifyLanding(b)
    \/ ExportReference \/ Silver \/ TriggerWarehouseLoad \/ EndRun

DagNext ==
    \/ Scheduler
    \/ \E day \in {"today", "past"}, overwrite \in BOOLEAN : StartRun(day, overwrite)
    \/ NewDay
    \/ \E b \in Branches : PruneLocal(b)

DagSpec == DagInit /\ [][DagNext]_dagVars

(* The scheduler keeps going, every day comes, and on each of them the     *)
(* schedule starts a run.                                                  *)
DagFairSpec ==
    /\ DagSpec
    /\ WF_dagVars(Scheduler)
    /\ SF_dagVars(NewDay)
    /\ SF_dagVars(local = Fresh /\ StartRun("today", FALSE))

-----------------------------------------------------------------------------
(* Task states and attempts stay within the retries of each task; a run    *)
(* that is over has settled every task it has.                             *)
DagTypeOK ==
    /\ run.day \in {"today", "past", "overtaken"}
    /\ \A t \in Tasks : /\ task[t] \in Settled \cup {"none"}
                        /\ tries[t] <= Retries(t) + 1
                        /\ task[t] = "failed" <=> tries[t] = Retries(t) + 1
    /\ local \in [Branches -> {"none", "open", "stuck", "rejected", "whole"}]
    /\ bucket \in [Branches -> {"none", "mixed", "orphaned", "exact"}]
    /\ same \cup pending \cup suspect \subseteq Branches

(* "any failed -> silver does not run on top of suspect RAW": when silver  *)
(* builds, every partition of the day is exactly what was extracted.       *)
BuildsOnVerified ==
    (pending # {} /\ pending' = {}) =>
        \A b \in Branches : local[b] = "whole" /\ bucket[b] = "exact" /\ b \in same
SilverOnVerified == [][BuildsOnVerified]_dagVars

(* The same of every partition the build reads, earlier days included.     *)
SilverOnWholeRaw ==
    [][(pending # {} /\ pending' = {}) => suspect = {}]_dagVars

(* "all short-circuited -> nothing new": a run whose silver was skipped     *)
(* leaves nothing landed that Silver has not read.                         *)
SkippedMeansNothingNew ==
    task[<<"silver", "dag">>] = "skipped" => pending = {}

(* Without the overwrite parameter an exact copy in the bucket is never     *)
(* replaced by another extraction of the same day.                         *)
KeepsLanded ==
    \A b \in Branches :
        (bucket[b] = "exact" /\ b \notin same /\ ~run.overwrite) => b \notin same'
LandedIsKept == [][KeepsLanded]_dagVars

(* The Source is called only on the day the partition is labelled with.     *)
ExtractsToday ==
    (\E b \in Branches : local'[b] # local[b] /\ local'[b] # "none") => run.day = "today"
ExtractedOnItsDay == [][ExtractsToday]_dagVars

(* "if the gate short-circuited (nothing new), silver still runs".          *)
SilverStillRuns ==
    (run.on /\ Finished /\ \A t \in Tasks : task[t] # "failed") =>
        task[<<"silver", "dag">>] = "success"

(* A failed branch does not keep Silver behind for ever: a later day's run *)
(* reads what an earlier one landed, and passes it on to the warehouse.    *)
Built == pending = {} /\ (HasTrigger => ~unloaded)
EventuallyBuilt == []<>Built
=============================================================================
