------------------------------ MODULE MCLanding ------------------------------
(* What lands one partition in RAW, and the DAGs that run it, side by      *)
(* side.  The DAG module has its own, coarser view of a partition, so a    *)
(* behaviour moves one of them: what holds of each alone holds of both.    *)
(* The catalogue's DAG has a guard on the day and triggers the warehouse;  *)
(* the orders' DAG reads a reference and may be told to overwrite.         *)
EXTENDS RawLanding

CONSTANTS f1, f2, c1, c2, l1, l2, b1, b2

VARIABLES
    moves,   \* what this behaviour is about
    run, task, tries, local, bucket, same, pending, suspect, unloaded, failures

dagVars == << run, task, tries, local, bucket, same, pending, suspect, unloaded, failures >>

\* One edition, landed twice at once.
TwoLanders == INSTANCE RawLanding
    WITH Landers <- {l1, l2}, Concurrent <- TRUE, MaxEditions <- 1, MaxDamage <- 0,
         MaxCrashes <- 0

\* Nothing is damaged, and one command dies.
Interrupted == INSTANCE RawLanding WITH MaxDamage <- 0, MaxCrashes <- 1

\* So it is with two editions of the same files, landed again until it is done.
Resumed == INSTANCE RawLanding WITH SameFiles <- TRUE, MaxDamage <- 0, MaxCrashes <- 1

CatalogDag == INSTANCE LandingDag
    WITH Branches <- {b1, b2}, HasGuard <- TRUE, HasReference <- FALSE, HasTrigger <- TRUE,
         HasOverwrite <- FALSE, Daily <- TRUE, Pruning <- FALSE, Midnight <- FALSE,
         MaxFailures <- 3

PrunedDag == INSTANCE LandingDag
    WITH Branches <- {b1, b2}, HasGuard <- TRUE, HasReference <- FALSE, HasTrigger <- TRUE,
         HasOverwrite <- FALSE, Daily <- TRUE, Pruning <- TRUE, Midnight <- FALSE,
         MaxFailures <- 1

OrdersDag == INSTANCE LandingDag
    WITH Branches <- {b1, b2}, HasGuard <- FALSE, HasReference <- TRUE, HasTrigger <- FALSE,
         HasOverwrite <- TRUE, Daily <- FALSE, Pruning <- TRUE, Midnight <- FALSE,
         MaxFailures <- 2

AllInit ==
    \/ moves = "landing" /\ Init /\ CatalogDag!DagInit
    \/ moves = "interrupted landing" /\ Interrupted!Init /\ CatalogDag!DagInit
    \/ moves = "two landers" /\ TwoLanders!Init /\ CatalogDag!DagInit
    \/ moves = "resumed landing" /\ Resumed!Init /\ CatalogDag!DagInit
    \/ moves = "catalog dag" /\ Init /\ CatalogDag!DagInit
    \/ moves = "pruned dag" /\ Init /\ PrunedDag!DagInit
    \/ moves = "orders dag" /\ Init /\ OrdersDag!DagInit

AllNext ==
    \/ moves = "landing" /\ Next /\ UNCHANGED << moves, dagVars >>
    \/ moves = "interrupted landing" /\ Interrupted!Next /\ UNCHANGED << moves, dagVars >>
    \/ moves = "two landers" /\ TwoLanders!Next /\ UNCHANGED << moves, dagVars >>
    \/ moves = "resumed landing" /\ Resumed!Next /\ UNCHANGED << moves, dagVars >>
    \/ moves = "catalog dag" /\ CatalogDag!DagNext /\ UNCHANGED << moves, vars >>
    \/ moves = "pruned dag" /\ PrunedDag!DagNext /\ UNCHANGED << moves, vars >>
    \/ moves = "orders dag" /\ OrdersDag!DagNext /\ UNCHANGED << moves, vars >>

AllSpec ==
    /\ AllInit /\ [][AllNext]_<< moves, vars, dagVars >>
    /\ SF_vars(moves = "resumed landing" /\ Resumed!LandAgain(l1))
    /\ WF_vars(moves = "resumed landing" /\ (Resumed!HeadObject(l1) \/ Resumed!PutObject(l1)))
    /\ WF_vars(/\ moves = "resumed landing"
               /\ \/ \E fetched \in BOOLEAN : Resumed!CheckObject(fetched)
                  \/ Resumed!CheckPrefix
                  \/ \E left \in SUBSET Keys : Resumed!Prune(left))
    /\ WF_dagVars(moves = "pruned dag" /\ PrunedDag!Scheduler)
    /\ SF_dagVars(moves = "pruned dag" /\ PrunedDag!NewDay)
    /\ SF_dagVars(/\ moves = "pruned dag"
                  /\ local = PrunedDag!Fresh
                  /\ PrunedDag!StartRun("today", FALSE))

\* The variables of the DAG keep their shape.
DagTypeOK ==
    CASE moves = "orders dag" -> OrdersDag!DagTypeOK
      [] moves = "pruned dag" -> PrunedDag!DagTypeOK
      [] OTHER -> CatalogDag!DagTypeOK

\* verify_landing: its verdict is true of the bucket.  (While another command
\* lands the same partition a check may see half of it.)
VerdictIsTrueAlone == [][(moves # "two landers") => JudgesRightly]_vars
\* prune-local deletes what the bucket holds, byte for byte.
PrunedIsInTheBucketAlone == [][(moves # "two landers") => RemovesWhatIsLanded]_vars

\* land: repeated, it ends with exactly the partition of the disk in the bucket.
LandingCompletes == <>[](moves = "resumed landing" => Delivered)

\* The trigger rule of silver: it builds on partitions verified in this run.
SilverOnVerified == [][CatalogDag!BuildsOnVerified]_dagVars
\* skip_if_landed: what is landed is not extracted over.
LandedIsKept == [][moves = "catalog dag" => CatalogDag!KeepsLanded]_dagVars
\* guard_date: prices are filed under the day they were taken.
ExtractedOnItsDay == [][moves = "catalog dag" => CatalogDag!ExtractsToday]_dagVars
\* The daily schedule: Silver is built again and again, whatever fails.
EventuallyBuilt == []<>(moves = "pruned dag" => PrunedDag!Built)

\* land, verify-landing, prune-local: what they report of the bucket is true, and
\* the local copy goes only when the bucket has every byte of it.
CopiesAreKept ==
    /\ LandedIsThere
    /\ VerdictIsTrueAlone
    /\ PrunedIsInTheBucketAlone

\* The gates and trigger rules: silver builds on what this run verified, what is
\* landed is not extracted over, and prices are filed under their day.
DagKeepsItsDays ==
    /\ []DagTypeOK
    /\ SilverOnVerified
    /\ LandedIsKept
    /\ ExtractedOnItsDay

\* land, repeated, ends with the partition of the disk in the bucket, and the daily
\* schedule builds Silver again and again, whatever fails on the way.
LandedAndBuilt ==
    /\ LandingCompletes
    /\ EventuallyBuilt
=============================================================================
