------------------------------ MODULE MCSources ------------------------------
(***************************************************************************)
(* The four programs of Sources, and two of them run again and again with  *)
(* the same command, for what that must lead to.                           *)
(***************************************************************************)
EXTENDS Sources

CONSTANTS c1, c2, v1

\* Two languages and a catalogue that changes between runs; a run with
\* --overwrite; deaths inside a write; a file altered by hand.
MCTrouble ==
    {[overwrite |-> 1, fail |-> 1, crash |-> 1, kill |-> 0, tamper |-> 0],
     [overwrite |-> 0, fail |-> 1, crash |-> 2, kill |-> 1, tamper |-> 0],
     [overwrite |-> 0, fail |-> 0, crash |-> 1, kill |-> 1, tamper |-> 1]}

\* What the theorems suppose of the constants holds of these.
ASSUME HypothesesHold == Hypotheses /\ OneOfEach

Resumed == INSTANCE CatalogExtract
    WITH Category <- {c1, c2}, Process <- {"a"}, Lang <- {"es"}, Version <- {v1},
         MayLimit <- TRUE, MaxOverwrite <- 0, MaxFail <- 2, MaxCrash <- 2, MaxKill <- 0,
         MaxTamper <- 0

StreetsResumed == INSTANCE CallejeroIntake
    WITH Province <- {"08", "28"}, Dataset <- {"VIAS"}, Edition <- {1, 2}, Content <- {"x", "y"},
         MaxOverwrite <- 0, MaxRefresh <- 3, MaxCrash <- 1

AllInit ==
    \/ Init
    \/ /\ moves = "resumed catalog" /\ Resumed!Init
       /\ NothingGenerated /\ inbox = Absent
    \/ /\ moves = "resumed streets" /\ StreetsResumed!Init
       /\ NothingGenerated /\ litter = FALSE

ResumeCatalog(A) ==
    moves = "resumed catalog" /\ A /\ UNCHANGED << moves, generated, inbox >>
ResumeStreets(A) ==
    moves = "resumed streets" /\ A /\ UNCHANGED << moves, generated, litter >>

AllNext ==
    \/ Next
    \/ ResumeCatalog(Resumed!Next)
    \/ ResumeStreets(StreetsResumed!Next)

AllSpec ==
    /\ AllInit /\ [][AllNext]_vars
    /\ WF_vars(ResumeCatalog(Resumed!Step("a")))
    /\ SF_vars(ResumeCatalog(Resumed!Rerun("a")))
    /\ SF_vars(ResumeCatalog(Resumed!GoodTree("a")))
    /\ WF_vars(ResumeStreets(StreetsResumed!Step))
    /\ SF_vars(ResumeStreets(StreetsResumed!Start(FALSE, {"08", "28"})))

\* reusable_document: repeated, an interrupted extraction completes.
CatalogCompletes == <>[](moves = "resumed catalog" => Resumed!Completed)

\* If the operator's files agree in the end the partition completes.
StreetsComplete ==
    <>[](moves = "resumed streets" /\ StreetsResumed!Agrees)
        => <>[](moves = "resumed streets" => StreetsResumed!Completed)

\* README of the Sources: the same command, run again, completes a partition that
\* was interrupted, whatever the runs before it left.
RerunsComplete ==
    /\ CatalogCompletes
    /\ StreetsComplete
=============================================================================
