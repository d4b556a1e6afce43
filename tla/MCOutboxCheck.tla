---------------------------- MODULE MCOutboxCheck ----------------------------
(***************************************************************************)
(* What an order's log amounts to in each of its folds, what its appliers  *)
(* make of it in the database, and the check of the result, side by side.  *)
(* They share no state, so a behaviour moves one of them: what holds of    *)
(* each alone holds of all.                                                *)
(*   outbox     two appliers of one day's log and one of the next, checked *)
(*   two seeds  two logs of the same orders, applied one over the other    *)
(*   folds      every lifecycle of a three-line order.  One substitute     *)
(*              costs more than the line it replaces, one less and one     *)
(*              nothing; one line is free, so a zero amount is not a       *)
(*              missing one                                                *)
(***************************************************************************)
EXTENDS OutboxCheck, FoldAgreement

CONSTANTS o1, o2, o3, a1, a2, a3

VARIABLES
    moves,  \* what this behaviour is about
    seedOrders, seedOutbox, seedNext, seedStage, seedWork, seedCrashes

seedVars == << seedOrders, seedOutbox, seedNext, seedStage, seedWork, seedCrashes >>

-----------------------------------------------------------------------------
(* Two orders of one day and one of the next.  The first one is delivered  *)
(* the day after it was placed.                                            *)
Short == INSTANCE OrderLog WITH Line <- {1}, Price <- << 3 >>, SubstitutePrice <- << 4 >>

MCLog(o, outcome) ==
    Short!Lifecycle(o, [outcome |-> outcome, lines |-> << "fulfilled" >>, returned |-> 1])

Delivered == MCLog(o1, "delivered")
Cancelled == MCLog(o2, "cancelled")
Failed == MCLog(o3, "payment_failed")

MCFirstDay == SubSeq(Delivered, 1, 2) \o Cancelled \o SubSeq(Delivered, 3, Len(Delivered))

MCFiles == a1 :> MCFirstDay @@ a2 :> MCFirstDay @@ a3 :> Failed
MCLogDay == a1 :> 0 @@ a2 :> 0 @@ a3 :> 1
MCDay == [o \in {o1, o2, o3} |-> IF o = o3 THEN 1 ELSE 0]

\* A moment is a tenth of a day.
MCOccurredAt ==
    [o \in {o1, o2, o3} |->
        CASE o = o1 -> << 0, 1, 4, 5, 6, 12, 13 >>
          [] o = o2 -> << 1, 2, 3, 4, 5, 6, 7 >>
          [] o = o3 -> << 10, 11, 12, 13, 14, 15, 16 >>]
MCDayOf(moment) == moment \div 10
MCBefore(o, p) == <<o, p>> \in {<<o1, o2>>, <<o1, o3>>, <<o2, o3>>}

\* What the theorems on the outbox suppose of the files holds of these.
ASSUME HypothesesHold == SameLog /\ LogIsAccepted /\ OneLogOfADay

-----------------------------------------------------------------------------
(* Orders of two lines, their events interleaved in the file by the time   *)
(* they happen; then the source was run again with another seed: the same  *)
(* order ids, other fates.                                                 *)
Pair == INSTANCE OrderLog
    WITH Line <- {1, 2}, Price <- << 3, 5 >>, SubstitutePrice <- << 4, 2 >>

MCPairLog(o, outcome, first, second) ==
    Pair!Lifecycle(o, [outcome |-> outcome, lines |-> << first, second >>, returned |-> 1])

GivenBack == MCPairLog(o1, "returned", "substituted", "removed")
Withdrawn == MCPairLog(o2, "cancelled", "fulfilled", "fulfilled")

MCFile ==
    SubSeq(GivenBack, 1, 3) \o SubSeq(Withdrawn, 1, 2) \o SubSeq(GivenBack, 4, 6)
    \o SubSeq(Withdrawn, 3, 3) \o SubSeq(GivenBack, 7, Len(GivenBack))

MCRegenerated ==
    MCPairLog(o1, "cancelled", "fulfilled", "fulfilled")
    \o MCPairLog(o2, "delivered", "removed", "fulfilled")

MCTwoSeeds == a1 :> MCFile @@ a2 :> MCRegenerated

TwoSeeds == INSTANCE OrdersOltp
    WITH Order <- {o1, o2}, Applier <- {a1, a2}, File <- MCTwoSeeds, MaxCrash <- 2,
         orders <- seedOrders, outbox <- seedOutbox, next <- seedNext,
         stage <- seedStage, work <- seedWork, crashes <- seedCrashes

MCPrice == << 3, 5, 0 >>
MCSubstitutePrice == << 4, 2, 0 >>
AnyLog == Lifecycle(o1, CHOOSE fate \in Fates : fate.outcome = "payment_failed")

-----------------------------------------------------------------------------
AllInit ==
    /\ Init /\ TwoSeeds!Init
    /\ \/ moves = "folds" /\ FoldsInit
       \/ /\ moves \in {"outbox", "two seeds"}
          /\ foldLog = AnyLog /\ foldRead = 0 /\ foldRow = Null /\ foldOrder = Null

AllNext ==
    \/ moves = "outbox" /\ Next /\ UNCHANGED << moves, seedVars, foldVars >>
    \/ moves = "two seeds" /\ TwoSeeds!Next /\ UNCHANGED << moves, vars, foldVars >>
    \/ moves = "folds" /\ FoldsNext /\ UNCHANGED << moves, vars, seedVars >>

AllSpec ==
    /\ AllInit /\ [][AllNext]_<< moves, vars, seedVars, foldVars >>
    /\ \A a \in Applier : WF_vars(moves = "outbox" /\ Apply(a))

-----------------------------------------------------------------------------
\* apply_partition: every applier reaches the end of its log; and where two logs of
\* the same orders are applied one over the other, nothing is passed over and an
\* order is the fold of its own outbox rows.
EveryLogIsApplied ==
    /\ <>[](moves = "outbox" => Completed)
    /\ []TwoSeeds!NothingIsLost
=============================================================================
