----------------------------- MODULE StockLedger -----------------------------
(***************************************************************************)
(* The stock ledger of one series (a product in a warehouse), as           *)
(* jobs/spark/stock_ledger.py folds it over the window: a day receives     *)
(* what was ordered Lead days before, serves what it can and, below the    *)
(* reorder point, issues one purchase order.                               *)
(*                                                                         *)
(* Covers are counted in half days, so that the cover a series opens with  *)
(* (drawn from a hash of its name between two whole numbers of days) can   *)
(* fall between them; quantities are whole units, as units() rounds them.  *)
(***************************************************************************)
EXTENDS Integers, FiniteSets

CONSTANTS
    NDays,          \* days of the window
    MaxDemand,      \* units one day may ask for
    Lead,           \* supplier_lead_days
    OpeningCover,   \* the covers a series may open with, in half days
    PointCover,     \* reorder_point_days, in half days
    TargetCover     \* reorder_target_days, in half days

(* What assert_stock_premises_are_internally_coherent demands of the seed. *)
ASSUME PremisesAssumption ==
    /\ NDays \in Nat \ {0} /\ MaxDemand \in Nat \ {0} /\ Lead \in Nat \ {0}
    /\ OpeningCover \subseteq Nat /\ PointCover \in Nat /\ TargetCover \in Nat
    /\ PointCover > 2 * Lead
    /\ TargetCover > PointCover
    /\ \A cover \in OpeningCover : cover > PointCover /\ cover <= TargetCover

VARIABLES
    demand,     \* the series' consumption on every day of the window
    cover,      \* the cover it opens with
    day,        \* the day the fold comes to
    balance,    \* units on the shelf
    arrivals,   \* units on their way, by the day they are due
    orderOpen,  \* the lock: an order is on its way
    ledger      \* the row of every day folded so far

ledgerVars == <<demand, cover, day, balance, arrivals, orderOpen, ledger>>

Days == 1..NDays
DueDays == 1..(NDays + Lead)

(* f[1] + ... + f[n].                                                      *)
SumTo(f, n) ==
    LET upTo[k \in 0..n] == IF k = 0 THEN 0 ELSE upTo[k - 1] + f[k]
    IN  upTo[n]

Total == SumTo(demand, NDays)

(* units(): floor(days * mean + 1/2), with days = c/2 and the mean demand  *)
(* total/NDays, over the days of the window and not those with sales.      *)
Units(c, total) == (c * total + NDays) \div (2 * NDays)

Point == Units(PointCover, Total)
Target == Units(TargetCover, Total)

(* A series is in the ledger because it sold something in the window; days *)
(* without a sale are filled in with a demand of zero.                     *)
LedgerInit ==
    /\ demand \in [Days -> 0..MaxDemand]
    /\ Total > 0
    /\ cover \in OpeningCover
    /\ day = 1
    /\ balance = Units(cover, Total)
    /\ arrivals = [d \in DueDays |-> 0]
    /\ orderOpen = FALSE
    /\ ledger = [d \in {} |-> 0]

(* Mutant of Served: what does not fit is forgotten.                       *)
ServedWhole(asked, stock) == IF asked <= stock THEN asked ELSE 0
(* Mutant of Served: the shelf may owe what it does not have.              *)
ServedOnCredit(asked, stock) == asked
Served(asked, stock) == IF asked <= stock THEN asked ELSE stock

(* Mutant of Ordered: no lock on the order under way.                      *)
OrderedUnlocked(stock, open) ==
    IF stock < Point THEN Target - stock ELSE 0
(* Mutant of Ordered: up to the target on top of what there is.            *)
OrderedTarget(stock, open) ==
    IF stock < Point /\ ~open THEN Target ELSE 0
(* Mutant of Ordered: an order waits for the shelf to be empty on the eve. *)
OrderedLate(stock, open) ==
    IF stock + 1 < Point /\ ~open THEN Target - stock ELSE 0
(* The replenishment decision: max(target - balance, 0), once.             *)
Ordered(stock, open) ==
    IF stock < Point /\ ~open
    THEN IF Target > stock THEN Target - stock ELSE 0
    ELSE 0

(* Mutant of Due: the supplier takes a day more.                           *)
DueLater(d) == IF d + Lead + 1 \in DueDays THEN d + Lead + 1 ELSE d + Lead
Due(d) == d + Lead

(* Mutant of Remaining: the arrival stays filed.                           *)
RemainingAll(d) == arrivals
Remaining(d) == [arrivals EXCEPT ![d] = 0]

(* One turn of the loop over the days of a series.                         *)
FoldDay ==
    LET received == arrivals[day]
        open == orderOpen /\ received = 0
        stock == balance + received
        served == Served(demand[day], stock)
        closing == stock - served
        ordered == Ordered(closing, open)
        row == [opening |-> balance, received |-> received,
                demanded |-> demand[day], served |-> served,
                short |-> demand[day] - served, closing |-> closing,
                ordered |-> ordered]
    IN  /\ day \in Days
        /\ day' = day + 1
        /\ balance' = closing
        /\ arrivals' = IF ordered > 0
                       THEN [Remaining(day) EXCEPT ![Due(day)] = @ + ordered]
                       ELSE Remaining(day)
        /\ orderOpen' = (open \/ ordered > 0)
        /\ ledger' = [d \in 1..day |-> IF d = day THEN row ELSE ledger[d]]
        /\ UNCHANGED <<demand, cover>>

LedgerNext == FoldDay
LedgerSpec == LedgerInit /\ [][LedgerNext]_ledgerVars

-----------------------------------------------------------------------------
Folded == 1..(day - 1)
Row == [opening : Nat, received : Nat, demanded : 0..MaxDemand, served : 0..MaxDemand,
        short : 0..MaxDemand, closing : Nat, ordered : Nat]

(* Types; the ledger has a row for each day folded and no other.           *)
LedgerTypeOK ==
    /\ demand \in [Days -> 0..MaxDemand]
    /\ cover \in OpeningCover
    /\ day \in 1..(NDays + 1)
    /\ balance \in Nat
    /\ arrivals \in [DueDays -> Nat]
    /\ orderOpen \in BOOLEAN
    /\ ledger \in [Folded -> Row]

InTransit == SumTo(arrivals, NDays + Lead)

(* Over the whole window, not row by row: what the shelf holds and what is *)
(* on its way is what it opened with, plus all that was ordered, less all  *)
(* that was sold; and no unit of demand is neither sold nor short.         *)
(* (assert_stock_ledger_conserves_the_balance sees one row at a time.)     *)
UnitsAreConserved ==
    /\ balance + InTransit + SumTo([d \in Folded |-> ledger[d].served], day - 1)
         = Units(cover, Total) + SumTo([d \in Folded |-> ledger[d].ordered], day - 1)
    /\ \A d \in Folded :
         /\ ledger[d].served + ledger[d].short = demand[d]
         /\ ledger[d].short > 0 => ledger[d].closing = 0
         /\ d > 1 => ledger[d].opening = ledger[d - 1].closing

(* The feedback loop, both ways: whatever arrives on a day was ordered     *)
(* exactly Lead days before, in that quantity, and whatever was ordered    *)
(* arrives then unless the window ends first                               *)
(* (assert_stock_replenishment_respects_the_lead_time).                    *)
ArrivalsAreTheOrders ==
    \A d \in Folded :
        IF d > Lead
        THEN ledger[d].received = ledger[d - Lead].ordered
        ELSE ledger[d].received = 0

(* The lock is the order: it is closed exactly while one order of this     *)
(* series is under way, so it can neither be left behind (the series would *)
(* never order again) nor be missing (orders would pile up).               *)
LockIsTheOrder ==
    Cardinality({d \in DueDays : arrivals[d] > 0}) = IF orderOpen THEN 1 ELSE 0

(* "The cascading arrivals would produce a stock peak no real operation    *)
(* would have": shelf and order together never exceed the target level.    *)
NoStockPeak == balance + InTransit <= Target

(* Wherever the policy has a reorder point at all, a day that was short    *)
(* leaves a purchase order under way, and one issued on a day that was not *)
(* yet short arrives within Lead days of it: no outage lasts longer than   *)
(* the supplier takes.                                                     *)
OutagesEnd ==
    Point > 0 =>
        \A d \in Folded : ledger[d].short > 0 =>
            \E o \in Folded : o <= d /\ o + Lead > d /\ ledger[o].ordered > 0

(* The fold of stock_ledger.py: units are conserved, what arrives was      *)
(* ordered, one order is open at a time, no stock piles up and no outage   *)
(* lasts.                                                                  *)
LedgerAddsUp ==
    /\ LedgerTypeOK
    /\ UnitsAreConserved
    /\ ArrivalsAreTheOrders
    /\ LockIsTheOrder
    /\ NoStockPeak
    /\ OutagesEnd

(* What the seed says of reorder_point_days, taken as it stands: below     *)
(* that many days of demand an order is under way.                         *)
BelowThePointIsOrdered ==
    \A d \in Folded :
        2 * NDays * ledger[d].closing < PointCover * Total =>
            \E o \in Folded : o <= d /\ o + Lead > d /\ ledger[o].ordered > 0
=============================================================================
