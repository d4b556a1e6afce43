------------------------------- MODULE MCSilver -------------------------------
(* The Silver build in four settings and the stock ledger of one series,  *)
(* side by side.  They share no state, so a behaviour moves one of them:   *)
(* what holds of each alone holds of all.                                  *)
(*   catalog   the catalog lands again and again                          *)
(*   orders    so do the orders, which are sealed and sealed again         *)
(*   standard  both begin to land                                          *)
(*   circle    the orders land with the stock plane in use                 *)
(* The first three have no stream plane and no Spark.                      *)
EXTENDS StockLedger, SilverBuild

VARIABLE moves  \* what this behaviour is about

OfCatalog == {"mercadona_catalog_api"}
OfOrders == {"simulated_orders"}

OnlyCatalog == INSTANCE SilverBuild
    WITH Optional <- FALSE, Lands <- OfCatalog, MaxVersion <- 4,
         MaxSeals <- 0, MaxOutages <- 0, MaxKills <- 1
OnlyOrders == INSTANCE SilverBuild
    WITH Optional <- FALSE, Lands <- OfOrders, MaxVersion <- 4,
         MaxSeals <- 2, MaxOutages <- 0, MaxKills <- 0
Standard == INSTANCE SilverBuild
    WITH Optional <- FALSE, Lands <- Sources, MaxVersion <- 1,
         MaxSeals <- 0, MaxOutages <- 0, MaxKills <- 0
Circle == INSTANCE SilverBuild
    WITH Optional <- TRUE, Lands <- OfOrders, MaxVersion <- 2,
         MaxSeals <- 0, MaxOutages <- 1, MaxKills <- 1

AtRest == LedgerInit /\ demand = [d \in Days |-> 1] /\ \A c \in OpeningCover : cover >= c

AllInit ==
    \/ moves = "ledger" /\ LedgerInit /\ Circle!Init
    \/ moves = "circle" /\ AtRest /\ Circle!Init
    \/ moves \in {"catalog", "orders", "standard"} /\ AtRest /\ Standard!Init

Builds ==
    \/ moves = "catalog" /\ OnlyCatalog!Next
    \/ moves = "orders" /\ OnlyOrders!Next
    \/ moves = "standard" /\ Standard!Next
    \/ moves = "circle" /\ Circle!Next

AllNext ==
    \/ moves = "ledger" /\ LedgerNext /\ UNCHANGED << moves, vars >>
    \/ Builds /\ UNCHANGED << moves, ledgerVars >>

AllVars == << moves, vars, ledgerVars >>

(* SilverBuild's fairness, where something is said to happen in the end.   *)
AllSpec ==
    /\ AllInit /\ [][AllNext]_AllVars
    /\ WF_vars(moves = "catalog" /\ OnlyCatalog!Step)
    /\ WF_vars(moves = "orders" /\ OnlyOrders!Step)
    /\ WF_vars(moves = "circle" /\ Circle!Step)
    /\ WF_vars(moves = "circle" /\ Circle!StreamUp)
    /\ SF_vars(moves = "circle" /\ Circle!ExportConsumption)
    /\ SF_vars(moves = "circle" /\ Circle!FoldLedger)

-----------------------------------------------------------------------------
\* What a source lands gets into every model of it and, with the stock plane in
\* use, once round the circle into the published ledger; where no optional plane
\* was ever started a build is in the end red only over what is half landed, sealed
\* earlier or without its prices.
LandedArrives ==
    /\ <>[](moves \in {"catalog", "orders", "circle"} => Settled)
    /\ <>[](moves = "circle" => Published)
    /\ <>[](moves \in {"catalog", "orders"} => RedHasACause)
=============================================================================
