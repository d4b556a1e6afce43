----------------------------- MODULE SilverBuild -----------------------------
(***************************************************************************)
(* The Silver build and the two optional planes it reads: `silver_gate`    *)
(* looks at what has landed and at which Iceberg tables the catalog knows, *)
(* and runs `dbt build` without the models whose input does not exist.     *)
(* Sources go on landing and the stream goes on projecting while it runs,  *)
(* the catalog comes and goes, and a model that is left out keeps the      *)
(* parquet of an earlier build.                                            *)
(*                                                                         *)
(* A version stands for what a source had landed, or a table held, at some *)
(* moment: 0 is nothing, an even one is whole, an odd one is on its way    *)
(* from one to the next, a landing under way or one that died.  The stock  *)
(* plane closes a circle: Silver's orders become the consumption, Spark's  *)
(* ledger is folded from it, and the next Silver build publishes it.       *)
(*                                                                         *)
(* Of dbt's tests those are here that compare models of the two sources    *)
(* read from RAW at different moments, or RAW with the seal; each stands   *)
(* for all that compare the same models.  Tests of the rows of one model,  *)
(* or of models of one event table, are not.                               *)
(***************************************************************************)
EXTENDS Integers, FiniteSets, FiniteSetsExt

CONSTANTS
    Optional,       \* FALSE: the standard path, no stream plane and no Spark
    Lands,          \* the sources that ever land
    MaxVersion,     \* how far a source, or the stream, gets
    MaxSeals,       \* how often the capture is sealed
    MaxOutages,     \* how often the catalog goes away
    MaxKills        \* how many builds die half way

ASSUME BoundsAssumption ==
    /\ Optional \in BOOLEAN
    /\ Lands \subseteq {"mercadona_catalog_api", "simulated_orders"}
    /\ {MaxVersion, MaxSeals, MaxOutages, MaxKills} \subseteq Nat

VARIABLES
    raw,            \* the version each source has landed
    seal,           \* the version of the orders that was sealed
    catalog,        \* is the Iceberg catalog reachable?
    table,          \* the version each Iceberg table holds
    silver,         \* the version of every model's parquet
    build,          \* the build under way, or the verdict of the last one
    used            \* seals, outages and kills so far

vars == <<raw, seal, catalog, table, silver, build, used>>

Sources == {"mercadona_catalog_api", "simulated_orders"}
Versions == 0..MaxVersion

Whole(v) == v % 2 = 0

Reconciles == [s \in Sources |->
    IF s = "mercadona_catalog_api" THEN "assert_silver_reconciles_with_manifest"
                                   ELSE "assert_order_reconciles_with_manifest"]
Categories == "assert_every_product_category_exists_in_tree"
Sealed == "assert_raw_matches_the_frozen_capture"
Priced == "assert_order_line_matches_the_catalog_of_its_warehouse_and_date"
Live == "assert_live_projection_matches_batch_fold"
Tests == {Reconciles[s] : s \in Sources} \cup {Categories, Sealed, Priced, Live}

(* SOURCE_MODELS, of the two sources.                                      *)
SourceModels == [s \in Sources |->
    IF s = "mercadona_catalog_api"
    THEN {"silver_product_price", "silver_category", "silver_price_change", "raw_manifest"}
    ELSE {"silver_order_event", "silver_order", "silver_order_line",
          "silver_orders_manifest", Sealed}]

(* ICEBERG_TABLES: the models and the test of them that compares two.      *)
Tables == {"live_order_state", "stock_ledger"}
TableNodes == [t \in Tables |->
    IF t = "live_order_state" THEN {"silver_live_order_state", Live}
                              ELSE {"silver_stock_ledger"}]

(* frozen_capture is a seed's: no source of it has to land.                *)
Nodes == (UNION {SourceModels[s] : s \in Sources}) \cup (UNION {TableNodes[t] : t \in Tables})
            \cup {"frozen_capture"} \cup Tests
Models == Nodes \ Tests

(* What a node refers to by ref(): it runs after them.                     *)
Refs(node) ==
    CASE node = "silver_price_change" -> {"silver_product_price"}
      [] node \in {"silver_order", "silver_order_line"} -> {"silver_order_event"}
      [] node = Categories -> {"silver_product_price", "silver_category"}
      [] node = Reconciles["mercadona_catalog_api"] -> {"silver_product_price", "raw_manifest"}
      [] node = Reconciles["simulated_orders"] ->
            {"silver_order_event", "silver_order", "silver_orders_manifest"}
      [] node = Sealed -> {"frozen_capture", "silver_orders_manifest"}
      [] node = Priced -> {"silver_order_line", "silver_product_price"}
      [] node = Live -> {"silver_live_order_state", "silver_order"}
      [] OTHER -> {}

(* plan: the nodes to leave out, given what was observed.                  *)
Excluded(landed, metadata) ==
    (UNION {SourceModels[s] : s \in {s \in Sources : ~landed[s]}})
        \cup (UNION {TableNodes[t] : t \in {t \in Tables : metadata[t] = 0}})
(* dbt leaves out a test of a model that is left out.                      *)
Selected(excluded) == {n \in Nodes : /\ n \notin excluded
                                     /\ n \in Tests => Refs(n) \cap excluded = {}}

(* "began" is history: what each source had landed when the gate looked.   *)
Idle(verdict) == [step |-> "idle", landed |-> [s \in Sources |-> FALSE],
                  began |-> [s \in Sources |-> 0],
                  metadata |-> [t \in Tables |-> 0], todo |-> {}, failed |-> {},
                  verdict |-> verdict]

Init ==
    /\ raw = [s \in Sources |-> 0] /\ seal = 0
    /\ catalog = Optional
    /\ table = [t \in Tables \cup {"stock_consumption"} |-> 0]
    /\ silver = [m \in Models |-> 0]
    /\ build = Idle("none")
    /\ used = [seals |-> 0, outages |-> 0, kills |-> 0]

(***************************************************************************)
(* Around the build.                                                       *)
(***************************************************************************)
(* A source begins to land another day, or has it whole (RawLanding).      *)
Land(s) ==
    /\ s \in Lands
    /\ raw[s] < MaxVersion
    /\ raw' = [raw EXCEPT ![s] = @ + 1]
    /\ UNCHANGED <<seal, catalog, table, silver, build, used>>

(* `freeze` collects the manifests that have landed into the seed.         *)
Freeze ==
    /\ seal # raw["simulated_orders"]
    /\ used.seals < MaxSeals
    /\ seal' = raw["simulated_orders"]
    /\ used' = [used EXCEPT !.seals = @ + 1]
    /\ UNCHANGED <<raw, catalog, table, silver, build>>

(* The stream plane projects the events of the next day; they come from    *)
(* the OLTP and not from RAW (OrdersProjection).                           *)
Project ==
    /\ catalog
    /\ table["live_order_state"] < MaxVersion
    /\ table' = [table EXCEPT !["live_order_state"] = @ + 1]
    /\ UNCHANGED <<raw, seal, catalog, silver, build, used>>

StreamUp ==
    /\ Optional /\ ~catalog
    /\ catalog' = TRUE
    /\ UNCHANGED <<raw, seal, table, silver, build, used>>

StreamDown ==
    /\ catalog
    /\ used.outages < MaxOutages
    /\ catalog' = FALSE
    /\ used' = [used EXCEPT !.outages = @ + 1]
    /\ UNCHANGED <<raw, seal, table, silver, build>>

(* Mutant of Consumed: dated by the lines alone.                           *)
ConsumedLines == silver["silver_order_line"]
(* CONSUMPTION_SQL joins the lines with their orders: what one of the two  *)
(* does not have yet is not consumed.                                      *)
Consumed == Min({silver["silver_order_line"], silver["silver_order"]})

(* `stock-consumption` reads Silver and overwrites the whole table; it     *)
(* fails where Silver has no orders.                                       *)
ExportConsumption ==
    /\ Optional /\ catalog
    /\ Consumed > 0
    /\ table["stock_consumption"] # Consumed
    /\ table' = [table EXCEPT !["stock_consumption"] = Consumed]
    /\ UNCHANGED <<raw, seal, catalog, silver, build, used>>

(* `stock-ledger` (StockLedger): createOrReplace from the consumption.     *)
FoldLedger ==
    /\ Optional /\ catalog
    /\ table["stock_consumption"] > 0
    /\ table["stock_ledger"] # table["stock_consumption"]
    /\ table' = [table EXCEPT !["stock_ledger"] = table["stock_consumption"]]
    /\ UNCHANGED <<raw, seal, catalog, silver, build, used>>

(***************************************************************************)
(* silver-build                                                            *)
(***************************************************************************)
(* Mutant of HasLanded: told by the Silver parquet of an earlier build.    *)
HasLandedSilver(s) == \E m \in SourceModels[s] \cap Models : silver[m] > 0
HasLanded(s) == raw[s] > 0

(* resolve, first half: one object under the prefix of every source.       *)
Observe ==
    /\ build.step = "idle"
    /\ build' = [Idle("none") EXCEPT !.step = "tables", !.began = raw,
                                     !.landed = [s \in Sources |-> HasLanded(s)]]
    /\ UNCHANGED <<raw, seal, catalog, table, silver, used>>

(* resolve, second half: the metadata path the catalog gives for each      *)
(* table, or none.  The path names a snapshot: what the table holds later  *)
(* is not behind it.                                                       *)
ObserveTables ==
    LET metadata == [t \in Tables |-> IF catalog THEN table[t] ELSE 0]
    IN  /\ build.step = "tables"
        /\ build' = [build EXCEPT !.step = "dbt", !.metadata = metadata,
                        !.todo = Selected(Excluded(build.landed, metadata))]
        /\ UNCHANGED <<raw, seal, catalog, table, silver, used>>

Input(m) ==
    CASE m = "silver_live_order_state" -> build.metadata["live_order_state"]
      [] m = "silver_stock_ledger" -> build.metadata["stock_ledger"]
      [] m = "frozen_capture" -> seal
      [] m \in {"silver_product_price", "silver_category", "raw_manifest"} ->
            raw["mercadona_catalog_api"]
      [] m \in {"silver_order_event", "silver_orders_manifest"} -> raw["simulated_orders"]
      [] OTHER -> Min({silver[r] : r \in Refs(m)})

(* read_json fails where no file matches: during the very first landing    *)
(* what a model reads may be there or not.  The orders' first file is the  *)
(* one of their events; the catalog is many, the manifest the last.        *)
MayBeMissing(m) ==
    /\ m \in {"silver_product_price", "silver_category", "raw_manifest", "silver_orders_manifest"}
    /\ Input(m) = 1

Startable(node) ==
    /\ build.step = "dbt"
    /\ node \in build.todo
    /\ Refs(node) \cap build.todo = {}

(* A model whose input does not exist fails and takes what refers to it    *)
(* with it; the others go on.  An empty seal is a table of no rows.        *)
BuildModel(m) ==
    LET fails == \/ Input(m) = 0 /\ m # "frozen_capture"
                 \/ Refs(m) \cap build.failed # {}
    IN  /\ Startable(m)
        /\ \/ /\ ~fails
              /\ silver' = [silver EXCEPT ![m] = Input(m)]
              /\ build' = [build EXCEPT !.todo = @ \ {m}]
           \/ /\ fails \/ MayBeMissing(m)
              /\ build' = [build EXCEPT !.todo = @ \ {m}, !.failed = @ \cup {m}]
              /\ UNCHANGED silver
        /\ UNCHANGED <<raw, seal, catalog, table, used>>

(* The test has nothing to object to: its models are of one whole landing; *)
(* the seal, where there is one, is of what the manifests say.  What       *)
(* becomes of others is open, and whether the catalog of a day has the     *)
(* prices of its orders is not told by when they landed.                   *)
Agree(t) ==
    CASE t = Priced -> FALSE
      [] t = Sealed -> \/ silver["frozen_capture"] = 0
                       \/ /\ silver["frozen_capture"] = silver["silver_orders_manifest"]
                          /\ Whole(silver["frozen_capture"])
      [] OTHER -> \E v \in Versions : Whole(v) /\ \A m \in Refs(t) : silver[m] = v

(* A test one of whose models failed is skipped, and not green either.     *)
RunTest(t) ==
    LET skipped == Refs(t) \cap build.failed # {}
    IN  /\ Startable(t)
        /\ \/ /\ ~skipped
              /\ build' = [build EXCEPT !.todo = @ \ {t}]
           \/ /\ skipped \/ ~Agree(t)
              /\ build' = [build EXCEPT !.todo = @ \ {t}, !.failed = @ \cup {t}]
        /\ UNCHANGED <<raw, seal, catalog, table, silver, used>>

EndBuild ==
    /\ build.step = "dbt" /\ build.todo = {}
    /\ build' = [Idle(IF build.failed = {} THEN "green" ELSE "red")
                    EXCEPT !.failed = build.failed, !.began = build.began]
    /\ UNCHANGED <<raw, seal, catalog, table, silver, used>>

KillBuild ==
    /\ build.step # "idle"
    /\ used.kills < MaxKills
    /\ build' = Idle("killed")
    /\ used' = [used EXCEPT !.kills = @ + 1]
    /\ UNCHANGED <<raw, seal, catalog, table, silver>>

Step == \/ Observe
        \/ ObserveTables
        \/ \E m \in Models : BuildModel(m)
        \/ \E t \in Tests : RunTest(t)
        \/ EndBuild

Next == \/ Step
        \/ \E s \in Sources : Land(s)
        \/ Freeze
        \/ Project
        \/ StreamUp
        \/ StreamDown
        \/ ExportConsumption
        \/ FoldLedger
        \/ KillBuild

Spec == Init /\ [][Next]_vars

(* Builds are repeated (every source's DAG ends in one) and one that runs  *)
(* gets through its nodes; the operator runs the stock plane again and     *)
(* again once it is there.  Nothing obliges a source to land.              *)
FairSpec == Spec /\ WF_vars(Step) /\ SF_vars(ExportConsumption) /\ SF_vars(FoldLedger)
                 /\ WF_vars(StreamUp)

-----------------------------------------------------------------------------
TypeOK ==
    /\ raw \in [Sources -> Versions]
    /\ seal \in Versions
    /\ catalog \in BOOLEAN
    /\ table \in [Tables \cup {"stock_consumption"} -> Versions]
    /\ silver \in [Models -> Versions]
    /\ build.step \in {"idle", "tables", "dbt"}
    /\ build.verdict \in {"none", "green", "red", "killed"}
    /\ build.began \in [Sources -> Versions]
    /\ build.todo \subseteq Nodes /\ build.failed \subseteq Nodes
    /\ used \in [seals : 0..MaxSeals, outages : 0..MaxOutages, kills : 0..MaxKills]

(* The gate's purpose: whatever lands, and whichever table appears or goes *)
(* out of reach between its look and the last model, no model of the build *)
(* meets an input that does not exist.  The gate asks for one object, so   *)
(* the very first landing of a source, seen half way, is the exception.    *)
NothingAbsentIsBuilt ==
    \A m \in build.failed \cap Models :
        \E s \in Sources : m \in SourceModels[s] /\ build.began[s] = 1

(* The landing a build reads from is not whole, or not the one it saw.     *)
Moved(s) == raw[s] # build.began[s] \/ ~Whole(raw[s])

(* "Excluding is for what doesn't exist yet, never for what is broken": a  *)
(* test that compares models of one source is red only if that source was  *)
(* landing when the gate looked or has landed since, the test of the seal  *)
(* also if the seal is of another landing, and the test of the projection  *)
(* also if that is of another day than the orders.                         *)
FailuresHaveACause ==
    \A n \in build.failed \ {Priced} :
        \/ \E s \in Sources : ({n} \cup Refs(n)) \cap SourceModels[s] # {} /\ Moved(s)
        \/ /\ n = Sealed
           /\ silver["frozen_capture"] \notin {0, silver["silver_orders_manifest"]}
        \/ n = Live /\ silver["silver_live_order_state"] # silver["silver_order"]

(* The header and the lines of an order are two models of one event table: *)
(* a build that came to its end leaves all three of one landing, however   *)
(* much landed while it ran, and however an earlier one died.              *)
OrdersAreOneLog ==
    build.verdict \in {"green", "red"} =>
        \/ silver["silver_order_event"] = 0
        \/ \A m \in {"silver_order", "silver_order_line"} :
                silver[m] = silver["silver_order_event"]

(* Round the circle orders, consumption, ledger, Silver: the published     *)
(* ledger never accounts for orders that Silver's own do not hold.         *)
LedgerIsBehindItsOrders ==
    silver["silver_stock_ledger"] <= silver["silver_order"]

(* silver_gate: no model of a build meets an absent input, whatever lands  *)
(* or goes away meanwhile, what fails has its cause outside the build, the *)
(* models of the orders are of one landing, and the ledger is not of later *)
(* ones.                                                                   *)
BuildsAreCoherent ==
    /\ TypeOK
    /\ NothingAbsentIsBuilt
    /\ FailuresHaveACause
    /\ OrdersAreOneLog
    /\ LedgerIsBehindItsOrders

(* "Whatever depends on an optional plane leaves the Silver build on its   *)
(* own" (README): once the orders are in Silver, and nothing lands, no node *)
(* of an optional plane makes a build red.                                 *)
OptionalPlaneNeverFailsTheBuild ==
    silver["silver_order"] > 0 /\ (\A s \in Sources : ~Moved(s)) =>
        build.failed \cap UNION {TableNodes[t] : t \in Tables} = {}

(* Whatever a source lands gets into every model of it: each has what the  *)
(* source landed last.  (Of a first landing that is half way some may have *)
(* nothing yet.)                                                           *)
Settled == \A s \in Sources : raw[s] # 1 =>
                \A m \in SourceModels[s] \cap Models : silver[m] = raw[s]
(* What the orders land gets once round the circle into the ledger.        *)
Published == silver["silver_stock_ledger"] = raw["simulated_orders"]

(* A build is red only where something is half landed, the seal is of      *)
(* another landing, or the catalog has not the prices of the orders.       *)
RedHasACause ==
    build.verdict = "red" => \/ \E s \in Sources : ~Whole(raw[s])
                             \/ seal \notin {0, raw["simulated_orders"]}
                             \/ build.failed = {Priced}
=============================================================================
