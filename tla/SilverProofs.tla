------------------------------ MODULE SilverProofs ------------------------------
(***************************************************************************)
(* What the Silver gate promises, for any number of landings, outages of   *)
(* the catalog and builds that die, with the optional planes or without;   *)
(* and that the fold of the stock ledger, which the gate publishes, adds   *)
(* up for every window, demand, lead time and policy that the seed's       *)
(* coherence test admits.                                                  *)
(*                                                                         *)
(* The gate looks once and the build takes its time; the argument is that  *)
(* nothing it saw is taken back: what landed stays, a metadata path names  *)
(* a snapshot, and a model waits for those it refers to.                   *)
(*                                                                         *)
(* What holds the ledger's fold together is not in the rows but between    *)
(* them: an arrival still to come is the order of the row Lead days before *)
(* its day, so an order never meets another one on the day it is due, the  *)
(* lock is the one order under way, and shelf and order together stay      *)
(* within the target level.                                                *)
(***************************************************************************)
EXTENDS StockLedger, SilverBuild, FiniteSetTheorems, NaturalsInduction, TLAPS

(***************************************************************************)
(* THE SILVER BUILD                                                        *)
(***************************************************************************)
Prices == "mercadona_catalog_api"
Orders == "simulated_orders"

(***************************************************************************)
(* The project's nodes.                                                    *)
(***************************************************************************)
LEMMA TestsAre ==
    /\ Sources = {Prices, Orders} /\ Prices # Orders
    /\ Reconciles[Prices] = "assert_silver_reconciles_with_manifest"
    /\ Reconciles[Orders] = "assert_order_reconciles_with_manifest"
    /\ Categories = "assert_every_product_category_exists_in_tree"
    /\ Sealed = "assert_raw_matches_the_frozen_capture"
    /\ Priced = "assert_order_line_matches_the_catalog_of_its_warehouse_and_date"
    /\ Live = "assert_live_projection_matches_batch_fold"
    /\ Tests = {Reconciles[Prices], Reconciles[Orders], Categories, Sealed, Priced, Live}
  <1>1. /\ Sources = {Prices, Orders} /\ Prices # Orders
        /\ Reconciles[Prices] = "assert_silver_reconciles_with_manifest"
        /\ Reconciles[Orders] = "assert_order_reconciles_with_manifest"
    BY DEF Sources, Reconciles, Prices, Orders
  <1>2. {Reconciles[s] : s \in Sources} = {Reconciles[Prices], Reconciles[Orders]}
    BY <1>1
  <1> QED
    BY <1>1, <1>2 DEF Tests, Categories, Sealed, Priced, Live

LEMMA ModelsOfSources ==
    /\ Sources = {Prices, Orders} /\ Prices # Orders
    /\ SourceModels[Prices] = {"silver_product_price", "silver_category",
                               "silver_price_change", "raw_manifest"}
    /\ SourceModels[Orders] = {"silver_order_event", "silver_order", "silver_order_line",
                               "silver_orders_manifest", Sealed}
  BY DEF Sources, SourceModels, Prices, Orders

LEMMA NodesOfTables ==
    /\ Tables = {"live_order_state", "stock_ledger"}
    /\ TableNodes["live_order_state"] = {"silver_live_order_state", Live}
    /\ TableNodes["stock_ledger"] = {"silver_stock_ledger"}
  BY DEF Tables, TableNodes

LEMMA AllNodes ==
    /\ Models = {"silver_product_price", "silver_category", "silver_price_change",
                 "raw_manifest", "silver_order_event", "silver_order", "silver_order_line",
                 "silver_orders_manifest", "silver_live_order_state", "silver_stock_ledger",
                 "frozen_capture"}
    /\ Nodes = Models \cup Tests
    /\ Models \cap Tests = {}
    /\ SourceModels[Prices] \cap Models = SourceModels[Prices]
    /\ SourceModels[Orders] \cap Models = {"silver_order_event", "silver_order",
                                           "silver_order_line", "silver_orders_manifest"}
  <1> DEFINE M == {"silver_product_price", "silver_category", "silver_price_change",
                   "raw_manifest", "silver_order_event", "silver_order", "silver_order_line",
                   "silver_orders_manifest", "silver_live_order_state", "silver_stock_ledger",
                   "frozen_capture"}
  <1>1. UNION {SourceModels[s] : s \in Sources} = SourceModels[Prices] \cup SourceModels[Orders]
    <2>1. {SourceModels[s] : s \in Sources} = {SourceModels[Prices], SourceModels[Orders]}
      BY ModelsOfSources
    <2> QED
      BY <2>1
  <1>2. UNION {TableNodes[t] : t \in Tables}
          = TableNodes["live_order_state"] \cup TableNodes["stock_ledger"]
    <2>1. {TableNodes[t] : t \in Tables}
            = {TableNodes["live_order_state"], TableNodes["stock_ledger"]}
      BY NodesOfTables
    <2> QED
      BY <2>1
  <1>3. M \cap Tests = {}
    BY TestsAre
  <1>4. Sealed \in Tests /\ Live \in Tests
    BY TestsAre
  <1>5. SourceModels[Prices] \cup SourceModels[Orders] \cup TableNodes["live_order_state"]
          \cup TableNodes["stock_ledger"] \cup {"frozen_capture"} = M \cup {Sealed, Live}
    BY ModelsOfSources, NodesOfTables
  <1> HIDE DEF M
  <1>6. Nodes = M \cup Tests
    BY <1>1, <1>2, <1>4, <1>5 DEF Nodes
  <1>7. Models = M
    BY <1>3, <1>6 DEF Models
  <1>8. Sealed \notin M
    BY <1>3, <1>4
  <1> QED
    BY <1>3, <1>6, <1>7, <1>8, ModelsOfSources DEF M

\* No node is of two sources, or of a source and a table.
LEMMA NodesAreApart ==
    /\ SourceModels[Prices] \cap SourceModels[Orders] = {}
    /\ \A s \in Sources : SourceModels[s] \subseteq Nodes
    /\ \A s \in Sources : \A t \in Tables : SourceModels[s] \cap TableNodes[t] = {}
    /\ \A s \in Sources : "frozen_capture" \notin SourceModels[s]
    /\ \A s \in Sources : "silver_live_order_state" \notin SourceModels[s]
    /\ \A s \in Sources : "silver_stock_ledger" \notin SourceModels[s]
  BY ModelsOfSources, NodesOfTables, AllNodes, TestsAre

LEMMA MinOfOne ==
    ASSUME NEW n \in Nat
    PROVE  Min({n}) = n
  BY DEF Min

LEMMA MinOfTwo ==
    ASSUME NEW m \in Nat, NEW n \in Nat
    PROVE  Min({m, n}) \in {m, n} /\ Min({m, n}) <= m /\ Min({m, n}) <= n
  <1>1. \E x \in {m, n} : \A y \in {m, n} : x <= y
    <2>1. CASE m <= n
      BY <2>1
    <2>2. CASE n <= m
      BY <2>2
    <2> QED
      BY <2>1, <2>2
  <1>2. Min({m, n}) \in {m, n} /\ \A y \in {m, n} : Min({m, n}) <= y
    BY <1>1 DEF Min
  <1> QED
    BY <1>2

(***************************************************************************)
(* The invariant.                                                          *)
(***************************************************************************)
OrderModels == {"silver_order_event", "silver_order", "silver_order_line"}

Builds == [step : {"idle", "tables", "dbt"}, landed : [Sources -> BOOLEAN],
           began : [Sources -> Versions], metadata : [Tables -> Versions],
           todo : SUBSET Nodes, failed : SUBSET Nodes,
           verdict : {"none", "green", "red", "killed"}]

Uses == [seals : 0..MaxSeals, outages : 0..MaxOutages, kills : 0..MaxKills]

Typed ==
    /\ raw \in [Sources -> Versions]
    /\ seal \in Versions
    /\ catalog \in BOOLEAN
    /\ table \in [Tables \cup {"stock_consumption"} -> Versions]
    /\ silver \in [Models -> Versions]
    /\ build \in Builds
    /\ used \in Uses

\* No source goes back behind what the gate saw of it.
Onward == \A s \in Sources : build.began[s] <= raw[s]

\* What the gate saw of a source is still so.
Seen ==
    build.step # "idle" =>
        /\ build.verdict = "none"
        /\ build.step = "tables" => build.failed = {}
        /\ \A s \in Sources :
             IF build.landed[s] THEN build.began[s] > 0
             ELSE \A m \in SourceModels[s] \cap Models : silver[m] = 0

\* What a build still has to do has its input, what it did has its parquet or
\* failed, and a test waited for what it refers to.
Queued ==
    build.step = "dbt" =>
        /\ \A s \in Sources : \A n \in Nodes :
             n \in build.todo /\ ({n} \cup Refs(n)) \cap SourceModels[s] # {} => build.landed[s]
        /\ \A s \in Sources : \A m \in SourceModels[s] \cap Models :
             build.landed[s] => m \in build.todo \/ m \in build.failed \/ silver[m] > 0
        /\ \A t \in Tables : \A n \in TableNodes[t] : n \in build.todo => build.metadata[t] > 0
        /\ \A n \in build.failed : Refs(n) \cap build.todo = {}

\* A source that stays as the gate saw it, whole, is what its models are built of.
Fresh ==
    build.step = "dbt" =>
        \A s \in Sources : build.landed[s] /\ ~Moved(s) =>
            \A m \in SourceModels[s] \cap Models : m \in build.todo \/ silver[m] = raw[s]

\* The header and the lines follow the events of this build, which have a file.
InStep ==
    build.step = "dbt" =>
        /\ OrderModels \cap build.failed = {}
        /\ build.landed[Orders] =>
             \A m \in {"silver_order", "silver_order_line"} :
                \/ m \in build.todo
                \/ "silver_order_event" \notin build.todo /\ silver[m] = silver["silver_order_event"]

\* No model is ahead of what it was built from ...
Behind ==
    /\ \A m \in {"silver_product_price", "silver_category", "raw_manifest"} :
            silver[m] <= raw[Prices]
    /\ silver["silver_price_change"] <= silver["silver_product_price"]
    /\ \A m \in {"silver_order_event", "silver_orders_manifest"} : silver[m] <= raw[Orders]
    /\ silver["silver_order"] <= silver["silver_order_event"]
    /\ silver["silver_order_line"] <= silver["silver_order_event"]

\* ... all the way round the circle.
Round ==
    /\ table["stock_consumption"] <= silver["silver_order"]
    /\ table["stock_ledger"] <= silver["silver_order"]
    /\ build.metadata["stock_ledger"] <= silver["silver_order"]
    /\ silver["silver_stock_ledger"] <= silver["silver_order"]

Inv ==
    /\ Typed
    /\ Onward
    /\ Seen
    /\ Queued
    /\ Fresh
    /\ InStep
    /\ Behind
    /\ Round
    /\ NothingAbsentIsBuilt
    /\ FailuresHaveACause
    /\ OrdersAreOneLog

(***************************************************************************)
(* What a node is built from.                                              *)
(***************************************************************************)
LEMMA RefsAre ==
    /\ \A m \in Models \ {"silver_price_change", "silver_order", "silver_order_line"} :
            Refs(m) = {}
    /\ Refs("silver_price_change") = {"silver_product_price"}
    /\ Refs("silver_order") = {"silver_order_event"}
    /\ Refs("silver_order_line") = {"silver_order_event"}
    /\ Refs(Categories) = {"silver_product_price", "silver_category"}
    /\ Refs(Reconciles[Prices]) = {"silver_product_price", "raw_manifest"}
    /\ Refs(Reconciles[Orders]) = {"silver_order_event", "silver_order", "silver_orders_manifest"}
    /\ Refs(Sealed) = {"frozen_capture", "silver_orders_manifest"}
    /\ Refs(Priced) = {"silver_order_line", "silver_product_price"}
    /\ Refs(Live) = {"silver_live_order_state", "silver_order"}
  <1>1. Reconciles["mercadona_catalog_api"] = Reconciles[Prices]
        /\ Reconciles["simulated_orders"] = Reconciles[Orders]
    BY DEF Prices, Orders
  <1> QED
    BY <1>1, TestsAre, AllNodes DEF Refs

LEMMA RefsAreModels ==
    ASSUME NEW n \in Nodes
    PROVE  Refs(n) \subseteq Models
  <1>1. CASE n \in Models
    BY <1>1, RefsAre, AllNodes
  <1>2. CASE n \in Tests
    BY <1>2, RefsAre, AllNodes, TestsAre
  <1> QED
    BY <1>1, <1>2, AllNodes

\* A model refers to models of its own source.
LEMMA RefsOfModels ==
    ASSUME NEW s \in Sources, NEW m \in SourceModels[s] \cap Models
    PROVE  /\ Refs(m) \subseteq SourceModels[s] \cap Models
           /\ Refs(m) # {} => m \in {"silver_price_change", "silver_order", "silver_order_line"}
  <1>1. CASE s = Prices
    BY <1>1, RefsAre, AllNodes, ModelsOfSources
  <1>2. CASE s = Orders
    BY <1>2, RefsAre, AllNodes, ModelsOfSources
  <1> QED
    BY <1>1, <1>2, ModelsOfSources

LEMMA SilverIsNumber ==
    ASSUME Typed
    PROVE  /\ \A v \in Versions : v \in Nat
           /\ \A m \in Models : silver[m] \in Nat /\ silver[m] \in Versions
           /\ raw[Prices] \in Versions /\ raw[Orders] \in Versions
           /\ raw[Prices] \in Nat /\ raw[Orders] \in Nat
           /\ \A s \in Sources : /\ raw[s] \in Nat /\ raw[s] \in Versions
                                 /\ build.began[s] \in Nat
           /\ \A t \in Tables : build.metadata[t] \in Versions /\ build.metadata[t] \in Nat
           /\ \A t \in Tables \cup {"stock_consumption"} : table[t] \in Versions /\ table[t] \in Nat
  <1>1. \A v \in Versions : v \in Nat
    BY BoundsAssumption DEF Versions
  <1>2. build.metadata \in [Tables -> Versions] /\ build.began \in [Sources -> Versions]
    BY DEF Typed, Builds
  <1>3. Prices \in Sources /\ Orders \in Sources
    BY ModelsOfSources
  <1> QED
    BY <1>1, <1>2, <1>3 DEF Typed

LEMMA InputsAre ==
    ASSUME Typed
    PROVE  /\ \A m \in {"silver_product_price", "silver_category", "raw_manifest"} :
                    Input(m) = raw[Prices]
           /\ \A m \in {"silver_order_event", "silver_orders_manifest"} : Input(m) = raw[Orders]
           /\ Input("silver_live_order_state") = build.metadata["live_order_state"]
           /\ Input("silver_stock_ledger") = build.metadata["stock_ledger"]
           /\ Input("frozen_capture") = seal
           /\ Input("silver_price_change") = silver["silver_product_price"]
           /\ Input("silver_order") = silver["silver_order_event"]
           /\ Input("silver_order_line") = silver["silver_order_event"]
  <1>1. /\ silver["silver_product_price"] \in Nat
        /\ silver["silver_order_event"] \in Nat
    BY SilverIsNumber, AllNodes
  <1>2. /\ \A m \in {"silver_product_price", "silver_category", "raw_manifest"} :
                Input(m) = raw[Prices]
        /\ \A m \in {"silver_order_event", "silver_orders_manifest"} : Input(m) = raw[Orders]
        /\ Input("silver_live_order_state") = build.metadata["live_order_state"]
        /\ Input("silver_stock_ledger") = build.metadata["stock_ledger"]
        /\ Input("frozen_capture") = seal
    BY DEF Input, Prices, Orders
  <1>3. Input("silver_price_change") = silver["silver_product_price"]
    <2>1. {silver[r] : r \in Refs("silver_price_change")} = {silver["silver_product_price"]}
      BY RefsAre
    <2>2. Input("silver_price_change") = Min({silver[r] : r \in Refs("silver_price_change")})
      BY DEF Input
    <2> QED
      BY <1>1, <2>1, <2>2, MinOfOne
  <1>4. Input("silver_order") = silver["silver_order_event"]
    <2>1. {silver[r] : r \in Refs("silver_order")} = {silver["silver_order_event"]}
      BY RefsAre
    <2>2. Input("silver_order") = Min({silver[r] : r \in Refs("silver_order")})
      BY DEF Input
    <2> QED
      BY <1>1, <2>1, <2>2, MinOfOne
  <1>5. Input("silver_order_line") = silver["silver_order_event"]
    <2>1. {silver[r] : r \in Refs("silver_order_line")} = {silver["silver_order_event"]}
      BY RefsAre
    <2>2. Input("silver_order_line") = Min({silver[r] : r \in Refs("silver_order_line")})
      BY DEF Input
    <2> QED
      BY <1>1, <2>1, <2>2, MinOfOne
  <1> QED
    BY <1>2, <1>3, <1>4, <1>5

\* A source of which the gate saw its first landing half way has moved since, or
\* is still half way.
LEMMA FirstLandingMoves ==
    ASSUME NEW s \in Sources, build.began[s] = 1
    PROVE  Moved(s)
  <1>1. ~Whole(1)
    BY DEF Whole
  <1> QED
    BY <1>1 DEF Moved

\* So a model that failed is of a source that moved.
LEMMA FailedIsMoved ==
    ASSUME Inv, NEW m \in Models, m \in build.failed
    PROVE  \E s \in Sources : m \in SourceModels[s] /\ build.began[s] = 1 /\ Moved(s)
  BY FirstLandingMoves DEF Inv, NothingAbsentIsBuilt

\* A model that may start has its input, or its source was seen half way.
LEMMA StartableHasInput ==
    ASSUME Inv, NEW m \in Models, Startable(m)
    PROVE  /\ Input(m) \in Versions
           /\ Input(m) > 0 \/ m = "frozen_capture" \/ Refs(m) \cap build.failed # {}
  <1>1. build.step = "dbt" /\ m \in build.todo /\ Refs(m) \cap build.todo = {}
    BY DEF Startable
  <1>2. Typed /\ m \in Nodes
    BY AllNodes DEF Inv
  <1>3. ASSUME NEW s \in Sources, m \in SourceModels[s]
        PROVE  build.landed[s] /\ build.began[s] > 0 /\ raw[s] > 0
    <2>1. build.landed[s]
      BY <1>1, <1>2, <1>3 DEF Inv, Queued
    <2> QED
      BY <1>1, <1>2, <2>1, SilverIsNumber DEF Inv, Seen, Onward
  <1>4. ASSUME NEW s \in Sources, m \in SourceModels[s], NEW r \in Refs(m)
        PROVE  r \in build.failed \/ silver[r] > 0
    <2>1. r \in SourceModels[s] \cap Models
      BY <1>4, RefsOfModels
    <2> QED
      BY <1>1, <1>3, <1>4, <2>1 DEF Inv, Queued
  <1>5. \A t \in Tables : m \in TableNodes[t] => build.metadata[t] > 0
    BY <1>1 DEF Inv, Queued
  <1>6. CASE m \in {"silver_product_price", "silver_category", "raw_manifest"}
    BY <1>2, <1>3, <1>6, InputsAre, SilverIsNumber, ModelsOfSources
  <1>7. CASE m \in {"silver_order_event", "silver_orders_manifest"}
    BY <1>2, <1>3, <1>7, InputsAre, SilverIsNumber, ModelsOfSources
  <1>8. CASE m = "silver_price_change"
    <2>1. "silver_product_price" \in build.failed \/ silver["silver_product_price"] > 0
      BY <1>4, <1>8, RefsAre, ModelsOfSources
    <2> QED
      BY <1>2, <1>8, <2>1, InputsAre, SilverIsNumber, AllNodes, RefsAre
  <1>9. CASE m \in {"silver_order", "silver_order_line"}
    <2>1. "silver_order_event" \in build.failed \/ silver["silver_order_event"] > 0
      BY <1>4, <1>9, RefsAre, ModelsOfSources
    <2> QED
      BY <1>2, <1>9, <2>1, InputsAre, SilverIsNumber, AllNodes, RefsAre
  <1>10. CASE m = "silver_live_order_state"
    BY <1>2, <1>5, <1>10, InputsAre, SilverIsNumber, NodesOfTables
  <1>11. CASE m = "silver_stock_ledger"
    BY <1>2, <1>5, <1>11, InputsAre, SilverIsNumber, NodesOfTables
  <1>12. CASE m = "frozen_capture"
    BY <1>2, <1>12, InputsAre DEF Typed
  <1> QED
    BY <1>6, <1>7, <1>8, <1>9, <1>10, <1>11, <1>12, AllNodes

\* A model fails only where its source was seen half way, and no orders' model does.
LEMMA FailsHalfWay ==
    ASSUME Inv, NEW m \in Models, Startable(m),
           \/ Input(m) = 0 /\ m # "frozen_capture"
           \/ Refs(m) \cap build.failed # {}
           \/ MayBeMissing(m)
    PROVE  /\ m \notin OrderModels
           /\ \E s \in Sources : m \in SourceModels[s] /\ build.began[s] = 1
  <1>1. build.step = "dbt" /\ m \in build.todo
    BY DEF Startable
  <1>2. Typed /\ m \in Nodes
    BY AllNodes DEF Inv
  <1>3. CASE Refs(m) \cap build.failed # {}
    <2>1. m \in {"silver_price_change", "silver_order", "silver_order_line"}
      BY <1>3, RefsAre
    <2>2. OrderModels \cap build.failed = {}
      BY <1>1 DEF Inv, InStep
    <2>3. m = "silver_price_change" /\ "silver_product_price" \in build.failed
      BY <1>3, <2>1, <2>2, RefsAre DEF OrderModels
    <2>4. PICK s \in Sources : "silver_product_price" \in SourceModels[s] /\ build.began[s] = 1
      BY <2>3, AllNodes DEF Inv, NothingAbsentIsBuilt
    <2>5. s = Prices
      BY <2>4, ModelsOfSources, TestsAre
    <2> QED
      BY <2>3, <2>4, <2>5, ModelsOfSources DEF OrderModels
  <1>4. CASE Refs(m) \cap build.failed = {}
    <2>1. MayBeMissing(m)
      BY <1>2, <1>4, StartableHasInput, SilverIsNumber
    <2>2. /\ m \in {"silver_product_price", "silver_category", "raw_manifest",
                    "silver_orders_manifest"}
          /\ Input(m) = 1
      BY <2>1 DEF MayBeMissing
    <2>3. PICK s \in Sources : m \in SourceModels[s] /\ raw[s] = 1
      BY <1>2, <2>2, InputsAre, ModelsOfSources
    <2>4. build.landed[s]
      BY <1>1, <1>2, <2>3 DEF Inv, Queued
    <2>5. build.began[s] > 0 /\ build.began[s] <= 1 /\ build.began[s] \in Nat
      BY <1>1, <1>2, <2>3, <2>4, SilverIsNumber DEF Inv, Seen, Onward
    <2> QED
      BY <2>2, <2>3, <2>5 DEF OrderModels
  <1> QED
    BY <1>3, <1>4

(***************************************************************************)
(* Every step keeps it.                                                    *)
(***************************************************************************)
LEMMA InitHolds ==
    ASSUME Init
    PROVE  Inv
  <1>1. 0 \in Versions /\ [seals |-> 0, outages |-> 0, kills |-> 0] \in Uses
    BY BoundsAssumption DEF Versions, Uses
  <1>2. /\ build.step = "idle" /\ build.verdict = "none" /\ build.failed = {}
        /\ build.metadata = [t \in Tables |-> 0] /\ build.began = [s \in Sources |-> 0]
        /\ build \in Builds
    BY <1>1 DEF Init, Idle, Builds
  <1>3. Typed
    BY <1>1, <1>2, BoundsAssumption DEF Init, Typed
  <1>4. /\ \A m \in Models : silver[m] = 0
        /\ raw[Prices] = 0 /\ raw[Orders] = 0
        /\ \A s \in Sources : raw[s] = 0
        /\ \A t \in Tables \cup {"stock_consumption"} : table[t] = 0
    BY ModelsOfSources DEF Init
  <1>5. Behind
    BY <1>4, AllNodes DEF Behind
  <1>6. Round
    BY <1>2, <1>4, AllNodes, NodesOfTables DEF Round
  <1>7. Onward
    BY <1>2, <1>4 DEF Onward
  <1> QED
    BY <1>2, <1>3, <1>5, <1>6, <1>7
    DEF Inv, Seen, Queued, Fresh, InStep, NothingAbsentIsBuilt, FailuresHaveACause,
        OrdersAreOneLog

\* A landing counts as a move of its source, and takes none back.
LEMMA LandMoves ==
    ASSUME Inv, NEW s \in Sources, Land(s)
    PROVE  /\ \A x \in Sources : Moved(x) => Moved(x)'
           /\ \A x \in Sources : ~Moved(x)' => raw'[x] = raw[x]
           /\ \A x \in Sources : raw[x] \in Nat /\ raw'[x] \in Nat /\ raw[x] <= raw'[x]
           /\ raw' \in [Sources -> Versions]
  <1>1. /\ raw' = [raw EXCEPT ![s] = raw[s] + 1] /\ raw[s] < MaxVersion
        /\ build' = build
    BY DEF Land
  <1>2. raw \in [Sources -> Versions] /\ \A x \in Versions : x \in Nat
    BY BoundsAssumption DEF Inv, Typed, Versions
  <1>3. raw' \in [Sources -> Versions]
    BY <1>1, <1>2, BoundsAssumption DEF Versions
  <1>4. \A x \in Sources : raw[x] \in Nat /\ raw'[x] \in Nat /\ raw[x] <= raw'[x]
    BY <1>1, <1>2
  <1>5. raw'[s] # build.began[s]
    <2>1. build.began[s] \in Nat /\ build.began[s] <= raw[s]
      BY SilverIsNumber DEF Inv, Onward
    <2> QED
      BY <1>1, <1>2, <1>4, <2>1
  <1>6. \A x \in Sources : x # s => raw'[x] = raw[x]
    BY <1>1, <1>2
  <1> QED
    BY <1>1, <1>3, <1>4, <1>5, <1>6 DEF Moved

LEMMA LandKeeps ==
    ASSUME Inv, NEW s \in Sources, Land(s)
    PROVE  Inv'
  <1>1. UNCHANGED <<seal, catalog, table, silver, build, used>>
    BY DEF Land
  <1>2. /\ \A x \in Sources : Moved(x) => Moved(x)'
        /\ \A x \in Sources : ~Moved(x)' => raw'[x] = raw[x]
        /\ \A x \in Sources : raw[x] \in Nat /\ raw'[x] \in Nat /\ raw[x] <= raw'[x]
        /\ raw' \in [Sources -> Versions]
    BY LandMoves
  <1>3. Typed /\ Typed'
    BY <1>1, <1>2 DEF Inv, Typed
  <1>4. Onward'
    BY <1>1, <1>2, <1>3, SilverIsNumber DEF Inv, Onward
  <1>5. Seen' /\ Queued' /\ InStep'
    BY <1>1 DEF Inv, Seen, Queued, InStep
  <1>6. Fresh'
    BY <1>1, <1>2 DEF Inv, Fresh
  <1>7. Behind'
    <2>1. /\ raw[Prices] <= raw'[Prices] /\ raw[Orders] <= raw'[Orders]
          /\ raw'[Prices] \in Nat /\ raw'[Orders] \in Nat
      BY <1>2, ModelsOfSources
    <2> QED
      BY <1>1, <1>3, <2>1, SilverIsNumber, AllNodes DEF Inv, Behind
  <1>8. Round'
    BY <1>1 DEF Inv, Round
  <1>9. NothingAbsentIsBuilt' /\ OrdersAreOneLog'
    BY <1>1 DEF Inv, NothingAbsentIsBuilt, OrdersAreOneLog
  <1>10. FailuresHaveACause'
    BY <1>1, <1>2 DEF Inv, FailuresHaveACause
  <1> QED
    BY <1>3, <1>4, <1>5, <1>6, <1>7, <1>8, <1>9, <1>10 DEF Inv

\* The steps beside the build that move neither RAW nor Silver.
LEMMA BesideKeeps ==
    ASSUME Inv, UNCHANGED <<raw, silver, build>>,
           seal' \in Versions, catalog' \in BOOLEAN, used' \in Uses,
           table' \in [Tables \cup {"stock_consumption"} -> Versions],
           table'["stock_consumption"] <= silver["silver_order"],
           table'["stock_ledger"] <= silver["silver_order"]
    PROVE  Inv'
  <1>1. Typed'
    BY DEF Inv, Typed
  <1>2. \A s \in Sources : Moved(s)' <=> Moved(s)
    BY DEF Moved
  <1>3. Onward' /\ Seen' /\ Queued' /\ InStep' /\ Behind'
    BY DEF Inv, Onward, Seen, Queued, InStep, Behind
  <1>4. Fresh' /\ FailuresHaveACause'
    BY <1>2 DEF Inv, Fresh, FailuresHaveACause
  <1>5. Round'
    BY DEF Inv, Round
  <1>6. NothingAbsentIsBuilt' /\ OrdersAreOneLog'
    BY DEF Inv, NothingAbsentIsBuilt, OrdersAreOneLog
  <1> QED
    BY <1>1, <1>3, <1>4, <1>5, <1>6 DEF Inv

LEMMA FreezeKeeps ==
    ASSUME Inv, Freeze
    PROVE  Inv'
  <1>1. /\ used.seals < MaxSeals /\ seal' = raw[Orders]
        /\ used' = [used EXCEPT !.seals = used.seals + 1]
        /\ UNCHANGED <<raw, catalog, table, silver, build>>
    BY DEF Freeze, Orders
  <1>2. Typed
    BY DEF Inv
  <1>3. used' \in Uses
    <2>1. used \in Uses
      BY <1>2 DEF Typed
    <2>2. used.seals + 1 \in 0..MaxSeals
      BY <1>1, <2>1, BoundsAssumption DEF Uses
    <2> QED
      BY <1>1, <2>1, <2>2 DEF Uses
  <1>4. seal' \in Versions
    BY <1>1, <1>2, SilverIsNumber
  <1> QED
    BY <1>1, <1>2, <1>3, <1>4, BesideKeeps DEF Inv, Typed, Round

LEMMA ProjectKeeps ==
    ASSUME Inv, Project
    PROVE  Inv'
  <1>1. /\ table["live_order_state"] < MaxVersion
        /\ table' = [table EXCEPT !["live_order_state"] = table["live_order_state"] + 1]
        /\ UNCHANGED <<raw, seal, catalog, silver, build, used>>
    BY DEF Project
  <1>2. table \in [Tables \cup {"stock_consumption"} -> Versions]
    BY DEF Inv, Typed
  <1>3. table["live_order_state"] + 1 \in Versions
    BY <1>1, <1>2, NodesOfTables, BoundsAssumption DEF Versions
  <1>4. table' \in [Tables \cup {"stock_consumption"} -> Versions]
    BY <1>1, <1>2, <1>3
  <1>5. /\ table'["stock_consumption"] = table["stock_consumption"]
        /\ table'["stock_ledger"] = table["stock_ledger"]
    BY <1>1, <1>2, NodesOfTables
  <1>6. /\ table'["stock_consumption"] <= silver["silver_order"]
        /\ table'["stock_ledger"] <= silver["silver_order"]
    BY <1>5 DEF Inv, Round
  <1> QED
    BY <1>1, <1>4, <1>6, BesideKeeps DEF Inv, Typed

LEMMA ConsumptionKeeps ==
    ASSUME Inv, ExportConsumption
    PROVE  Inv'
  <1>1. /\ table' = [table EXCEPT !["stock_consumption"] = Consumed]
        /\ UNCHANGED <<raw, seal, catalog, silver, build, used>>
    BY DEF ExportConsumption
  <1>2. table \in [Tables \cup {"stock_consumption"} -> Versions] /\ Typed
    BY DEF Inv, Typed
  <1>3. Consumed \in Versions /\ Consumed <= silver["silver_order"]
    <2>1. /\ silver["silver_order"] \in Nat /\ silver["silver_order"] \in Versions
          /\ silver["silver_order_line"] \in Nat /\ silver["silver_order_line"] \in Versions
      BY <1>2, SilverIsNumber, AllNodes
    <2> QED
      BY <2>1, MinOfTwo DEF Consumed
  <1>4. table' \in [Tables \cup {"stock_consumption"} -> Versions]
    BY <1>1, <1>2, <1>3
  <1>5. table'["stock_consumption"] = Consumed /\ table'["stock_ledger"] = table["stock_ledger"]
    BY <1>1, <1>2, NodesOfTables
  <1>6. table["stock_ledger"] <= silver["silver_order"]
    BY DEF Inv, Round
  <1> QED
    BY <1>1, <1>3, <1>4, <1>5, <1>6, BesideKeeps DEF Inv, Typed

LEMMA LedgerKeeps ==
    ASSUME Inv, FoldLedger
    PROVE  Inv'
  <1>1. /\ table' = [table EXCEPT !["stock_ledger"] = table["stock_consumption"]]
        /\ UNCHANGED <<raw, seal, catalog, silver, build, used>>
    BY DEF FoldLedger
  <1>2. table \in [Tables \cup {"stock_consumption"} -> Versions]
    BY DEF Inv, Typed
  <1>3. table' \in [Tables \cup {"stock_consumption"} -> Versions]
    BY <1>1, <1>2
  <1>4. /\ table'["stock_consumption"] = table["stock_consumption"]
        /\ table'["stock_ledger"] = table["stock_consumption"]
    BY <1>1, <1>2, NodesOfTables
  <1>5. table["stock_consumption"] <= silver["silver_order"]
    BY DEF Inv, Round
  <1> QED
    BY <1>1, <1>3, <1>4, <1>5, BesideKeeps DEF Inv, Typed

\* The catalog coming up, or going away.
LEMMA CatalogKeeps ==
    ASSUME Inv, StreamUp \/ StreamDown
    PROVE  Inv'
  <1>1. catalog' \in BOOLEAN /\ UNCHANGED <<raw, seal, table, silver, build>>
    BY DEF StreamUp, StreamDown
  <1>2. used' \in Uses
    <2>1. used \in Uses
      BY DEF Inv, Typed
    <2>2. CASE StreamUp
      BY <2>1, <2>2 DEF StreamUp
    <2>3. CASE StreamDown
      <3>1. used.outages < MaxOutages /\ used' = [used EXCEPT !.outages = used.outages + 1]
        BY <2>3 DEF StreamDown
      <3>2. used.outages + 1 \in 0..MaxOutages
        BY <2>1, <3>1, BoundsAssumption DEF Uses
      <3> QED
        BY <2>1, <3>1, <3>2 DEF Uses
    <2> QED
      BY <2>2, <2>3
  <1> QED
    BY <1>1, <1>2, BesideKeeps DEF Inv, Typed, Round

LEMMA ObserveKeeps ==
    ASSUME Inv, Observe
    PROVE  Inv'
  <1>1. /\ build.step = "idle"
        /\ build' = [step |-> "tables", landed |-> [s \in Sources |-> raw[s] > 0],
                     began |-> raw, metadata |-> [t \in Tables |-> 0],
                     todo |-> {}, failed |-> {}, verdict |-> "none"]
        /\ UNCHANGED <<raw, seal, catalog, table, silver, used>>
    BY DEF Observe, Idle, HasLanded
  <1>2. Typed /\ 0 \in Versions
    BY BoundsAssumption DEF Inv, Versions
  <1>3. Typed'
    <2>1. build' \in Builds
      BY <1>1, <1>2 DEF Builds, Typed
    <2> QED
      BY <1>1, <1>2, <2>1 DEF Typed
  <1>4. Onward'
    BY <1>1, <1>2, SilverIsNumber DEF Onward
  <1>5. Seen'
    <2> SUFFICES ASSUME NEW s \in Sources, ~(raw[s] > 0), NEW m \in SourceModels[s] \cap Models
                 PROVE  silver[m] = 0
      BY <1>1 DEF Seen
    <2>1. CASE s = Prices
      <3>1. m \in {"silver_product_price", "silver_category", "silver_price_change",
                   "raw_manifest"}
        BY <2>1, ModelsOfSources
      <3> QED
        BY <1>2, <2>1, <3>1, SilverIsNumber, AllNodes DEF Inv, Behind
    <2>2. CASE s = Orders
      <3>1. m \in {"silver_order_event", "silver_order", "silver_order_line",
                   "silver_orders_manifest"}
        BY <2>2, AllNodes
      <3> QED
        BY <1>2, <2>2, <3>1, SilverIsNumber, AllNodes DEF Inv, Behind
    <2> QED
      BY <2>1, <2>2, ModelsOfSources
  <1>6. Queued' /\ Fresh' /\ InStep' /\ Behind'
    BY <1>1 DEF Inv, Queued, Fresh, InStep, Behind
  <1>7. Round'
    <2>1. 0 <= silver["silver_order"]
      BY <1>2, SilverIsNumber, AllNodes
    <2>2. build'.metadata["stock_ledger"] = 0
      BY <1>1, NodesOfTables
    <2> QED
      BY <1>1, <2>1, <2>2 DEF Inv, Round
  <1>8. NothingAbsentIsBuilt' /\ FailuresHaveACause' /\ OrdersAreOneLog'
    BY <1>1 DEF NothingAbsentIsBuilt, FailuresHaveACause, OrdersAreOneLog
  <1> QED
    BY <1>3, <1>4, <1>5, <1>6, <1>7, <1>8 DEF Inv

\* What dbt is given: with a source that landed its models, and of one that did not
\* no model and no test.
LEMMA SelectionIs ==
    ASSUME NEW landed \in [Sources -> BOOLEAN], NEW metadata \in [Tables -> Nat],
           NEW todo, todo = Selected(Excluded(landed, metadata))
    PROVE  /\ todo \in SUBSET Nodes
           /\ \A s \in Sources : \A n \in Nodes :
                 n \in todo /\ ({n} \cup Refs(n)) \cap SourceModels[s] # {} => landed[s]
           /\ \A s \in Sources : \A m \in SourceModels[s] \cap Models : landed[s] => m \in todo
           /\ \A t \in Tables : \A n \in TableNodes[t] : n \in todo => metadata[t] > 0
  <1> DEFINE excluded == Excluded(landed, metadata)
  <1>1. /\ \A s \in Sources : ~landed[s] => SourceModels[s] \subseteq excluded
        /\ \A t \in Tables : metadata[t] = 0 => TableNodes[t] \subseteq excluded
        /\ \A n \in excluded : \/ \E s \in Sources : ~landed[s] /\ n \in SourceModels[s]
                               \/ \E t \in Tables : n \in TableNodes[t]
    BY DEF Excluded
  <1>2. todo = {n \in Nodes : n \notin excluded /\ (n \in Tests => Refs(n) \cap excluded = {})}
    BY DEF Selected
  <1> HIDE DEF excluded
  <1>3. ASSUME NEW s \in Sources, NEW n \in Nodes, n \in todo, ~landed[s]
        PROVE  ({n} \cup Refs(n)) \cap SourceModels[s] = {}
    <2>1. n \notin SourceModels[s]
      BY <1>1, <1>2, <1>3
    <2>2. CASE n \in Tests
      BY <1>1, <1>2, <1>3, <2>1, <2>2
    <2>3. CASE n \in Models /\ \E x \in Sources : n \in SourceModels[x]
      <3>1. PICK x \in Sources : n \in SourceModels[x]
        BY <2>3
      <3>2. Refs(n) \subseteq SourceModels[x]
        BY <2>3, <3>1, RefsOfModels
      <3>3. x # s /\ SourceModels[x] \cap SourceModels[s] = {}
        BY <2>1, <3>1, NodesAreApart, ModelsOfSources
      <3> QED
        BY <2>1, <3>2, <3>3
    <2>4. CASE n \in Models /\ ~\E x \in Sources : n \in SourceModels[x]
      <3>1. Refs(n) = {}
        BY <2>4, RefsAre, ModelsOfSources
      <3> QED
        BY <2>1, <3>1
    <2> QED
      BY <2>2, <2>3, <2>4, AllNodes
  <1>4. ASSUME NEW s \in Sources, NEW m \in SourceModels[s] \cap Models, landed[s]
        PROVE  m \in todo
    <2>1. m \in Nodes /\ m \notin Tests
      BY AllNodes
    <2>2. \A x \in Sources : x # s => m \notin SourceModels[x]
      BY NodesAreApart, ModelsOfSources
    <2>3. \A t \in Tables : m \notin TableNodes[t]
      BY NodesAreApart
    <2> QED
      BY <1>1, <1>2, <1>4, <2>1, <2>2, <2>3
  <1>5. ASSUME NEW t \in Tables, NEW n \in TableNodes[t], n \in todo
        PROVE  metadata[t] > 0
    BY <1>1, <1>2, <1>5
  <1> QED
    BY <1>2, <1>3, <1>4, <1>5

LEMMA ObserveTablesKeeps ==
    ASSUME Inv, ObserveTables
    PROVE  Inv'
  <1>1. PICK metadata, todo :
          /\ metadata = [t \in Tables |-> IF catalog THEN table[t] ELSE 0]
          /\ todo = Selected(Excluded(build.landed, metadata))
          /\ build.step = "tables"
          /\ build' = [build EXCEPT !.step = "dbt", !.metadata = metadata, !.todo = todo]
          /\ UNCHANGED <<raw, seal, catalog, table, silver, used>>
    BY DEF ObserveTables
  <1>2. /\ Typed /\ build \in Builds /\ build.landed \in [Sources -> BOOLEAN]
        /\ \A t \in Tables \cup {"stock_consumption"} : table[t] \in Versions
        /\ 0 \in Versions
    BY SilverIsNumber, BoundsAssumption DEF Inv, Typed, Versions, Builds
  <1>3. /\ metadata \in [Tables -> Versions]
        /\ \A t \in Tables : metadata[t] = (IF catalog THEN table[t] ELSE 0)
    BY <1>1, <1>2
  <1>4. metadata \in [Tables -> Nat]
    BY <1>2, <1>3, SilverIsNumber
  <1>5. /\ todo \in SUBSET Nodes
        /\ \A s \in Sources : \A n \in Nodes :
              n \in todo /\ ({n} \cup Refs(n)) \cap SourceModels[s] # {} => build.landed[s]
        /\ \A s \in Sources : \A m \in SourceModels[s] \cap Models : build.landed[s] => m \in todo
        /\ \A t \in Tables : \A n \in TableNodes[t] : n \in todo => metadata[t] > 0
    BY <1>1, <1>2, <1>4, SelectionIs
  <1>6. /\ build'.step = "dbt" /\ build'.metadata = metadata /\ build'.todo = todo
        /\ build'.landed = build.landed /\ build'.began = build.began
        /\ build'.failed = build.failed /\ build'.verdict = build.verdict
        /\ build' \in Builds
    BY <1>1, <1>2, <1>3, <1>5 DEF Builds
  <1>7. build.failed = {} /\ build.verdict = "none"
    BY <1>1 DEF Inv, Seen
  <1>8. Typed'
    BY <1>1, <1>2, <1>6 DEF Typed
  <1>9. Onward' /\ Seen'
    BY <1>1, <1>6, <1>7 DEF Inv, Onward, Seen
  <1>10. Queued'
    BY <1>5, <1>6, <1>7 DEF Queued
  <1>11. Fresh'
    BY <1>5, <1>6 DEF Fresh
  <1>12. InStep'
    <2>1. build.landed[Orders] =>
             \A m \in {"silver_order", "silver_order_line"} : m \in todo
      BY <1>5, ModelsOfSources, AllNodes
    <2> QED
      BY <1>6, <1>7, <2>1 DEF InStep
  <1>13. Behind'
    BY <1>1 DEF Inv, Behind
  <1>14. Round'
    <2>1. metadata["stock_ledger"] <= silver["silver_order"]
      BY <1>2, <1>3, SilverIsNumber, AllNodes, NodesOfTables DEF Inv, Round
    <2> QED
      BY <1>1, <1>6, <2>1 DEF Inv, Round
  <1>15. NothingAbsentIsBuilt' /\ FailuresHaveACause' /\ OrdersAreOneLog'
    BY <1>6, <1>7 DEF NothingAbsentIsBuilt, FailuresHaveACause, OrdersAreOneLog
  <1> QED
    BY <1>8, <1>9, <1>10, <1>11, <1>12, <1>13, <1>14, <1>15 DEF Inv

\* A model that gets its parquet.
LEMMA BuiltKeeps ==
    ASSUME Inv, NEW m \in Models, Startable(m),
           ~(Input(m) = 0 /\ m # "frozen_capture"), Refs(m) \cap build.failed = {},
           silver' = [silver EXCEPT ![m] = Input(m)],
           build' = [build EXCEPT !.todo = build.todo \ {m}],
           UNCHANGED <<raw, seal, catalog, table, used>>
    PROVE  Inv'
  <1>1. /\ build.step = "dbt" /\ m \in build.todo /\ Refs(m) \cap build.todo = {}
        /\ Input(m) \in Versions
        /\ Input(m) > 0 \/ m = "frozen_capture"
    BY StartableHasInput DEF Startable
  <1>2. Typed /\ build \in Builds /\ silver \in [Models -> Versions] /\ m \in Nodes
    BY AllNodes DEF Inv, Typed
  <1>3. /\ build'.step = "dbt" /\ build'.metadata = build.metadata
        /\ build'.todo = build.todo \ {m}
        /\ build'.landed = build.landed /\ build'.began = build.began
        /\ build'.failed = build.failed /\ build'.verdict = build.verdict
        /\ build' \in Builds
    BY <1>1, <1>2 DEF Builds
  <1>4. /\ silver' \in [Models -> Versions]
        /\ silver'[m] = Input(m)
        /\ \A n \in Models : n # m => silver'[n] = silver[n]
    BY <1>1, <1>2
  <1>5. \A n \in Models : silver[n] \in Nat
    BY <1>2, SilverIsNumber
  <1>6. \A s \in Sources : m \in SourceModels[s] => build.landed[s]
    BY <1>1, <1>2 DEF Inv, Queued
  <1>7. \A s \in Sources : Moved(s)' <=> Moved(s)
    BY <1>3 DEF Moved
  <1>8. Typed' /\ Onward'
    BY <1>2, <1>3, <1>4 DEF Inv, Typed, Onward
  <1>9. Seen'
    <2>1. \A s \in Sources : \A n \in SourceModels[s] \cap Models :
             ~build.landed[s] /\ silver[n] = 0 => silver'[n] = 0
      BY <1>4, <1>6
    <2> QED
      BY <1>1, <1>3, <2>1 DEF Inv, Seen
  <1>10. Queued'
    <2>1. \A s \in Sources : \A n \in Nodes :
             n \in build'.todo /\ ({n} \cup Refs(n)) \cap SourceModels[s] # {}
                => build'.landed[s]
      BY <1>1, <1>3 DEF Inv, Queued
    <2>2. ASSUME NEW s \in Sources, NEW n \in SourceModels[s] \cap Models, build.landed[s]
          PROVE  n \in build'.todo \/ n \in build'.failed \/ silver'[n] > 0
      <3>1. n \in build.todo \/ n \in build.failed \/ silver[n] > 0
        BY <1>1, <2>2 DEF Inv, Queued
      <3>2. n # "frozen_capture"
        BY <2>2, NodesAreApart
      <3> QED
        BY <1>1, <1>3, <1>4, <3>1, <3>2
    <2>3. \A t \in Tables : \A n \in TableNodes[t] : n \in build'.todo => build'.metadata[t] > 0
      BY <1>1, <1>3 DEF Inv, Queued
    <2>4. \A n \in build'.failed : Refs(n) \cap build'.todo = {}
      BY <1>1, <1>3 DEF Inv, Queued
    <2> QED
      BY <1>3, <2>1, <2>2, <2>3, <2>4 DEF Queued
  <1>11. Fresh'
    <2> SUFFICES ASSUME NEW s \in Sources, build.landed[s], ~Moved(s),
                        NEW n \in SourceModels[s] \cap Models
                 PROVE  n \in build'.todo \/ silver'[n] = raw[s]
      BY <1>3, <1>7 DEF Fresh
    <2>1. \A x \in SourceModels[s] \cap Models : x \in build.todo \/ silver[x] = raw[s]
      BY <1>1 DEF Inv, Fresh
    <2>2. CASE n # m
      BY <1>3, <1>4, <2>1, <2>2
    <2>3. CASE n = m /\ s = Prices /\ m # "silver_price_change"
      BY <1>2, <1>4, <2>3, InputsAre, ModelsOfSources
    <2>4. CASE n = m /\ m = "silver_price_change"
      <3>1. s = Prices
        BY <2>4, ModelsOfSources, TestsAre
      <3>2. "silver_product_price" \notin build.todo
        BY <1>1, <2>4, RefsAre
      <3> QED
        BY <1>2, <1>4, <2>1, <2>4, <3>1, <3>2, InputsAre, ModelsOfSources, AllNodes
    <2>5. CASE n = m /\ m \in {"silver_order_event", "silver_orders_manifest"}
      <3>1. s = Orders
        BY <2>5, ModelsOfSources
      <3> QED
        BY <1>2, <1>4, <2>5, <3>1, InputsAre
    <2>6. CASE n = m /\ m \in {"silver_order", "silver_order_line"}
      <3>1. s = Orders
        BY <2>6, ModelsOfSources
      <3>2. "silver_order_event" \notin build.todo
        BY <1>1, <2>6, RefsAre
      <3> QED
        BY <1>2, <1>4, <2>1, <2>6, <3>1, <3>2, InputsAre, AllNodes
    <2>7. s = Prices \/ (s = Orders /\ n \in {"silver_order_event", "silver_order",
                                              "silver_order_line", "silver_orders_manifest"})
      BY ModelsOfSources, AllNodes
    <2> QED
      BY <2>2, <2>3, <2>4, <2>5, <2>6, <2>7
  <1>12. InStep'
    <2>1. OrderModels \cap build'.failed = {}
      BY <1>1, <1>3 DEF Inv, InStep
    <2>2. ASSUME build.landed[Orders], NEW n \in {"silver_order", "silver_order_line"}
          PROVE  \/ n \in build'.todo
                 \/ /\ "silver_order_event" \notin build'.todo
                    /\ silver'[n] = silver'["silver_order_event"]
      <3>1. \/ n \in build.todo
            \/ "silver_order_event" \notin build.todo /\ silver[n] = silver["silver_order_event"]
        BY <1>1, <2>2 DEF Inv, InStep
      <3>2. n \in Models /\ "silver_order_event" \in Models /\ n # "silver_order_event"
        BY AllNodes
      <3>3. CASE m = n
        <4>1. "silver_order_event" \notin build.todo
          BY <1>1, <3>3, RefsAre
        <4>2. silver'[n] = silver["silver_order_event"]
          BY <1>2, <1>4, <3>3, InputsAre
        <4>3. silver'["silver_order_event"] = silver["silver_order_event"]
          BY <1>4, <3>2, <3>3
        <4> QED
          BY <1>3, <4>1, <4>2, <4>3
      <3>4. CASE m # n
        BY <1>1, <1>3, <1>4, <3>1, <3>2, <3>4
      <3> QED
        BY <3>3, <3>4
    <2> QED
      BY <1>3, <2>1, <2>2 DEF InStep
  <1>13. Behind'
    <2>1. Behind
      BY DEF Inv
    <2>2. raw[Prices] \in Nat /\ raw[Orders] \in Nat
      BY <1>2, SilverIsNumber
    <2>3. CASE m \in {"silver_product_price", "silver_category", "raw_manifest"}
      BY <1>1, <1>2, <1>4, <1>5, <2>1, <2>2, <2>3, InputsAre, AllNodes DEF Behind
    <2>4. CASE m = "silver_price_change"
      BY <1>1, <1>2, <1>4, <1>5, <2>1, <2>2, <2>4, InputsAre, AllNodes DEF Behind
    <2>5. CASE m \in {"silver_order_event", "silver_orders_manifest"}
      BY <1>1, <1>2, <1>4, <1>5, <2>1, <2>2, <2>5, InputsAre, AllNodes DEF Behind
    <2>6. CASE m \in {"silver_order", "silver_order_line"}
      BY <1>1, <1>2, <1>4, <1>5, <2>1, <2>2, <2>6, InputsAre, AllNodes DEF Behind
    <2>7. CASE m \in {"silver_live_order_state", "silver_stock_ledger", "frozen_capture"}
      BY <1>1, <1>2, <1>4, <1>5, <2>1, <2>2, <2>7, InputsAre, AllNodes DEF Behind
    <2> QED
      BY <2>3, <2>4, <2>5, <2>6, <2>7, AllNodes
  <1>14. Round'
    <2>1. silver["silver_order"] <= silver'["silver_order"]
      <3>1. silver["silver_order"] <= silver["silver_order_event"]
        BY DEF Inv, Behind
      <3> QED
        BY <1>2, <1>4, <1>5, <3>1, InputsAre, AllNodes
    <2>2. silver'["silver_order"] \in Nat
      BY <1>4, AllNodes, BoundsAssumption DEF Versions
    <2>3. /\ table["stock_consumption"] \in Nat /\ table["stock_ledger"] \in Nat
          /\ build.metadata["stock_ledger"] \in Nat
      BY <1>2, SilverIsNumber, NodesOfTables
    <2>4. silver'["silver_stock_ledger"] \in {silver["silver_stock_ledger"],
                                              build.metadata["stock_ledger"]}
      BY <1>2, <1>4, InputsAre, AllNodes
    <2>5. /\ table["stock_consumption"] <= silver["silver_order"]
          /\ table["stock_ledger"] <= silver["silver_order"]
          /\ build.metadata["stock_ledger"] <= silver["silver_order"]
          /\ silver["silver_stock_ledger"] <= silver["silver_order"]
      BY DEF Inv, Round
    <2>6. silver["silver_order"] \in Nat /\ silver["silver_stock_ledger"] \in Nat
      BY <1>5, AllNodes
    <2> QED
      BY <1>3, <2>1, <2>2, <2>3, <2>4, <2>5, <2>6 DEF Round
  <1>15. NothingAbsentIsBuilt'
    BY <1>3 DEF Inv, NothingAbsentIsBuilt
  <1>16. FailuresHaveACause'
    <2> SUFFICES ASSUME NEW n \in build.failed \ {Priced},
                        \A s \in Sources : ({n} \cup Refs(n)) \cap SourceModels[s] # {} => ~Moved(s)
                 PROVE  \/ /\ n = Sealed
                           /\ silver'["frozen_capture"] \notin {0, silver'["silver_orders_manifest"]}
                        \/ /\ n = Live
                           /\ silver'["silver_live_order_state"] # silver'["silver_order"]
      BY <1>3, <1>7 DEF FailuresHaveACause
    <2>1. \/ /\ n = Sealed
             /\ silver["frozen_capture"] \notin {0, silver["silver_orders_manifest"]}
          \/ n = Live /\ silver["silver_live_order_state"] # silver["silver_order"]
      BY DEF Inv, FailuresHaveACause
    <2>2. m \notin Refs(n)
      BY <1>1 DEF Inv, Queued
    <2> QED
      BY <1>4, <2>1, <2>2, RefsAre, AllNodes
  <1>17. OrdersAreOneLog'
    BY <1>1, <1>3 DEF Inv, Seen, OrdersAreOneLog
  <1> QED
    BY <1>8, <1>9, <1>10, <1>11, <1>12, <1>13, <1>14, <1>15, <1>16, <1>17 DEF Inv

\* A node that is through without a parquet: a model that failed, or a test.
LEMMA NodeKeeps ==
    ASSUME Inv, NEW n \in Nodes, Startable(n), NEW failed,
           failed = build.failed \/ failed = build.failed \cup {n},
           n \in Tests \/ failed = build.failed \cup {n},
           n \in OrderModels => failed = build.failed,
           n \in Models => \E s \in Sources : n \in SourceModels[s] /\ build.began[s] = 1,
           failed # build.failed /\ n \in Tests \ {Priced} =>
                \/ \E s \in Sources : ({n} \cup Refs(n)) \cap SourceModels[s] # {} /\ Moved(s)
                \/ /\ n = Sealed
                   /\ silver["frozen_capture"] \notin {0, silver["silver_orders_manifest"]}
                \/ n = Live /\ silver["silver_live_order_state"] # silver["silver_order"],
           build' = [build EXCEPT !.todo = build.todo \ {n}, !.failed = failed],
           UNCHANGED <<raw, seal, catalog, table, silver, used>>
    PROVE  Inv'
  <1>1. build.step = "dbt" /\ n \in build.todo /\ Refs(n) \cap build.todo = {}
    BY DEF Startable
  <1>2. Typed /\ build \in Builds
    BY DEF Inv, Typed
  <1>3. /\ build'.step = "dbt" /\ build'.metadata = build.metadata
        /\ build'.todo = build.todo \ {n}
        /\ build'.landed = build.landed /\ build'.began = build.began
        /\ build'.failed = failed /\ build'.verdict = build.verdict
        /\ build' \in Builds
    BY <1>1, <1>2 DEF Builds
  <1>4. \A s \in Sources : Moved(s)' <=> Moved(s)
    BY <1>3 DEF Moved
  <1>5. n \in Models => n \notin Tests /\ \E s \in Sources : n \in SourceModels[s] /\ Moved(s)
    BY FirstLandingMoves, AllNodes
  <1>6. Typed' /\ Onward' /\ Seen' /\ Behind' /\ Round'
    BY <1>1, <1>2, <1>3 DEF Inv, Typed, Onward, Seen, Behind, Round
  <1>7. Queued'
    <2>1. \A s \in Sources : \A x \in Nodes :
             x \in build'.todo /\ ({x} \cup Refs(x)) \cap SourceModels[s] # {}
                => build'.landed[s]
      BY <1>1, <1>3 DEF Inv, Queued
    <2>2. ASSUME NEW s \in Sources, NEW x \in SourceModels[s] \cap Models, build.landed[s]
          PROVE  x \in build'.todo \/ x \in build'.failed \/ silver'[x] > 0
      <3>1. x \in build.todo \/ x \in build.failed \/ silver[x] > 0
        BY <1>1, <2>2 DEF Inv, Queued
      <3>2. x = n => n \in failed
        BY <2>2, AllNodes
      <3> QED
        BY <1>3, <3>1, <3>2
    <2>3. \A t \in Tables : \A x \in TableNodes[t] : x \in build'.todo => build'.metadata[t] > 0
      BY <1>1, <1>3 DEF Inv, Queued
    <2>4. \A x \in build'.failed : Refs(x) \cap build'.todo = {}
      BY <1>1, <1>3 DEF Inv, Queued
    <2> QED
      BY <1>3, <2>1, <2>2, <2>3, <2>4 DEF Queued
  <1>8. Fresh'
    <2> SUFFICES ASSUME NEW s \in Sources, build.landed[s], ~Moved(s),
                        NEW x \in SourceModels[s] \cap Models
                 PROVE  x \in build'.todo \/ silver[x] = raw[s]
      BY <1>3, <1>4 DEF Fresh
    <2>1. x \in build.todo \/ silver[x] = raw[s]
      BY <1>1 DEF Inv, Fresh
    <2>2. x # n
      <3> SUFFICES ASSUME x = n
                   PROVE  FALSE
        OBVIOUS
      <3>1. PICK y \in Sources : n \in SourceModels[y] /\ Moved(y)
        BY <1>5
      <3>2. s \in {Prices, Orders} /\ y \in {Prices, Orders} /\ n \in SourceModels[s]
        BY ModelsOfSources
      <3>3. y = s
        BY <3>1, <3>2, NodesAreApart
      <3> QED
        BY <3>1, <3>3
    <2> QED
      BY <1>3, <2>1, <2>2
  <1>9. InStep'
    <2>1. OrderModels \cap failed = {}
      BY <1>1 DEF Inv, InStep
    <2>2. n \notin {"silver_order", "silver_order_line"}
      BY <1>2, AllNodes, <1>1, <2>1 DEF OrderModels
    <2> QED
      BY <1>1, <1>3, <2>1, <2>2 DEF Inv, InStep
  <1>10. NothingAbsentIsBuilt'
    <2>1. n \in Tests => failed \cap Models = build.failed \cap Models
      BY AllNodes
    <2> QED
      BY <1>3, <2>1, AllNodes DEF Inv, NothingAbsentIsBuilt
  <1>11. FailuresHaveACause'
    <2>1. n \in failed \ (build.failed \cup {Priced}) =>
                \/ \E s \in Sources : ({n} \cup Refs(n)) \cap SourceModels[s] # {} /\ Moved(s)
                \/ /\ n = Sealed
                   /\ silver["frozen_capture"] \notin {0, silver["silver_orders_manifest"]}
                \/ n = Live /\ silver["silver_live_order_state"] # silver["silver_order"]
      BY <1>5, AllNodes
    <2> QED
      BY <1>3, <1>4, <2>1 DEF Inv, FailuresHaveACause
  <1>12. OrdersAreOneLog'
    BY <1>1, <1>3 DEF Inv, Seen, OrdersAreOneLog
  <1> QED
    BY <1>6, <1>7, <1>8, <1>9, <1>10, <1>11, <1>12 DEF Inv

LEMMA BuildModelKeeps ==
    ASSUME Inv, NEW m \in Models, BuildModel(m)
    PROVE  Inv'
  <1>1. Startable(m) /\ m \in Nodes /\ m \notin Tests
    BY AllNodes DEF BuildModel
  <1>2. CASE /\ ~(Input(m) = 0 /\ m # "frozen_capture") /\ Refs(m) \cap build.failed = {}
             /\ silver' = [silver EXCEPT ![m] = Input(m)]
             /\ build' = [build EXCEPT !.todo = build.todo \ {m}]
             /\ UNCHANGED <<raw, seal, catalog, table, used>>
    BY <1>1, <1>2, BuiltKeeps
  <1>3. CASE /\ \/ Input(m) = 0 /\ m # "frozen_capture"
                \/ Refs(m) \cap build.failed # {}
                \/ MayBeMissing(m)
             /\ build' = [build EXCEPT !.todo = build.todo \ {m},
                                       !.failed = build.failed \cup {m}]
             /\ UNCHANGED <<raw, seal, catalog, table, silver, used>>
    <2>1. /\ m \notin OrderModels
          /\ \E s \in Sources : m \in SourceModels[s] /\ build.began[s] = 1
      BY <1>1, <1>3, FailsHalfWay
    <2> QED
      BY <1>1, <1>3, <2>1, NodeKeeps
  <1> QED
    BY <1>2, <1>3 DEF BuildModel

\* A test is red only over a source that moved, another seal or another day.
LEMMA RedHasItsCause ==
    ASSUME Inv, NEW t \in Tests \ {Priced}, Startable(t),
           Refs(t) \cap build.failed # {} \/ ~Agree(t)
    PROVE  \/ \E s \in Sources : ({t} \cup Refs(t)) \cap SourceModels[s] # {} /\ Moved(s)
           \/ /\ t = Sealed
              /\ silver["frozen_capture"] \notin {0, silver["silver_orders_manifest"]}
           \/ t = Live /\ silver["silver_live_order_state"] # silver["silver_order"]
  <1> SUFFICES ASSUME \A s \in Sources :
                        ({t} \cup Refs(t)) \cap SourceModels[s] # {} => ~Moved(s),
                      t = Sealed =>
                        silver["frozen_capture"] \in {0, silver["silver_orders_manifest"]},
                      t = Live => silver["silver_live_order_state"] = silver["silver_order"]
               PROVE  FALSE
    OBVIOUS
  <1>1. build.step = "dbt" /\ t \in build.todo /\ Refs(t) \cap build.todo = {} /\ t \in Nodes
    BY AllNodes DEF Startable
  <1>2. Typed
    BY DEF Inv
  <1>3. Refs(t) \cap build.failed = {}
    <2> SUFFICES ASSUME NEW r \in Refs(t), r \in build.failed
                 PROVE  FALSE
      OBVIOUS
    <2>1. r \in Models
      BY <1>1, RefsAreModels
    <2> QED
      BY <2>1, FailedIsMoved
  <1>4. ASSUME NEW s \in Sources, NEW r \in Refs(t), r \in SourceModels[s]
        PROVE  silver[r] = raw[s] /\ Whole(raw[s])
    <2>1. r \in Models /\ ~Moved(s)
      BY <1>1, <1>4, RefsAreModels
    <2>2. build.landed[s]
      BY <1>1, <1>4 DEF Inv, Queued
    <2> QED
      BY <1>1, <1>4, <2>1, <2>2 DEF Inv, Fresh, Moved
  <1>5. \A s \in Sources : raw[s] \in Versions
    BY <1>2, SilverIsNumber
  <1>6. ~Agree(t)
    BY <1>3
  <1>7. CASE t \in {Categories, Reconciles[Prices]}
    <2>1. \A r \in Refs(t) : silver[r] = raw[Prices] /\ Whole(raw[Prices])
      BY <1>4, <1>7, RefsAre, ModelsOfSources
    <2>2. Refs(t) # {}
      BY <1>7, RefsAre
    <2> QED
      BY <1>5, <1>6, <1>7, <2>1, <2>2, TestsAre DEF Agree
  <1>8. CASE t = Reconciles[Orders]
    <2>1. \A r \in Refs(t) : silver[r] = raw[Orders] /\ Whole(raw[Orders])
      BY <1>4, <1>8, RefsAre, ModelsOfSources
    <2>2. Refs(t) # {}
      BY <1>8, RefsAre
    <2> QED
      BY <1>5, <1>6, <1>8, <2>1, <2>2, TestsAre DEF Agree
  <1>9. CASE t = Sealed
    <2>1. silver["silver_orders_manifest"] = raw[Orders] /\ Whole(raw[Orders])
      BY <1>4, <1>9, RefsAre, ModelsOfSources
    <2> QED
      BY <1>6, <1>9, <2>1, TestsAre DEF Agree
  <1>10. CASE t = Live
    <2>1. silver["silver_order"] = raw[Orders] /\ Whole(raw[Orders])
      BY <1>4, <1>10, RefsAre, ModelsOfSources
    <2>2. \A r \in Refs(t) : silver[r] = raw[Orders]
      BY <1>10, <2>1, RefsAre
    <2> QED
      BY <1>5, <1>6, <1>10, <2>1, <2>2, TestsAre DEF Agree
  <1> QED
    BY <1>7, <1>8, <1>9, <1>10, TestsAre

LEMMA RunTestKeeps ==
    ASSUME Inv, NEW t \in Tests, RunTest(t)
    PROVE  Inv'
  <1>1. Startable(t) /\ t \in Nodes /\ t \notin Models /\ t \notin OrderModels
    BY AllNodes DEF RunTest, OrderModels
  <1>2. PICK failed :
          /\ \/ failed = build.failed
             \/ /\ failed = build.failed \cup {t}
                /\ Refs(t) \cap build.failed # {} \/ ~Agree(t)
          /\ build' = [build EXCEPT !.todo = build.todo \ {t}, !.failed = failed]
          /\ UNCHANGED <<raw, seal, catalog, table, silver, used>>
    <2>1. CASE build' = [build EXCEPT !.todo = build.todo \ {t}]
      <3>1. build \in Builds
        BY DEF Inv, Typed
      <3>2. build' = [build EXCEPT !.todo = build.todo \ {t}, !.failed = build.failed]
        BY <2>1, <3>1 DEF Builds
      <3> QED
        BY <3>2 DEF RunTest
    <2>2. CASE /\ Refs(t) \cap build.failed # {} \/ ~Agree(t)
               /\ build' = [build EXCEPT !.todo = build.todo \ {t},
                                         !.failed = build.failed \cup {t}]
      BY <2>2 DEF RunTest
    <2> QED
      BY <2>1, <2>2 DEF RunTest
  <1>3. failed # build.failed /\ t \in Tests \ {Priced} =>
            \/ \E s \in Sources : ({t} \cup Refs(t)) \cap SourceModels[s] # {} /\ Moved(s)
            \/ /\ t = Sealed
               /\ silver["frozen_capture"] \notin {0, silver["silver_orders_manifest"]}
            \/ t = Live /\ silver["silver_live_order_state"] # silver["silver_order"]
    BY <1>1, <1>2, RedHasItsCause
  <1> QED
    BY <1>1, <1>2, <1>3, NodeKeeps

LEMMA EndBuildKeeps ==
    ASSUME Inv, EndBuild
    PROVE  Inv'
  <1> DEFINE verdict == IF build.failed = {} THEN "green" ELSE "red"
  <1>1. /\ build.step = "dbt" /\ build.todo = {}
        /\ build' = [step |-> "idle", landed |-> [s \in Sources |-> FALSE],
                     began |-> build.began, metadata |-> [t \in Tables |-> 0],
                     todo |-> {}, failed |-> build.failed, verdict |-> verdict]
        /\ UNCHANGED <<raw, seal, catalog, table, silver, used>>
    BY DEF EndBuild, Idle
  <1>2. Typed /\ build \in Builds /\ 0 \in Versions
    BY BoundsAssumption DEF Inv, Typed, Versions
  <1>3. build' \in Builds
    BY <1>1, <1>2 DEF Builds
  <1>4. Typed' /\ Onward'
    BY <1>1, <1>2, <1>3 DEF Inv, Typed, Onward
  <1>5. Seen' /\ Queued' /\ Fresh' /\ InStep' /\ Behind'
    BY <1>1 DEF Inv, Seen, Queued, Fresh, InStep, Behind
  <1>6. Round'
    <2>1. build'.metadata["stock_ledger"] = 0 /\ 0 <= silver["silver_order"]
      BY <1>1, <1>2, SilverIsNumber, AllNodes, NodesOfTables
    <2> QED
      BY <1>1, <2>1 DEF Inv, Round
  <1>7. NothingAbsentIsBuilt'
    BY <1>1 DEF Inv, NothingAbsentIsBuilt
  <1>8. FailuresHaveACause'
    BY <1>1 DEF Inv, FailuresHaveACause, Moved
  <1>9. OrdersAreOneLog'
    <2>1. CASE build.landed[Orders]
      BY <1>1, <2>1 DEF Inv, InStep, OrdersAreOneLog
    <2>2. CASE ~build.landed[Orders]
      <3>1. silver["silver_order_event"] = 0
        BY <1>1, <2>2, ModelsOfSources, AllNodes DEF Inv, Seen
      <3> QED
        BY <1>1, <3>1 DEF OrdersAreOneLog
    <2> QED
      BY <2>1, <2>2
  <1> QED
    BY <1>4, <1>5, <1>6, <1>7, <1>8, <1>9 DEF Inv

LEMMA KillBuildKeeps ==
    ASSUME Inv, KillBuild
    PROVE  Inv'
  <1>1. /\ build' = [step |-> "idle", landed |-> [s \in Sources |-> FALSE],
                     began |-> [s \in Sources |-> 0], metadata |-> [t \in Tables |-> 0],
                     todo |-> {}, failed |-> {}, verdict |-> "killed"]
        /\ used.kills < MaxKills
        /\ used' = [used EXCEPT !.kills = used.kills + 1]
        /\ UNCHANGED <<raw, seal, catalog, table, silver>>
    BY DEF KillBuild, Idle
  <1>2. Typed /\ 0 \in Versions
    BY BoundsAssumption DEF Inv, Versions
  <1>3. build' \in Builds
    BY <1>1, <1>2 DEF Builds
  <1>4. used' \in Uses
    <2>1. used \in Uses
      BY <1>2 DEF Typed
    <2>2. used.kills + 1 \in 0..MaxKills
      BY <1>1, <2>1, BoundsAssumption DEF Uses
    <2> QED
      BY <1>1, <2>1, <2>2 DEF Uses
  <1>5. Typed'
    BY <1>1, <1>2, <1>3, <1>4 DEF Typed
  <1>6. Onward'
    <2>1. \A s \in Sources : 0 <= raw[s]
      BY <1>2, SilverIsNumber
    <2> QED
      BY <1>1, <2>1 DEF Onward
  <1>7. Seen' /\ Queued' /\ Fresh' /\ InStep' /\ Behind'
    BY <1>1 DEF Inv, Seen, Queued, Fresh, InStep, Behind
  <1>8. Round'
    <2>1. build'.metadata["stock_ledger"] = 0 /\ 0 <= silver["silver_order"]
      BY <1>1, <1>2, SilverIsNumber, AllNodes, NodesOfTables
    <2> QED
      BY <1>1, <2>1 DEF Inv, Round
  <1>9. NothingAbsentIsBuilt' /\ FailuresHaveACause' /\ OrdersAreOneLog'
    BY <1>1 DEF NothingAbsentIsBuilt, FailuresHaveACause, OrdersAreOneLog
  <1> QED
    BY <1>5, <1>6, <1>7, <1>8, <1>9 DEF Inv

LEMMA StepKeeps ==
    ASSUME Inv, [Next]_vars
    PROVE  Inv'
  <1>1. CASE UNCHANGED vars
    <2>1. \A s \in Sources : Moved(s)' <=> Moved(s)
      BY <1>1 DEF vars, Moved
    <2> QED
      BY <1>1, <2>1 DEF vars, Inv, Typed, Onward, Seen, Queued, Fresh, InStep, Behind, Round,
                        NothingAbsentIsBuilt, FailuresHaveACause, OrdersAreOneLog
  <1>2. CASE Step
    BY <1>2, ObserveKeeps, ObserveTablesKeeps, BuildModelKeeps, RunTestKeeps, EndBuildKeeps
    DEF Step
  <1>3. CASE \E s \in Sources : Land(s)
    BY <1>3, LandKeeps
  <1>4. CASE Freeze \/ Project \/ ExportConsumption \/ FoldLedger
    BY <1>4, FreezeKeeps, ProjectKeeps, ConsumptionKeeps, LedgerKeeps
  <1>5. CASE StreamUp \/ StreamDown
    BY <1>5, CatalogKeeps
  <1>6. CASE KillBuild
    BY <1>6, KillBuildKeeps
  <1> QED
    BY <1>1, <1>2, <1>3, <1>4, <1>5, <1>6 DEF Next

\* What the gate saw is never taken back while the build runs, every node waits
\* for what it refers to, and nothing round the circle gets ahead of the orders.
THEOREM InvariantHolds == Spec => []Inv
  <1>1. Init => Inv
    BY InitHolds
  <1>2. Inv /\ [Next]_vars => Inv'
    BY StepKeeps
  <1> QED
    BY <1>1, <1>2, PTL DEF Spec

\* silver_gate.py, for any number of landings, seals, outages and builds that die,
\* with the optional planes or without: no model meets an absent input whatever
\* lands or goes away between the gate's look and the model, but for a first landing
\* that the gate saw half way; a test is red only over a source that was landing or
\* has landed since the look, over another seal or another day's projection; a
\* finished build leaves the models of the orders of one landing, and the published
\* ledger is not of later orders than Silver's own.
THEOREM BuildsHold == Spec => []BuildsAreCoherent
  <1>1. Inv => BuildsAreCoherent
    <2> SUFFICES ASSUME Inv
                 PROVE  BuildsAreCoherent
      OBVIOUS
    <2>1. TypeOK
      BY DEF Inv, Typed, TypeOK, Builds, Uses
    <2>2. LedgerIsBehindItsOrders
      BY DEF Inv, Round, LedgerIsBehindItsOrders
    <2> QED
      BY <2>1, <2>2 DEF Inv, BuildsAreCoherent
  <1> QED
    BY <1>1, InvariantHolds, PTL

-----------------------------------------------------------------------------
(***************************************************************************)
(* THE STOCK LEDGER                                                        *)
(***************************************************************************)

(***************************************************************************)
(* Sums.                                                                   *)
(***************************************************************************)
\* A set of numbers that is not empty has a smallest one.
LEMMA LeastExists ==
    ASSUME NEW S \in SUBSET Nat, S # {}
    PROVE  \E n \in S : \A m \in S : n <= m
  <1> DEFINE R == OpToRel(<, Nat)
  <1>1. PICK x \in S : \A y \in S : ~(<< y, x >> \in R)
    BY NatLessThanWellFounded, WFMin, Zenon
  <1>2. ASSUME NEW y \in Nat, NEW z \in Nat, y < z
        PROVE  << y, z >> \in R
    <2>1. << y, z >> \in Nat \X Nat /\ << y, z >>[1] < << y, z >>[2]
      BY <1>2
    <2> QED
      BY <2>1, Zenon DEF OpToRel
  <1> HIDE DEF R
  <1>3. ASSUME NEW m \in S
        PROVE  x <= m
    <2>1. ~(m < x)
      BY <1>1, <1>2
    <2> QED
      BY <2>1
  <1> QED
    BY <1>3

\* u is the running total of the first n numbers of f.
Running(f, n, u) == u = [k \in 0..n |-> IF k = 0 THEN 0 ELSE u[k - 1] + f[k]]

\* What that means of each of its values up to the n-th.
Adds(f, n, u) == \A k \in 0..n : u[k] = IF k = 0 THEN 0 ELSE u[k - 1] + f[k]

LEMMA RunningExists ==
    ASSUME NEW f, NEW n \in Nat
    PROVE  \E u : Running(f, n, u)
  <1> DEFINE S == {m \in Nat : ~ \E u : Running(f, m, u)}
  <1> SUFFICES ASSUME S # {}
               PROVE  FALSE
    OBVIOUS
  <1>0. S \in SUBSET Nat
    OBVIOUS
  <1>1. PICK m \in S : \A x \in S : m <= x
    <2> HIDE DEF S
    <2> QED
      BY <1>0, LeastExists
  <1>2. CASE m = 0
    <2> DEFINE w == [k \in 0..0 |-> 0]
    <2>1. Running(f, 0, w)
      BY DEF Running
    <2> QED
      BY <1>2, <2>1
  <1>3. CASE m # 0
    <2>1. m - 1 \in Nat /\ ~(m - 1 \in S)
      BY <1>1, <1>3
    <2>2. PICK u : Running(f, m - 1, u)
      BY <2>1
    <2> DEFINE w == [k \in 0..m |-> IF k = m THEN u[m - 1] + f[m] ELSE u[k]]
    <2>3. \A k \in 0..(m - 1) : u[k] = IF k = 0 THEN 0 ELSE u[k - 1] + f[k]
      BY <2>2 DEF Running
    <2>4. \A k \in 0..m : w[k] = IF k = 0 THEN 0 ELSE w[k - 1] + f[k]
      BY <1>3, <2>1, <2>3
    <2>5. Running(f, m, w)
      BY <2>4 DEF Running
    <2> QED
      BY <2>5
  <1> QED
    BY <1>2, <1>3

\* SumTo is read off a running total ...
LEMMA SumIsRunning ==
    ASSUME NEW f, NEW n \in Nat
    PROVE  \E u : SumTo(f, n) = u[n] /\ Adds(f, n, u)
  <1> DEFINE v == CHOOSE w : w = [k \in 0..n |-> IF k = 0 THEN 0 ELSE w[k - 1] + f[k]]
  <1>1. v = [k \in 0..n |-> IF k = 0 THEN 0 ELSE v[k - 1] + f[k]]
    BY RunningExists DEF Running
  <1>2. SumTo(f, n) = v[n]
    BY DEF SumTo
  <1> HIDE DEF v
  <1>3. Adds(f, n, v)
    BY <1>1 DEF Adds
  <1> QED
    BY <1>2, <1>3

\* ... and two that agree on what they sum agree.
LEMMA RunningAgree ==
    ASSUME NEW n \in Nat, NEW f, NEW g, NEW u, NEW w, NEW p \in Nat, n <= p,
           \A k \in 1..n : f[k] = g[k],
           Adds(f, n, u), Adds(g, p, w)
    PROVE  u[n] = w[n]
  <1> DEFINE S == {m \in 0..n : u[m] # w[m]}
  <1> SUFFICES ASSUME S # {}
               PROVE  FALSE
    OBVIOUS
  <1>0. S \in SUBSET Nat
    OBVIOUS
  <1>1. PICK m \in S : \A x \in S : m <= x
    <2> HIDE DEF S
    <2> QED
      BY <1>0, LeastExists
  <1>2. m # 0
    BY <1>1 DEF Adds
  <1>3. m - 1 \in 0..n /\ ~(m - 1 \in S)
    BY <1>1, <1>2
  <1>4. u[m] = u[m - 1] + f[m] /\ w[m] = w[m - 1] + g[m] /\ f[m] = g[m]
    BY <1>1, <1>2 DEF Adds
  <1> QED
    BY <1>3, <1>4

LEMMA SumStep ==
    ASSUME NEW f, NEW n \in Nat
    PROVE  /\ SumTo(f, 0) = 0
           /\ n > 0 => SumTo(f, n) = SumTo(f, n - 1) + f[n]
  <1>1. SumTo(f, 0) = 0
    BY SumIsRunning DEF Adds
  <1>2. ASSUME n > 0
        PROVE  SumTo(f, n) = SumTo(f, n - 1) + f[n]
    <2>1. PICK u : SumTo(f, n) = u[n] /\ Adds(f, n, u)
      BY SumIsRunning
    <2>2. n - 1 \in Nat
      BY <1>2
    <2>3. PICK w : SumTo(f, n - 1) = w[n - 1] /\ Adds(f, n - 1, w)
      BY <2>2, SumIsRunning
    <2>6. Adds(f, n, u) /\ n - 1 <= n
      BY <2>1
    <2>4. w[n - 1] = u[n - 1]
      BY <2>2, <2>3, <2>6, RunningAgree
    <2>5. u[n] = u[n - 1] + f[n]
      BY <1>2, <2>1 DEF Adds
    <2> QED
      BY <2>1, <2>3, <2>4, <2>5
  <1> QED
    BY <1>1, <1>2

LEMMA SumSame ==
    ASSUME NEW n \in Nat, NEW f, NEW g, \A k \in 1..n : f[k] = g[k]
    PROVE  SumTo(f, n) = SumTo(g, n)
  <1>1. PICK u : SumTo(f, n) = u[n] /\ Adds(f, n, u)
    BY SumIsRunning
  <1>2. PICK w : SumTo(g, n) = w[n] /\ Adds(g, n, w)
    BY SumIsRunning
  <1>3. u[n] = w[n]
    BY <1>1, <1>2, RunningAgree
  <1> QED
    BY <1>1, <1>2, <1>3

LEMMA SumType ==
    ASSUME NEW n \in Nat, NEW f, \A k \in 1..n : f[k] \in Nat
    PROVE  SumTo(f, n) \in Nat
  <1> DEFINE S == {m \in 0..n : SumTo(f, m) \notin Nat}
  <1> SUFFICES ASSUME S # {}
               PROVE  FALSE
    OBVIOUS
  <1>0. S \in SUBSET Nat
    OBVIOUS
  <1>1. PICK m \in S : \A x \in S : m <= x
    <2> HIDE DEF S
    <2> QED
      BY <1>0, LeastExists
  <1>2. m # 0
    BY SumStep
  <1>3. m - 1 \in 0..n /\ ~(m - 1 \in S)
    BY <1>1, <1>2
  <1>4. SumTo(f, m) = SumTo(f, m - 1) + f[m]
    BY <1>2, SumStep
  <1> QED
    BY <1>2, <1>3, <1>4

\* The two differ in the e-th of their n terms at most.
OneApart(f, g, n, e) ==
    /\ \A k \in 1..n : f[k] \in Nat /\ g[k] \in Nat
    /\ \A k \in 1..n : k # e => f[k] = g[k]

\* A sum moves with any one of its terms.
LEMMA SumMoves ==
    ASSUME NEW n \in Nat, NEW f, NEW g, NEW e \in 1..n, OneApart(f, g, n, e)
    PROVE  SumTo(g, n) = SumTo(f, n) - f[e] + g[e]
  <1> DEFINE S == {m \in e..n : SumTo(g, m) # SumTo(f, m) - f[e] + g[e]}
  <1> SUFFICES ASSUME S # {}
               PROVE  FALSE
    OBVIOUS
  <1>0. S \in SUBSET Nat
    OBVIOUS
  <1>1. PICK m \in S : \A x \in S : m <= x
    <2> HIDE DEF S
    <2> QED
      BY <1>0, LeastExists
  <1>7. /\ \A k \in 1..n : f[k] \in Nat /\ g[k] \in Nat
        /\ \A k \in 1..n : k # e => f[k] = g[k]
    BY DEF OneApart
  <1>2. m \in Nat /\ m > 0 /\ m - 1 \in Nat /\ m \in 1..n
    OBVIOUS
  <1>3. /\ SumTo(f, m) = SumTo(f, m - 1) + f[m]
        /\ SumTo(g, m) = SumTo(g, m - 1) + g[m]
    BY <1>2, SumStep
  <1>4. SumTo(f, m - 1) \in Nat /\ SumTo(g, m - 1) \in Nat
    <2>1. \A k \in 1..(m - 1) : f[k] \in Nat /\ g[k] \in Nat
      BY <1>2, <1>7
    <2> QED
      BY <1>2, <2>1, SumType
  <1>5. CASE m = e
    <2>1. \A k \in 1..(m - 1) : f[k] = g[k]
      BY <1>2, <1>5, <1>7
    <2>2. SumTo(f, m - 1) = SumTo(g, m - 1)
      BY <1>2, <2>1, SumSame
    <2> QED
      BY <1>2, <1>3, <1>4, <1>5, <1>7, <2>2
  <1>6. CASE m # e
    <2>1. m - 1 \in e..n /\ ~(m - 1 \in S)
      BY <1>1, <1>6
    <2>2. f[m] = g[m]
      BY <1>2, <1>6, <1>7
    <2> QED
      BY <1>2, <1>3, <1>4, <1>7, <2>1, <2>2
  <1> QED
    BY <1>5, <1>6

\* Zeros sum to zero, and beside zeros a sum is its one term.
LEMMA SumOfNone ==
    ASSUME NEW n \in Nat, NEW f, \A k \in 1..n : f[k] = 0
    PROVE  SumTo(f, n) = 0
  <1> DEFINE S == {m \in 0..n : SumTo(f, m) # 0}
  <1> SUFFICES ASSUME S # {}
               PROVE  FALSE
    OBVIOUS
  <1>0. S \in SUBSET Nat
    OBVIOUS
  <1>1. PICK m \in S : \A x \in S : m <= x
    <2> HIDE DEF S
    <2> QED
      BY <1>0, LeastExists
  <1>2. m # 0
    BY SumStep
  <1>3. m - 1 \in 0..n /\ ~(m - 1 \in S)
    BY <1>1, <1>2
  <1>4. SumTo(f, m) = SumTo(f, m - 1) + f[m]
    BY <1>2, SumStep
  <1> QED
    BY <1>2, <1>3, <1>4

LEMMA SumOfOne ==
    ASSUME NEW n \in Nat, NEW f, NEW e \in 1..n, f[e] \in Nat,
           \A k \in 1..n : k # e => f[k] = 0
    PROVE  SumTo(f, n) = f[e]
  <1> DEFINE z == [k \in 1..n |-> 0]
  <1>1. SumTo(z, n) = 0
    BY SumOfNone
  <1>2. SumTo(f, n) = SumTo(z, n) - z[e] + f[e]
    <2>1. \A k \in 1..n : z[k] \in Nat /\ f[k] \in Nat
      OBVIOUS
    <2>2. \A k \in 1..n : k # e => z[k] = f[k]
      OBVIOUS
    <2>3. OneApart(z, f, n, e)
      BY <2>1, <2>2 DEF OneApart
    <2> HIDE DEF z
    <2> QED
      BY <2>3, SumMoves
  <1> QED
    BY <1>1, <1>2

(***************************************************************************)
(* The policy.                                                             *)
(***************************************************************************)
LEMMA UnitsType ==
    ASSUME NEW c \in Nat, NEW t \in Nat
    PROVE  Units(c, t) \in Nat
  <1>1. NDays \in Nat /\ NDays > 0
    BY PremisesAssumption
  <1>2. c * t + NDays \in Nat /\ 2 * NDays \in Nat /\ 2 * NDays > 0
    BY <1>1
  <1> QED
    BY <1>2 DEF Units

\* A longer cover is not fewer units.
LEMMA UnitsGrow ==
    ASSUME NEW c \in Nat, NEW d \in Nat, c <= d, NEW t \in Nat
    PROVE  Units(c, t) <= Units(d, t)
  <1>1. NDays \in Nat /\ NDays > 0
    BY PremisesAssumption
  <1>2. c * t <= d * t
    <2>1. d * t = c * t + (d - c) * t
      OBVIOUS
    <2>2. d - c \in Nat /\ (d - c) * t \in Nat /\ c * t \in Nat
      OBVIOUS
    <2> QED
      BY <2>1, <2>2
  <1>3. \A a, b, n \in Nat : a <= b /\ n > 0 => a \div n <= b \div n
    OBVIOUS
  <1>4. c * t + NDays \in Nat /\ d * t + NDays \in Nat /\ c * t + NDays <= d * t + NDays
        /\ 2 * NDays \in Nat /\ 2 * NDays > 0
    BY <1>1, <1>2
  <1> QED
    BY <1>3, <1>4 DEF Units

\* Whatever was sold: the target is no lower than the reorder point, nor than
\* what a series opens with.
LEMMA PolicyFacts ==
    ASSUME NEW t \in Nat
    PROVE  /\ Units(PointCover, t) \in Nat /\ Units(TargetCover, t) \in Nat
           /\ Units(PointCover, t) <= Units(TargetCover, t)
           /\ \A c \in OpeningCover : /\ Units(c, t) \in Nat
                                      /\ Units(c, t) <= Units(TargetCover, t)
  <1>1. /\ PointCover \in Nat /\ TargetCover \in Nat /\ PointCover <= TargetCover
        /\ \A c \in OpeningCover : c \in Nat /\ c <= TargetCover
    BY PremisesAssumption
  <1> QED
    BY <1>1, UnitsType, UnitsGrow

\* A sold day is a number of the demand's range.
LEMMA ServedFacts ==
    ASSUME NEW asked \in Nat, NEW stock \in Nat
    PROVE  /\ Served(asked, stock) \in 0..asked
           /\ stock - Served(asked, stock) \in Nat
           /\ Served(asked, stock) < asked => Served(asked, stock) = stock
  BY DEF Served

(***************************************************************************)
(* Between the rows.                                                       *)
(***************************************************************************)
\* What is on its way is what the rows of the last Lead days ordered.
Flight ==
    \A e \in DueDays :
        arrivals[e] = IF e >= day /\ e - Lead \in Folded THEN ledger[e - Lead].ordered ELSE 0

\* Only e is on its way, in these arrivals.
Only(due, e) == due[e] > 0 /\ \A x \in DueDays : x # e => due[x] = 0

\* The lock is closed over one order, and open over none.
Locked ==
    IF orderOpen
    THEN \E e \in DueDays : Only(arrivals, e)
    ELSE \A e \in DueDays : arrivals[e] = 0

\* The shelf has room for whatever is to come.
Room == \A e \in DueDays : balance + arrivals[e] <= Target

\* A row follows from the one before, and is whole in itself.
Chained ==
    /\ day > 1 => balance = ledger[day - 1].closing
    /\ \A d \in Folded :
         /\ ledger[d].served + ledger[d].short = demand[d]
         /\ ledger[d].short > 0 => ledger[d].closing = 0
         /\ d > 1 => ledger[d].opening = ledger[d - 1].closing

\* The units of the whole window.
Balanced ==
    balance + InTransit + SumTo([d \in Folded |-> ledger[d].served], day - 1)
        = Units(cover, Total) + SumTo([d \in Folded |-> ledger[d].ordered], day - 1)

LedgerInv ==
    /\ LedgerTypeOK
    /\ Flight
    /\ Locked
    /\ Room
    /\ Chained
    /\ Balanced
    /\ ArrivalsAreTheOrders
    /\ OutagesEnd

LEMMA SizesAreNumbers ==
    /\ NDays \in Nat /\ NDays > 0
    /\ Lead \in Nat /\ Lead > 0
    /\ MaxDemand \in Nat
  BY PremisesAssumption

LEMMA TotalIsNumber ==
    ASSUME LedgerTypeOK
    PROVE  Total \in Nat
  <1>1. \A d \in 1..NDays : demand[d] \in Nat
    BY SizesAreNumbers DEF LedgerTypeOK, Days
  <1> QED
    BY <1>1, SumType, SizesAreNumbers DEF Total

LEMMA LedgerInitHolds == LedgerInit => LedgerInv
  <1> SUFFICES ASSUME LedgerInit
               PROVE  LedgerInv
    OBVIOUS
  <1> USE SizesAreNumbers
  <1>1. Folded = {} /\ day = 1
    BY DEF LedgerInit, Folded
  <1>2. Total \in Nat
    <2>1. \A d \in 1..NDays : demand[d] \in Nat
      BY DEF LedgerInit, Days
    <2> QED
      BY <2>1, SumType DEF Total
  <1>3. balance \in Nat /\ balance <= Target /\ balance = Units(cover, Total)
    BY <1>2, PolicyFacts DEF LedgerInit, Target
  <1>4. LedgerTypeOK
    <2>1. arrivals \in [DueDays -> Nat] /\ orderOpen \in BOOLEAN
      BY DEF LedgerInit
    <2>2. ledger \in [Folded -> Row]
      BY <1>1 DEF LedgerInit
    <2>3. demand \in [Days -> 0..MaxDemand] /\ cover \in OpeningCover /\ day \in 1..(NDays + 1)
      BY DEF LedgerInit
    <2> QED
      BY <1>3, <2>1, <2>2, <2>3 DEF LedgerTypeOK
  <1>5. \A e \in DueDays : arrivals[e] = 0
    BY DEF LedgerInit
  <1>6. Flight
    BY <1>1, <1>5 DEF Flight
  <1>7. Locked
    BY <1>5 DEF LedgerInit, Locked
  <1>8. Room
    BY <1>3, <1>5 DEF Room
  <1>9. Chained
    BY <1>1 DEF Chained
  <1>10. Balanced
    <2>1. InTransit = 0
      BY <1>5, SumOfNone DEF InTransit, DueDays
    <2>2. \A f : SumTo(f, day - 1) = 0
      BY <1>1, SumStep
    <2> QED
      BY <1>3, <2>1, <2>2 DEF Balanced
  <1>11. ArrivalsAreTheOrders /\ OutagesEnd
    BY <1>1 DEF ArrivalsAreTheOrders, OutagesEnd
  <1> QED
    BY <1>4, <1>6, <1>7, <1>8, <1>9, <1>10, <1>11 DEF LedgerInv

\* A day of the fold, in numbers: what it received, sold and ordered.
DayIs(received, sold, closing, open, ordered) ==
    /\ day \in Days /\ day' = day + 1
    /\ demand' = demand /\ cover' = cover
    /\ received = arrivals[day]
    /\ sold \in 0..demand[day]
    /\ closing = (balance + received) - sold
    /\ sold < demand[day] => closing = 0
    /\ open = (orderOpen /\ received = 0)
    /\ IF closing < Point /\ ~open
       THEN ordered = Target - closing /\ ordered > 0
       ELSE ordered = 0
    /\ balance' = closing
    /\ arrivals' \in [DueDays -> Nat]
    /\ \A e \in DueDays :
          arrivals'[e] = IF e = day THEN 0
                         ELSE IF e = day + Lead THEN ordered ELSE arrivals[e]
    /\ orderOpen' = (open \/ ordered > 0)
    /\ ledger' \in [1..day -> Row]
    /\ \A d \in 1..(day - 1) : ledger'[d] = ledger[d]
    /\ ledger'[day] = [opening |-> balance, received |-> received,
                       demanded |-> demand[day], served |-> sold,
                       short |-> demand[day] - sold, closing |-> closing,
                       ordered |-> ordered]

LEMMA DayInNumbers ==
    ASSUME LedgerInv, FoldDay
    PROVE  \E received, sold, closing, ordered \in Nat, open \in BOOLEAN :
             DayIs(received, sold, closing, open, ordered)
  <1> USE SizesAreNumbers
  <1> DEFINE received == arrivals[day]
             open == orderOpen /\ received = 0
             stock == balance + received
             sold == Served(demand[day], stock)
             closing == stock - sold
             ordered == Ordered(closing, open)
             row == [opening |-> balance, received |-> received,
                     demanded |-> demand[day], served |-> sold,
                     short |-> demand[day] - sold, closing |-> closing,
                     ordered |-> ordered]
  <1>1. day \in Days /\ day \in Nat /\ day \in DueDays /\ day + Lead \in DueDays /\ day # day + Lead
    BY DEF FoldDay, Days, DueDays
  <1>2. received \in Nat /\ demand[day] \in 0..MaxDemand /\ demand[day] \in Nat /\ balance \in Nat
    BY <1>1 DEF LedgerInv, LedgerTypeOK
  <1>3. stock \in Nat
    BY <1>2
  <1>4. sold \in 0..demand[day] /\ closing \in Nat /\ (sold < demand[day] => closing = 0)
    <2>1. /\ Served(demand[day], stock) \in 0..demand[day]
          /\ stock - Served(demand[day], stock) \in Nat
          /\ Served(demand[day], stock) < demand[day] => Served(demand[day], stock) = stock
      <3> HIDE DEF stock
      <3> QED
        BY <1>2, <1>3, ServedFacts
    <2> HIDE DEF stock
    <2> QED
      BY <1>3, <2>1
  <1>5. Point \in Nat /\ Target \in Nat /\ Point <= Target
    BY TotalIsNumber, PolicyFacts DEF LedgerInv, Point, Target
  <1>6. /\ ordered \in Nat
        /\ IF closing < Point /\ ~open
           THEN ordered = Target - closing /\ ordered > 0
           ELSE ordered = 0
    <2> HIDE DEF closing, open
    <2> QED
      BY <1>4, <1>5 DEF Ordered
  <1>7. /\ demand' = demand /\ cover' = cover /\ day' = day + 1
        /\ balance' = closing
        /\ arrivals' = IF ordered > 0
                       THEN [[arrivals EXCEPT ![day] = 0] EXCEPT ![day + Lead] = @ + ordered]
                       ELSE [arrivals EXCEPT ![day] = 0]
        /\ orderOpen' = (open \/ ordered > 0)
        /\ ledger' = [d \in 1..day |-> IF d = day THEN row ELSE ledger[d]]
    BY DEF FoldDay, Remaining, Due
  <1>8. arrivals \in [DueDays -> Nat] /\ arrivals[day + Lead] = 0
    BY <1>1 DEF LedgerInv, LedgerTypeOK, Flight, Folded
  <1> HIDE DEF received, open, sold, closing, ordered
  <1>9. /\ arrivals' \in [DueDays -> Nat]
        /\ \A e \in DueDays :
              arrivals'[e] = IF e = day THEN 0
                             ELSE IF e = day + Lead THEN ordered ELSE arrivals[e]
    <2>1. CASE ordered > 0
      <3> DEFINE kept == [arrivals EXCEPT ![day] = 0]
      <3>1. /\ kept \in [DueDays -> Nat] /\ kept[day + Lead] = 0
            /\ \A e \in DueDays : kept[e] = IF e = day THEN 0 ELSE arrivals[e]
        BY <1>1, <1>8
      <3>2. arrivals' = [kept EXCEPT ![day + Lead] = @ + ordered]
        BY <1>7, <2>1
      <3> HIDE DEF kept
      <3>3. /\ arrivals' \in [DueDays -> Nat]
            /\ \A e \in DueDays : arrivals'[e] = IF e = day + Lead THEN ordered ELSE kept[e]
        BY <1>1, <1>6, <3>1, <3>2
      <3> QED
        BY <1>1, <3>1, <3>3
    <2>2. CASE ~(ordered > 0)
      <3>1. ordered = 0
        BY <1>6, <2>2
      <3>2. arrivals' = [e \in DueDays |-> IF e = day THEN 0 ELSE arrivals[e]]
        BY <1>1, <1>7, <1>8, <2>2
      <3> QED
        BY <1>1, <1>8, <3>1, <3>2
    <2> QED
      BY <2>1, <2>2
  <1>10. /\ ledger' \in [1..day -> Row]
         /\ \A d \in 1..(day - 1) : ledger'[d] = ledger[d]
         /\ ledger'[day] = row
    <2>1. row \in Row
      <3>1. demand[day] - sold \in 0..MaxDemand /\ sold \in 0..MaxDemand
        BY <1>2, <1>4
      <3> QED
        BY <1>2, <1>4, <1>6, <3>1 DEF Row, received
    <2>2. ledger \in [1..(day - 1) -> Row]
      BY DEF LedgerInv, LedgerTypeOK, Folded
    <2> HIDE DEF row
    <2>3. \A d \in 1..day : d # day => d \in 1..(day - 1)
      BY <1>1
    <2>4. \A d \in 1..day : (IF d = day THEN row ELSE ledger[d]) \in Row
      BY <2>1, <2>2, <2>3
    <2>5. day \in 1..day /\ \A d \in 1..(day - 1) : d \in 1..day /\ d # day
      BY <1>1 DEF Days
    <2> QED
      BY <1>7, <2>4, <2>5
  <1>11. received \in Nat /\ sold \in Nat /\ ordered \in Nat /\ received = arrivals[day]
    <2>1. received = arrivals[day]
      BY DEF received
    <2> QED
      BY <1>2, <1>4, <1>6, <2>1
  <1>12. closing = (balance + received) - sold /\ open = (orderOpen /\ received = 0)
    <2>1. closing = (balance + received) - sold
      BY DEF closing
    <2>2. open = (orderOpen /\ received = 0)
      BY DEF open
    <2> QED
      BY <2>1, <2>2, Zenon
  <1>13. open \in BOOLEAN
    BY DEF open
  <1>14. DayIs(received, sold, closing, open, ordered)
    <2>1. ledger'[day] = [opening |-> balance, received |-> received,
                         demanded |-> demand[day], served |-> sold,
                         short |-> demand[day] - sold, closing |-> closing,
                         ordered |-> ordered]
      BY <1>10
    <2>2. arrivals' \in [DueDays -> Nat] /\ ledger' \in [1..day -> Row]
          /\ \A d \in 1..(day - 1) : ledger'[d] = ledger[d]
      BY <1>9, <1>10
    <2>3. \A e \in DueDays :
             arrivals'[e] = IF e = day THEN 0
                            ELSE IF e = day + Lead THEN ordered ELSE arrivals[e]
      BY <1>9
    <2>4. day \in Days /\ day' = day + 1 /\ demand' = demand /\ cover' = cover
          /\ balance' = closing /\ orderOpen' = (open \/ ordered > 0)
      BY <1>1, <1>7
    <2> HIDE DEF row, stock
    <2> QED
      BY <1>4, <1>6, <1>11, <1>12, <2>1, <2>2, <2>3, <2>4, Zenon DEF DayIs
  <1> QED
    BY <1>4, <1>11, <1>13, <1>14

LEMMA FoldKeeps ==
    ASSUME LedgerInv, FoldDay
    PROVE  LedgerInv'
  <1> USE SizesAreNumbers
  <1>1. PICK received \in Nat, sold \in Nat, closing \in Nat, ordered \in Nat, open \in BOOLEAN :
              DayIs(received, sold, closing, open, ordered)
    BY DayInNumbers
  <1>2. /\ day \in 1..NDays /\ day \in Nat /\ day' = day + 1 /\ Folded' = 1..day
        /\ day \in DueDays /\ day + Lead \in DueDays
        /\ \A d \in 1..day : d # day => d \in Folded
    BY <1>1 DEF DayIs, Days, DueDays, Folded
  <1>3. /\ Total' = Total /\ Point' = Point /\ Target' = Target
        /\ Units(cover, Total)' = Units(cover, Total)
    BY <1>1 DEF DayIs, Total, Point, Target, Units
  <1>4. Point \in Nat /\ Target \in Nat /\ Point <= Target
    BY TotalIsNumber, PolicyFacts DEF LedgerInv, Point, Target
  <1>5. /\ balance \in Nat /\ arrivals \in [DueDays -> Nat] /\ demand[day] \in 0..MaxDemand
        /\ demand[day] \in Nat
        /\ orderOpen \in BOOLEAN
    BY <1>2 DEF LedgerInv, LedgerTypeOK, Days
  <1>6. /\ received = arrivals[day]
        /\ sold <= demand[day]
        /\ closing = (balance + received) - sold
        /\ sold < demand[day] => closing = 0
        /\ balance' = closing
        /\ demand' = demand
    BY <1>1, <1>5 DEF DayIs
  <1>7. \A e \in DueDays :
           arrivals'[e] = IF e = day THEN 0
                          ELSE IF e = day + Lead THEN ordered ELSE arrivals[e]
    BY <1>1 DEF DayIs
  <1>8. /\ \A d \in Folded : ledger'[d] = ledger[d]
        /\ ledger'[day].opening = balance
        /\ ledger'[day].received = received
        /\ ledger'[day].served = sold
        /\ ledger'[day].short = demand[day] - sold
        /\ ledger'[day].closing = closing
        /\ ledger'[day].ordered = ordered
    BY <1>1 DEF DayIs, Folded
  <1>9. /\ open = (orderOpen /\ received = 0)
        /\ orderOpen' = (open \/ ordered > 0)
    BY <1>1 DEF DayIs
  <1>10. IF closing < Point /\ ~open
         THEN ordered = Target - closing /\ ordered > 0
         ELSE ordered = 0
    BY <1>1 DEF DayIs
  <1>11. \* what is left on its way when the day's arrival is in
         IF open THEN \E e \in DueDays : e # day /\ Only(arrivals, e)
         ELSE \A e \in DueDays : e # day => arrivals[e] = 0
    <2>1. CASE open
      <3>1. orderOpen /\ arrivals[day] = 0
        BY <1>6, <1>9, <2>1
      <3>2. PICK e \in DueDays : Only(arrivals, e)
        BY <3>1 DEF LedgerInv, Locked
      <3>3. e # day
        BY <3>1, <3>2 DEF Only
      <3> QED
        BY <2>1, <3>2, <3>3
    <2>2. CASE ~open
      <3>1. CASE orderOpen
        <4>1. arrivals[day] # 0
          BY <1>6, <1>9, <2>2, <3>1
        <4>2. PICK e \in DueDays : Only(arrivals, e)
          BY <3>1 DEF LedgerInv, Locked
        <4>3. e = day
          BY <1>2, <4>1, <4>2 DEF Only
        <4> QED
          BY <2>2, <4>2, <4>3 DEF Only
      <3>2. CASE ~orderOpen
        BY <2>2, <3>2 DEF LedgerInv, Locked
      <3> QED
        BY <3>1, <3>2
    <2> QED
      BY <2>1, <2>2
  <1>12. LedgerTypeOK'
    <2>1. demand' \in [Days -> 0..MaxDemand] /\ cover' \in OpeningCover
      BY <1>1 DEF DayIs, LedgerInv, LedgerTypeOK
    <2>2. day' \in 1..(NDays + 1)
      BY <1>2
    <2>3. balance' \in Nat /\ orderOpen' \in BOOLEAN
      BY <1>1 DEF DayIs
    <2>4. arrivals' \in [DueDays -> Nat]
      BY <1>1 DEF DayIs
    <2>5. ledger' \in [Folded' -> Row]
      BY <1>1, <1>2 DEF DayIs
    <2> QED
      BY <2>1, <2>2, <2>3, <2>4, <2>5 DEF LedgerTypeOK
  <1>13. Flight'
    <2> SUFFICES ASSUME NEW e \in DueDays
                 PROVE  arrivals'[e] = IF e >= day + 1 /\ e - Lead \in 1..day
                                       THEN ledger'[e - Lead].ordered ELSE 0
      BY <1>2 DEF Flight
    <2>1. e \in Nat
      BY DEF DueDays
    <2>2. arrivals[e] = IF e >= day /\ e - Lead \in Folded THEN ledger[e - Lead].ordered ELSE 0
      BY DEF LedgerInv, Flight
    <2>3. CASE e = day
      BY <1>2, <1>7, <2>3
    <2>4. CASE e = day + Lead
      <3>1. e - Lead = day /\ e >= day + 1 /\ e - Lead \in 1..day /\ e # day
        BY <1>2, <2>4
      <3> QED
        BY <1>7, <1>8, <2>4, <3>1
    <2>5. CASE e # day /\ e # day + Lead
      <3>1. /\ e >= day <=> e >= day + 1
            /\ e - Lead \in Folded <=> e - Lead \in 1..day
        BY <1>2, <2>1, <2>5 DEF Folded
      <3>2. arrivals'[e] = arrivals[e]
        BY <1>7, <2>5
      <3> QED
        BY <1>8, <2>2, <3>1, <3>2
    <2> QED
      BY <2>3, <2>4, <2>5
  <1>14. Locked'
    <2>1. CASE ordered > 0
      <3>1. orderOpen' /\ ~open
        <4>1. ordered # 0
          BY <2>1
        <4> QED
          BY <1>9, <1>10, <2>1, <4>1, Zenon
      <3>2. Only(arrivals', day + Lead)
        <4>1. arrivals'[day + Lead] = ordered
          BY <1>2, <1>7
        <4>2. \A x \in DueDays : x # day + Lead => arrivals'[x] = 0
          BY <1>7, <1>11, <3>1
        <4> QED
          BY <2>1, <4>1, <4>2 DEF Only
      <3> QED
        BY <1>2, <3>1, <3>2 DEF Locked, DueDays
    <2>2. CASE ordered = 0 /\ open
      <3>1. orderOpen'
        BY <1>9, <2>2
      <3>2. PICK e \in DueDays : e # day /\ Only(arrivals, e)
        BY <1>11, <2>2
      <3>3. e # day + Lead
        <4>1. arrivals[day + Lead] = 0
          BY <1>2 DEF LedgerInv, Flight, Folded
        <4> QED
          BY <3>2, <4>1 DEF Only
      <3>4. arrivals'[e] > 0
        BY <1>7, <3>2, <3>3 DEF Only
      <3>5. \A x \in DueDays : x # e => arrivals'[x] = 0
        BY <1>7, <2>2, <3>2 DEF Only
      <3> QED
        BY <3>1, <3>4, <3>5 DEF Locked, Only, DueDays
    <2>3. CASE ordered = 0 /\ ~open
      <3>1. ~orderOpen'
        <4>1. ~(ordered > 0)
          BY <2>3
        <4> QED
          BY <1>9, <2>3, <4>1, Zenon
      <3>2. \A e \in DueDays : arrivals'[e] = 0
        BY <1>7, <1>11, <2>3
      <3> QED
        BY <3>1, <3>2 DEF Locked, DueDays
    <2> QED
      BY <2>1, <2>2, <2>3
  <1>15. Room'
    <2> SUFFICES ASSUME NEW e \in DueDays
                 PROVE  closing + arrivals'[e] <= Target
      BY <1>3, <1>6 DEF Room, DueDays
    <2>1. balance + arrivals[day] <= Target /\ balance + arrivals[e] <= Target
      BY <1>2 DEF LedgerInv, Room
    <2>2. arrivals[e] \in Nat /\ arrivals[day] \in Nat
      BY <1>2, <1>5
    <2>3. closing <= Target
      BY <1>4, <1>5, <1>6, <2>1, <2>2
    <2>4. CASE e = day
      BY <1>7, <2>3, <2>4
    <2>5. CASE e = day + Lead
      BY <1>2, <1>4, <1>7, <1>10, <2>3, <2>5
    <2>6. CASE e # day /\ e # day + Lead
      <3>1. arrivals'[e] = arrivals[e]
        BY <1>7, <2>6
      <3>2. arrivals[e] = 0 \/ received = 0
        BY <1>9, <1>11, <2>6
      <3> QED
        BY <1>4, <1>5, <1>6, <2>1, <2>2, <2>3, <3>1, <3>2
    <2> QED
      BY <2>4, <2>5, <2>6
  <1>16. Chained'
    <2>1. day' > 1 => balance' = ledger'[day' - 1].closing
      BY <1>2, <1>6, <1>8
    <2>2. ASSUME NEW d \in 1..day
          PROVE  /\ ledger'[d].served + ledger'[d].short = demand[d]
                 /\ ledger'[d].short > 0 => ledger'[d].closing = 0
                 /\ d > 1 => ledger'[d].opening = ledger'[d - 1].closing
      <3>1. CASE d = day
        <4>1. day > 1 => balance = ledger[day - 1].closing
          BY DEF LedgerInv, Chained
        <4>2. day > 1 => day - 1 \in Folded
          BY <1>2 DEF Folded
        <4>3. demand[day] - sold > 0 => sold < demand[day]
          BY <1>5
        <4> QED
          BY <1>5, <1>6, <1>8, <3>1, <4>1, <4>2, <4>3
      <3>2. CASE d # day
        <4>1. d \in Folded /\ (d > 1 => d - 1 \in Folded)
          BY <1>2, <3>2 DEF Folded
        <4> QED
          BY <1>8, <4>1 DEF LedgerInv, Chained
      <3> QED
        BY <3>1, <3>2
    <2> QED
      BY <1>2, <1>6, <2>1, <2>2 DEF Chained
  <1>17. Balanced'
    <2> DEFINE n == NDays + Lead
               served == [d \in Folded |-> ledger[d].served]
               asked == [d \in Folded |-> ledger[d].ordered]
               servedNow == [d \in 1..day |-> ledger'[d].served]
               askedNow == [d \in 1..day |-> ledger'[d].ordered]
               emptied == [e \in DueDays |-> IF e = day THEN 0 ELSE arrivals[e]]
    <2>1. n \in Nat /\ DueDays = 1..n
      BY DEF DueDays
    <2>2. SumTo(emptied, n) = SumTo(arrivals, n) - received
      <3>1. \A k \in 1..n : arrivals[k] \in Nat /\ emptied[k] \in Nat
        BY <1>5, <2>1
      <3>2. \A k \in 1..n : k # day => arrivals[k] = emptied[k]
        BY <2>1
      <3>3. emptied[day] = 0 /\ day \in 1..n
        BY <1>2, <2>1
      <3>4. SumTo(arrivals, n) \in Nat
        BY <2>1, <3>1, SumType
      <3> HIDE DEF emptied, n
      <3>5. SumTo(emptied, n) = SumTo(arrivals, n) - arrivals[day] + emptied[day]
        <4>1. OneApart(arrivals, emptied, n, day)
          BY <3>1, <3>2 DEF OneApart
        <4> QED
          BY <2>1, <3>3, <4>1, SumMoves
      <3> QED
        BY <1>6, <3>3, <3>4, <3>5
    <2>3. SumTo(arrivals', n) = SumTo(emptied, n) + ordered
      <3>1. \A k \in 1..n : arrivals'[k] \in Nat /\ emptied[k] \in Nat
        BY <1>5, <1>7, <2>1
      <3>2. \A k \in 1..n : k # day + Lead => emptied[k] = arrivals'[k]
        BY <1>7, <2>1
      <3>3. /\ day + Lead \in 1..n
            /\ emptied[day + Lead] = 0
            /\ arrivals'[day + Lead] = ordered
        <4>1. arrivals[day + Lead] = 0
          BY <1>2 DEF LedgerInv, Flight, Folded
        <4> QED
          BY <1>2, <1>7, <2>1, <4>1
      <3>4. SumTo(emptied, n) \in Nat
        BY <2>1, <3>1, SumType
      <3> HIDE DEF emptied, n
      <3>5. SumTo(arrivals', n)
              = SumTo(emptied, n) - emptied[day + Lead] + arrivals'[day + Lead]
        <4>1. OneApart(emptied, arrivals', n, day + Lead)
          BY <3>1, <3>2 DEF OneApart
        <4> QED
          BY <2>1, <3>3, <4>1, SumMoves
      <3> QED
        BY <3>3, <3>4, <3>5
    <2>4. SumTo(servedNow, day) = SumTo(served, day - 1) + sold
      <3>1. \A k \in 1..(day - 1) : served[k] = servedNow[k]
        BY <1>2, <1>8 DEF Folded
      <3>2. servedNow[day] = sold
        BY <1>2, <1>8
      <3> HIDE DEF served, servedNow
      <3>3. day - 1 \in Nat /\ day > 0
        BY <1>2
      <3>4. SumTo(served, day - 1) = SumTo(servedNow, day - 1)
        BY <3>1, <3>3, SumSame
      <3> QED
        BY <1>2, <3>2, <3>3, <3>4, SumStep
    <2>5. SumTo(askedNow, day) = SumTo(asked, day - 1) + ordered
      <3>1. \A k \in 1..(day - 1) : asked[k] = askedNow[k]
        BY <1>2, <1>8 DEF Folded
      <3>2. askedNow[day] = ordered
        BY <1>2, <1>8
      <3> HIDE DEF asked, askedNow
      <3>3. day - 1 \in Nat /\ day > 0
        BY <1>2
      <3>4. SumTo(asked, day - 1) = SumTo(askedNow, day - 1)
        BY <3>1, <3>3, SumSame
      <3> QED
        BY <1>2, <3>2, <3>3, <3>4, SumStep
    <2>6. /\ SumTo(arrivals, n) \in Nat
          /\ SumTo(served, day - 1) \in Nat /\ SumTo(asked, day - 1) \in Nat
          /\ Units(cover, Total) \in Nat
      <3>1. \A k \in 1..n : arrivals[k] \in Nat
        BY <1>5, <2>1
      <3>2. \A k \in 1..(day - 1) : served[k] \in Nat /\ asked[k] \in Nat
        BY SizesAreNumbers DEF LedgerInv, LedgerTypeOK, Row, Folded
      <3> HIDE DEF n, served, asked
      <3>3. day - 1 \in Nat
        BY <1>2
      <3>4. Units(cover, Total) \in Nat
        BY TotalIsNumber, PolicyFacts DEF LedgerInv, LedgerTypeOK
      <3> QED
        BY <2>1, <3>1, <3>2, <3>3, <3>4, SumType
    <2>7. balance + SumTo(arrivals, n) + SumTo(served, day - 1)
            = Units(cover, Total) + SumTo(asked, day - 1)
      BY DEF LedgerInv, Balanced, InTransit
    <2>8. /\ InTransit' = SumTo(arrivals', n)
          /\ SumTo([d \in Folded |-> ledger[d].served], day - 1)' = SumTo(servedNow, day)
          /\ SumTo([d \in Folded |-> ledger[d].ordered], day - 1)' = SumTo(askedNow, day)
      <3>1. (day - 1)' = day
        BY <1>2
      <3> QED
        BY <1>2, <3>1 DEF InTransit
    <2> HIDE DEF n, served, asked, servedNow, askedNow, emptied
    <2>9. closing + SumTo(arrivals', n) + SumTo(servedNow, day)
            = Units(cover, Total) + SumTo(askedNow, day)
      BY <1>5, <1>6, <2>2, <2>3, <2>4, <2>5, <2>6, <2>7
    <2> QED
      BY <1>3, <1>6, <2>8, <2>9 DEF Balanced
  <1>18. ArrivalsAreTheOrders'
    <2> SUFFICES ASSUME NEW d \in 1..day
                 PROVE  IF d > Lead THEN ledger'[d].received = ledger'[d - Lead].ordered
                        ELSE ledger'[d].received = 0
      BY <1>2 DEF ArrivalsAreTheOrders
    <2>1. d > Lead => d - Lead \in Folded
      BY <1>2 DEF Folded
    <2>2. CASE d = day
      <3>1. arrivals[day] = IF day - Lead \in Folded THEN ledger[day - Lead].ordered ELSE 0
        BY <1>2 DEF LedgerInv, Flight
      <3>2. day - Lead \in Folded => day > Lead
        BY <1>2 DEF Folded
      <3> QED
        BY <1>2, <1>6, <1>8, <2>1, <2>2, <3>1, <3>2
    <2>3. CASE d # day
      <3>1. d \in Folded
        BY <1>2, <2>3
      <3> QED
        BY <1>8, <2>1, <3>1 DEF LedgerInv, ArrivalsAreTheOrders
    <2> QED
      BY <2>2, <2>3
  <1>19. OutagesEnd'
    <2> SUFFICES ASSUME Point > 0, NEW d \in 1..day, ledger'[d].short > 0
                 PROVE  \E o \in 1..day : o <= d /\ o + Lead > d /\ ledger'[o].ordered > 0
      BY <1>2, <1>3 DEF OutagesEnd
    <2>1. CASE d = day
      <3>1. closing = 0
        BY <1>5, <1>6, <1>8, <2>1
      <3>2. CASE open
        <4>1. PICK e \in DueDays : e # day /\ Only(arrivals, e)
          BY <1>11, <3>2
        <4>2. e >= day /\ e - Lead \in Folded /\ ledger[e - Lead].ordered > 0
          BY <4>1 DEF LedgerInv, Flight, Only
        <4>3. e - Lead \in 1..day /\ e - Lead <= day /\ (e - Lead) + Lead > day
          BY <1>2, <4>1, <4>2 DEF Folded, DueDays
        <4> QED
          BY <1>8, <2>1, <4>2, <4>3
      <3>3. CASE ~open
        <4>1. ordered > 0
          BY <1>4, <1>10, <3>1, <3>3
        <4> QED
          BY <1>2, <1>8, <2>1, <4>1
      <3> QED
        BY <3>2, <3>3
    <2>2. CASE d # day
      <3>1. d \in Folded /\ ledger[d].short > 0
        BY <1>2, <1>8, <2>2
      <3>2. PICK o \in Folded : o <= d /\ o + Lead > d /\ ledger[o].ordered > 0
        BY <3>1 DEF LedgerInv, OutagesEnd
      <3>3. o \in 1..day
        BY <1>2 DEF Folded
      <3> QED
        BY <1>8, <3>2, <3>3
    <2> QED
      BY <2>1, <2>2
  <1> QED
    BY <1>12, <1>13, <1>14, <1>15, <1>16, <1>17, <1>18, <1>19 DEF LedgerInv

LEMMA LedgerStepKeeps ==
    ASSUME LedgerInv, [LedgerNext]_ledgerVars
    PROVE  LedgerInv'
  <1>1. CASE LedgerNext
    BY <1>1, FoldKeeps DEF LedgerNext
  <1>2. CASE UNCHANGED ledgerVars
    BY <1>2 DEF ledgerVars, LedgerInv, LedgerTypeOK, Flight, Locked, Room, Chained, Balanced,
                ArrivalsAreTheOrders, OutagesEnd, Only, Folded, InTransit, Total, Point, Target
  <1> QED
    BY <1>1, <1>2

(***************************************************************************)
(* What it comes to.                                                       *)
(***************************************************************************)
\* One order under way is one day that something is due, and no order none.
LEMMA LockCounts ==
    ASSUME LedgerInv
    PROVE  LockIsTheOrder
  <1>1. arrivals \in [DueDays -> Nat]
    BY DEF LedgerInv, LedgerTypeOK
  <1>2. CASE orderOpen
    <2>1. PICK e \in DueDays : Only(arrivals, e)
      BY <1>2 DEF LedgerInv, Locked
    <2>2. {d \in DueDays : arrivals[d] > 0} = {e}
      BY <2>1 DEF Only
    <2>3. Cardinality({e}) = 1
      BY FS_Singleton
    <2> QED
      BY <1>2, <2>2, <2>3 DEF LockIsTheOrder
  <1>3. CASE ~orderOpen
    <2>1. {d \in DueDays : arrivals[d] > 0} = {}
      BY <1>3 DEF LedgerInv, Locked
    <2>2. Cardinality({}) = 0
      BY FS_EmptySet
    <2> QED
      BY <1>3, <2>1, <2>2 DEF LockIsTheOrder
  <1> QED
    BY <1>2, <1>3

\* With room for each arrival and one arrival at a time there is room for all.
LEMMA RoomForAll ==
    ASSUME LedgerInv
    PROVE  NoStockPeak
  <1> DEFINE n == NDays + Lead
  <1>1. n \in Nat /\ 1 \in DueDays /\ DueDays = 1..n
    BY SizesAreNumbers DEF DueDays
  <1>2. /\ arrivals \in [DueDays -> Nat] /\ balance \in Nat
        /\ \A e \in DueDays : balance + arrivals[e] <= Target
    BY DEF LedgerInv, LedgerTypeOK, Room
  <1>3. Target \in Nat
    BY TotalIsNumber, PolicyFacts DEF LedgerInv, Target
  <1>4. \E e \in DueDays : SumTo(arrivals, n) = arrivals[e]
    <2>1. CASE orderOpen
      <3>1. PICK e \in DueDays : Only(arrivals, e)
        BY <2>1 DEF LedgerInv, Locked
      <3>2. e \in 1..n /\ arrivals[e] \in Nat /\ \A k \in 1..n : k # e => arrivals[k] = 0
        BY <1>1, <1>2, <3>1 DEF Only
      <3> HIDE DEF n
      <3> QED
        BY <1>1, <3>2, SumOfOne
    <2>2. CASE ~orderOpen
      <3>1. \A k \in 1..n : arrivals[k] = 0
        BY <1>1, <2>2 DEF LedgerInv, Locked
      <3> HIDE DEF n
      <3> QED
        BY <1>1, <3>1, SumOfNone
    <2> QED
      BY <2>1, <2>2
  <1>5. InTransit = SumTo(arrivals, n)
    BY DEF InTransit
  <1> HIDE DEF n
  <1> QED
    BY <1>2, <1>4, <1>5 DEF NoStockPeak

LEMMA InvAddsUp ==
    ASSUME LedgerInv
    PROVE  LedgerAddsUp
  <1>1. UnitsAreConserved
    BY DEF LedgerInv, Chained, Balanced, UnitsAreConserved
  <1> QED
    BY <1>1, LockCounts, RoomForAll DEF LedgerInv, LedgerAddsUp

\* At every day of the fold each arrival still to come is the order of the row
\* Lead days before its day, the lock stands for exactly one of them, and the
\* shelf has room for it.
THEOREM LedgerInvariantHolds == LedgerSpec => []LedgerInv
  <1>1. LedgerInit => LedgerInv
    BY LedgerInitHolds
  <1>2. LedgerInv /\ [LedgerNext]_ledgerVars => LedgerInv'
    BY LedgerStepKeeps
  <1> QED
    BY <1>1, <1>2, PTL DEF LedgerSpec

\* jobs/spark/stock_ledger.py, for any window, demand, lead time and covers the
\* premises admit: units are conserved over the whole window and not only row by
\* row, what arrives is what was ordered Lead days before, one order is open at a
\* time, shelf and order never exceed the target, and no outage outlasts an
\* order's way.
THEOREM LedgerHolds == LedgerSpec => []LedgerAddsUp
  <1>1. LedgerInv => LedgerAddsUp
    BY InvAddsUp
  <1> QED
    BY <1>1, LedgerInvariantHolds, PTL
=============================================================================
