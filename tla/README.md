# A TLA+ model of retail-lakehouse

The repository moves retail data from sources (a catalogue crawl, public
statistics, simulated customers and orders) through a RAW landing, dbt Silver models
and a warehouse, and has a second, streaming path for the orders: an OLTP database
with a transactional outbox, Kafka, and a read model `live_order_state`. This
directory models both: how partitions are written, resumed and landed, how the DAGs
chain it, what Silver and the warehouse are built from, how the simulated data are
drawn from their reference, and how an event travels from the log to the read model.
Theorems prove much of it for every value of the constants: the outbox, the streaming path,
the Iceberg read model and the consumer group, the landing, the source partitions, the Silver
gate and the stock ledger, the warehouse load and its roles, the customers and the order calendar.

Paths are abbreviated: `P` is `src/platform/src/retail_platform`, `S` is
`src/sources/simulated-orders-source/src/simulated_orders_source`, `D` is
`src/orchestration/airflow/dags`.

## 1. Inventory

| Component | State | Operations | What makes it correct | Module |
|---|---|---|---|---|
| Event vocabulary, state machine (`S/events.py`) | none | `apply_transition`, `envelope` | every legal lifecycle is accepted by every consumer's copy of the tables | `OrderEvents` |
| Orders generator (`S/orders_generator.py`, `premises.py`) | one log file per partition | `_lifecycle`, `is_scheduled`, `generate` | numbered without a hole; its instants in order and inside the calendar | `OrderLog`, `OrderCalendar` |
| OLTP applier (`P/orders_oltp.py`) | `orders`, `order_lines`, `order_payments`, `outbox` | `apply_event`, `apply_partition`, `plan`, `verify_outbox` | an order is the fold of its own outbox rows; no event lost, repeated or refused; the log comes out of the outbox as it went in | `OltpFold`, `OrdersOltp`, `EventSourcedOrders`, `OutboxCheck` |
| Outbox publisher (`P/orders_stream.py`) | `published_at`; row locks; produce queue | `publish_batch`, `publish` | at least once; a marked row can be recovered from the topic | `OrdersStream` |
| Topic, consumer group | partitions, committed offsets, members | append, poll, commit, rebalance, `reset_group` | external; per-partition order | `OrdersStream`, `ProjectorGroup` |
| Projector, Postgres (`P/orders_stream.py`) | batch in memory, `live_order_state` | `project`, `_flush`, `project_batch`, `decide`, `fold_event` | every row is the Silver fold of a committed prefix and never goes back | `OrdersStream`, `OrderFolds`, `LiveOrderState` |
| Iceberg projection (`P/orders_projection.py`) | table snapshots, a buffer and a handle per writer | `load`, `commit`, `rebuild`, `reset_table` | two writers never make a row regress or appear twice | `OrdersProjection`, `MonotonicTable` |
| Silver order fold, reconciliation (`silver_order.sql`, `reconcile`) | none | one query; a comparison | the three folds agree in every state | `OrderFolds`, `FoldAgreement` |
| Source partitions (`*/extract.py`, `intake.py`, `partition.py`, `validate.py`) | files, `_manifest.json`, `_SUCCESS` | extract, resume, overwrite, validate | a marked partition is closed, valid and left alone; an unmarked one can be completed | `CatalogExtract`, `PopulationExtract`, `CallejeroIntake`, `GeneratedPartition` |
| RAW landing (`P/land.py`, `verify.py`, `freeze.py`, `manifest.py`) | objects of a bucket, a seal | land, verify-landing, prune-local, freeze, freeze-check | a marker in the bucket implies a complete landing; the last copy is never pruned | `RawLanding` |
| Source DAGs (`D/*.py`) | task instances, tries | gates, retries, trigger rules | Silver runs on what was verified; every day gets in | `LandingDag` |
| Silver gate (`P/silver_gate.py`), stock plane (`P/stock_bridge.py`) | what landed, the seal, Iceberg metadata paths, parquet per model | `resolve`, `build` | a model is built only over inputs that exist; what is red has a cause outside the build | `SilverBuild` |
| Stock ledger (`src/jobs/spark/stock_ledger.py`) | balance, arrivals, open order per series | the day loop | units are conserved; one open order at a time, and it arrives | `StockLedger` |
| Warehouse cut and load (`P/warehouse_cut.py`, `postgres_load.py`, `snowflake_load.py`, `D/warehouse_load.py`) | cut, STAGE, table stages, GOLD, task retries | export-cut, load, dbt | a load replaces, a green run is fresh, and what earlier runs left does not get a load refused | `WarehouseLoad` |
| Warehouse roles (`P/snowflake_load.py`, `postgres_load.py`) | grants, owners, future grants | bootstrap, check_isolation | each role reads what the matrix gives it, no more | `WarehouseRoles` |
| Customer reference, base and DAG (`P/customers_reference.py`, simulated-oltp-source, `D/simulated_oltp_customers.py`) | three reference files, a partition per warehouse | export, extract, validate, land | the files cover one another; a fresh base is accepted; a landing nothing interrupts ends verified | `CustomerBase` |
| Order reference and orders of a day (`P/orders_reference.py`, `demand_profile.py`, `S/reference_data.py`, `S/validate.py`) | five reference files, a partition per warehouse and day | export, extract, validate | an order is grounded in the catalogue, the base and the demand of one export | `OrderReference` |
| Indicators, dashboards, evidence scripts, CLI | derived tables and pages | queries, rendering, printing | nothing concurrent and no protocol | not modelled |

How the parts hang together:

    Sources --extract--> local partition --land/verify--> bucket --dbt--> Silver
        Silver --reference export--> simulated Sources        (customers, orders)
        Silver --consumption--> Spark ledger --> Iceberg --> Silver
        Silver --export-cut--> parquet --load--> STAGE --dbt--> GOLD, MART

    orders log --apply_partition--> OLTP (orders + outbox in one transaction)
    outbox --publish_batch: lock, produce, flush, mark--> topic (key = order_id)
    topic --poll--> project_batch --one commit--> live_order_state (Postgres or Iceberg)
                        then consumer.commit() of the offsets

Nearly all of this is shared state without a lock: files of a partition replaced one
by one, objects of a prefix, parquet of Silver, tables of STAGE; on the streaming path
a transaction on each side of the topic and none across it. The hard behaviours are
therefore a death between two writes, a reader between two writes, a command repeated
over what the last one left, two writers that know nothing of each other, and time
(a day that ends, an offset that is ahead, an export that is newer). PROJECT.json lists the main
hazards that properties cover, each at its line. Known and covered by no property:

- refuted definitions of section 4 state them (and those of PROJECT.json that carry a note): a day landed and not yet projected fails
  the build (`P/silver_gate.py:80`), columns of now over rows of before
  (`P/snowflake_load.py:427`), a table only the optional plane makes (`P/warehouse_cut.py:479`), a
  check that cannot tell a missing table from a denied one (`P/snowflake_load.py:181`), a
  base that outlives its export (`D/simulated_oltp_customers.py:167`);
- `prune-local` killed inside `rmtree` may leave the marker without some files, and
  the order of a directory walk is not modelled (`P/cli.py:146`);
- `lead_time` 0, which no test excludes, is outside the ledger's assumption
  (`src/jobs/spark/stock_ledger.py:141`);
- `verify_log` hashes a file that `read_log` opens again (`P/orders_oltp.py:669`);
  `OrdersOltp` reads a log once;
- a band without an eligible customer (`S/reference_data.py:218`) and weights
  renormalised over missing products (`S/demand.py:291`) are numeric.

## 2. Modules

### The streaming path

**`OrderEvents`** holds the vocabulary and state machine of `events.py`. The OLTP and
the streaming consumer redeclare these tables rather than import them, so each copy
is translated on its own (`OltpBefore`, `OltpAfter`, `StateAfter`).

**`OrderLog`** is `_lifecycle`: each random draw is a component of a `fate`, and
`Lifecycle(order, fate)` is the log the source would write. The MC modules take all
their logs from here, so a run never meets a log the program cannot write.

**`OrderFolds`** has `decide` and `fold_event` (row + event) and `SilverOrder` (the dbt
query over a whole log), plus `IsOrderLog`, which states the guarantee of `emit` that
the proofs start from. **`OltpFold`** has `plan` of the OLTP, as `PlanHolds` (no
statement's row count is wrong) and `PlanEffect`. **`FoldAgreement`** appends one event
of a lifecycle at a time to the three folds, and states the comparison `reconcile` makes.

**`EventSourcedOrders`** is the promise of the outbox: an order moves by one event, and
state and event appear together. **`OrdersOltp`** implements it: appliers run
`apply_partition` on their files, each event is a transaction of an outbox insert
(skip if the `event_id` is committed, wait if another transaction holds it), the
plan, and the commit, and a process may die between any two of them. Statements of
one plan are one action, since they touch only the one order whose row is locked.
A file is what `validate` of the Source lets through (`OltpAssumption`): the events of an
order numbered from 1 without a gap (`S/validate.py:178`), in that order
(`S/validate.py:399`, `S/validate.py:550`), their payloads complete (`S/schema.py:47`).
`OrdersOltpProofs` has the proofs.
**`OutboxCheck`** adds `orders-outbox --verify`: the log of a day rebuilt from the
outbox rows of its orders (which may fall on the next day), each in the place the `order by`
of `rebuild_log` gives it. That the file is in this order is what the Source's validator
checks (`S/validate.py:550`, `CheckAssumption`).

**`LiveOrderState`** is the promise of the read model: each row is a prefix's Silver
fold, moves forward only, and is never ahead of the OLTP. **`OrdersStream`**
implements it. Correspondence with `orders_stream.py`:

| Action | Code |
|---|---|
| `AppendOutbox` | `apply_event` as the stream sees it (its detail is `OrdersOltp`) |
| `TakeBatch` | the `for update skip locked` query of `publish_batch` |
| `Accept`, `Reject` | `produce`, the broker's answer, `on_delivery`; a reject may or may not have kept the message |
| `MarkPublished`, `FailBatch` | after `flush`: update and commit, or roll back and raise |
| `StartProjector` | a member joins the group at the committed offsets |
| `Poll`, `BeginFlush` | the poll loop of `project`; `PostgresProjection.load` |
| `FoldNext` | one turn of `project_batch`'s loop |
| `SaveAndCommit` | `save`, `projection.commit` |
| `CommitOffset` | `consumer.commit`, then the raise of a strict run that met a gap |
| `IdleExit`, `Replay` | idle timeout; `reset_group` |
| `CrashPublisher`, `CrashProjector` | the process dies at any point |

**`OrdersProjection`** is the same consumer over `IcebergProjection`, with
`orders-rebuild-projection` beside it. Each writer holds a handle fixed at the snapshot
it loaded; a commit from an old one is refused, the handle reloaded and the buffer
compared again with what is there, up to `MAX_COMMIT_ATTEMPTS`. Reset is a drop and a
create, and what follows a reset is one append without that retry. A row is its
`last_sequence_no`: that equal numbers are equal rows is what `OrderFolds` is about. It
implements **`MonotonicTable`**: rows advance or the table is dropped.

**`ProjectorGroup`** is several `orders-project` processes in one group. What the
coordinator thinks (`group`, `owner`, `offsets`) and what a process holds (`read`, `pending`,
`fold`) are separate, so one that was evicted in mid-batch finishes it. `Sink` is the
Postgres upsert or the Iceberg commit; with the latter, and read from the beginning, offsets
follow the table, which is proved (section 5).

### Partitions, landing and DAGs

**`CatalogExtract`**, **`PopulationExtract`**, **`CallejeroIntake`** and
**`GeneratedPartition`** are the four ways a Source writes a partition. Each step is
one write of the program: preliminary manifest, removal of `_SUCCESS`, a reused,
downloaded, copied or failed file, the final manifest, the marker; a process may end between any two,
be started again with other arguments (`--overwrite`, `--limit`, another language, other
tables or provinces), and find files or a manifest damaged in between. `validate.py` of
each is the operator `Valid` (of the generator's, up to its coherence with a reference, which
is in `OrderReference`). They are separate modules because the programs differ where it matters:
the catalogue discovers what to download and writes its tree before anything else, the
population source declares the partition incomplete first, the Callejero never sweeps
its directory, and the generator has one file and one history. **`Sources`** puts the four
side by side, over one set of names, and states what all four promise.

**`RawLanding`** has `land` (manifest read twice, data, run log, manifest, `_SUCCESS`;
an object with the same bytes is skipped), `verify-landing`, `prune-local`, `freeze` and
`freeze-check` over the objects of one prefix. An object may be there and not be fetched, which
makes the verdict of a verification red and stops a prune (`CheckObject`). The Source is
external here: it publishes whole editions.

**`LandingDag`** is the scheduler of the five source DAGs: `guard_date` or
`export_reference`, then per branch gate, extract, validate, land, verify, then one shared
`silver` with its trigger rule. It has retries, short circuits, upstream failure, a pool
slot that delays past midnight, manual triggers. What a command does is abstracted to
its outcome.

### Silver and the warehouse

**`SilverBuild`** is `silver_gate` and the build: what landed is observed, then the
Iceberg tables, then models and tests run one by one while sources land, the stream
projects and the catalogue comes and goes. A version stands for what was landed: an even one
is whole, an odd one a landing that is under way or died there, in which a model may find
its files or, the first time, none (`MayBeMissing`). The tests of the suite that compare
models read from RAW at different moments are nodes as well (`Categories`,
`Reconciles`, `Priced`, `Live`), and so is the comparison of RAW with the capture that `freeze`
sealed (`Sealed`, `Freeze`). A test whose models are of one whole landing passes; any other
may be red, and `Priced` always may, since versions do not tell whether the catalogue of a day has
the prices of its orders. The stock plane closes a circle through all this
(`ExportConsumption`, `FoldLedger`).
**`StockLedger`** is the day loop for one series, with every demand of the window.

**`WarehouseLoad`** is one run of the DAG after another, into the warehouse `engine` names: `export-cut` table by table,
the loader's statements (what a session sees and what is committed differ on Postgres,
and do not on Snowflake), dbt, retries, while Silver is rebuilt. Any test of the dbt build may be
red, which skips what stands below it and fails the task (`BuildGold`, `EndBuild`): whether the
ledger covers the window of the orders, say, is a matter of rows in a Silver that is whole and still. **`WarehouseRoles`** is
the bootstrap, statement by statement on Snowflake and as a whole on Postgres, over
tables made, replaced or re-owned by the three roles and an administrator.

### References

**`CustomerBase`** is the customer reference (three exports, three files, one after the
other), the base generated from it and its validation, and the DAG that chains them: its landing
puts data, manifest and mark one after the other over what the bucket holds (`LandData`,
`LandManifest`, `LandMark`), and `VerifyLanding` compares.
**`OrderReference`** is the order reference: the six queries and five files of an
export while Silver changes under it, `load` reading them one by one, an order generated
from what was read, and `validate` rereading whatever is there.
**`OrderCalendar`** is the time of an order: cadence and phase, the slot, payment,
picking, delivery, cancellation and return in local time across a change of the clock. What an
order is generated from (a table of premises, a schedule, a day and a clock) is a constant,
`Setting`; what is assumed of it is `CalendarAssumption`.

### MC modules

`MCOrdersStream` and `MCCustomerBase` each extend one component. The others put
several side by side (those a listed theorem is about by EXTENDS, other settings of them by INSTANCE): a variable `moves` is chosen in the initial state and says which
component, or which setting of one, this behaviour is about; the others stay where they
start. Components put side by side share no state, so this checks each of them alone:
no interleaving is claimed or lost by it. A
property of one is stated as `moves = ... => ...`, or as the property itself when it also
holds of the state the component rests in. Within a run a component may have several
settings (the partitions of `Sources` under faults, and two of them run again and again with the
same command).

The modules `...Proofs` hold the theorems of section 5: `OrdersStreamProofs` (with the folds),
`OrdersOltpProofs` and `RawLandingProofs` (with `LandingDag`), each of the module it is named after;
`CustomerProofs` is about `CustomerBase` and `OrderCalendar`, `ReadModelProofs` is about `OrdersProjection`
and `ProjectorGroup`, `WarehouseProofs` about `WarehouseLoad`, `WarehouseRoles` and `OrderReference`, `SilverProofs` about
`SilverBuild` and `StockLedger`, `SourcesProofs` about `Sources` and the four programs of it.

### Abstractions

- Amounts are small sums of prices, quantities are 1; columns copied unchanged are left out.
  `event_id` is a hash of `(order_id, sequence_no)` and is modelled by that pair.
- The client keeps the order of `produce` within a partition and none across
  partitions. A message of a publisher that died is either in the topic at once or
  never.
- In `OrdersStream` a group has one member and begins at the start of the topic
  (`--from-beginning`, as the Makefile runs it); `ProjectorGroup` has neither restriction.
- A file, an object or a payload is a value; its checksum, size and counts are functions
  of it. A file is replaced atomically, as `canonical.write_json` does.
- `SilverBuild`: two sources; a dbt test of a model that is left out is left out with it, as dbt
  selects; whether a test passes depends on the versions it compares. A test stands for all that
  compare the same models. Tests of one model's rows, or of models built from one event table,
  are left out: nothing that happens outside the build turns them.
- `StockLedger`: arithmetic is exact where the code uses floats that `units()` rounds;
  `Lead >= 1`, which the premises table satisfies and its own test does not ask for.
- `WarehouseLoad`: a Snowflake table stage keeps the file of the last load until the
  next one overwrites it.
- `CustomerBase` has one command at a time on a partition, by hand or of the DAG (whose
  `max_active_runs` is 1), and any number on the reference and on other partitions. It follows one arbitrary customer, so what depends on all of them (the
  `--strict` warnings, duplicate names) is left out; proportions are integer weights.
- `OrderCalendar` counts half minutes and draws the ends of a range. The clock is moved once, in
  either direction.
- `OrderReference` follows one arbitrary order of quantity 1. A weight is zero or
  not; every age band has a customer in every community; the base only grows; the
  keep probability of a customer, IPF and checks of single fields are left out.

## 3. Runs

| Run | Question | What it shows |
|---|---|---|
| `outbox` | do the three folds agree, and is the outbox the log? | every lifecycle of a three-line order gives the same row in the three folds; appliers of one log, killed and run again, refine `EventSourcedOrders`, and what was applied passes `--verify` and only that; two logs under the same order ids leave every order the fold of its own outbox |
| `stream_crashes` | one publisher, one death anywhere, one rewind, two partitions | refines `LiveOrderState`; keys arrive in order, there is no gap, no offset is ahead of the rows |
| `stream_converges` | two refused messages, one death, one rewind, strict runs | everything reaches the read model in the end, with one publisher |
| `read_model` | can two writers of the Iceberg table, or two members of a group, undo each other? | no: it refines `MonotonicTable`; offsets follow rows; after the group settles every order reaches the end of its log |
| `sources` | what may be believed of a partition on disk? | what is announced is whole and valid, immutable without `--overwrite`, of one language; damage is repaired; an interrupted partition is completed by the same command |
| `landing` | is the bucket a faithful copy, and do the DAGs get it there? | nothing corrupt lands, verdicts are true of what was read, the last intact copy is not pruned, the seal tells editions apart; Silver runs on verified partitions and every day is built in the end |
| `silver` | is a build over what exists, and is the ledger sound? | no model meets an absent input but in a first landing seen half way, what is red is over something half landed, landed meanwhile, sealed as another landing, of another day in the stream or without its prices; the orders' models are of one landing, what lands is built; units conserved, one open order, outages end |
| `warehouse` | what do readers of the warehouse see? | a load replaces and never doubles, on Postgres a reader sees one load, a green run is newer than its start, export and load are refused only where Silver lacks a table or moved, two faults do not stop a load; no role reads more than its matrix at any point of a bootstrap |
| `customers` | does the reference stay coherent, and the base valid? | an export's files cover one another or it refuses; no adult is lost; a fresh base is accepted; a landing is exact when it gets to its verification, and only one that died leaves two bases mixed; a change of service area leaves other warehouses' customers alone |
| `orders` | is an order grounded in one reference and one calendar? | complete exports load, orders name products and customers that were on sale and active, fresh logs are accepted and later exports accept them; every instant is in order across clock changes |
| `two_publishers_lose_an_event`, `relanding_announces_a_mixture` | disagreements | section 4 |

A property of a run is mostly a conjunction of named parts, one per question: the run's
MC module lists them, the component's module states each part with the code
it is about, and TLC reports the run's property by name when any part fails. `NoGapArises` is
`KeysArriveInOrder` and `NeverRefused`; `AreasAndRunsSettle` is an action property and a
liveness property of the customers' DAG.

**Bounds.** Stream: two orders of two events, or of two and three, put every
kind of pair in a batch of two (same order, different orders, across a batch's end);
batches of two are the least in which a batch is half sent; two partitions are the
least in which the order across partitions is free; one order of five events makes
room for two refusals in different batches. OLTP: one delivered, one cancelled and one
refused order over two days, two appliers of one log and one of another, one death
(two where the seeds differ). `read_model`: three orders, two of them in what a
rebuild folds and in two of its commits, so that the consumer can lose `MAX_COMMIT_ATTEMPTS` = 2
times while it holds an order nobody else writes; one rebuild, with or without a reset, and
one death. The group has two members with a partition each and with one to share.
Sources: two files, two versions or languages, and as many failures, deaths and damages
(one or two of each) as put each before, between and after the others' runs; of a catalogue, which
knows five kinds, those that may befall one partition together are the records of `Trouble`. Landing:
two data files, two editions, one damage or one death (or object that is not fetched), or two landings at once. Damage
and death are in separate settings, since each alone already breaks what can be broken by both.
DAG: two branches, two days, up to three failures where a task has one or two retries.
Silver: two whole landings of the catalogue or of the orders, each met half way (versions to
4), with a kill or with two seals of the orders; the first landings of both together; and one whole landing of the
orders with the optional planes, one outage and one kill. The two sources share no test but `Priced`,
which may be red anyway, so more of both at once tells nothing new. Ledger: every demand of six days up to three units, with a lead time of two days:
three order cycles. Warehouse: two tables, two versions with the same number of rows
and different columns, two runs and three faults, enough to exhaust a task's retries and one more. Roles:
three bootstraps (two on Snowflake, where each may die at any statement). Customers:
two municipalities of two provinces, four changes, two exports by hand, or a DAG run with one
kill. Orders: four days, two around the turn of the year, two warehouses in two
communities, one change between any two of the queries or reads of two exports; the calendar
runs over four days around each clock change with the declared table, and over three weeks around
a turn of the year with every schedule and tables that are odd or refused.
Deaths, faults and edits are all bounded by constants named `Max...`. Symmetry is not
used: the orders, files and tables differ in what they hold.

**Fairness.** No fault is ever fair. `OrdersStream`, `OrdersProjection`,
`ProjectorGroup`: the log goes on, and `orders-publish` and `orders-project` are run
again after they end. Nothing in the repository restarts them (they are Makefile
targets), so this is an assumption on the operator, and needed: a strict run ends on a gap.
`WF` is on a whole process, not on each action; a rebalance ends; nobody has to start a rebuild.
`CatalogExtract`, `CallejeroIntake`, `RawLanding`: `WF` on the steps of a command that
was started and `SF` on typing the same command again (strong, because a run in
progress disables it again and again). `LandingDag`: `WF` on the scheduler, `SF` on the day
ending and on the daily run, which `schedule` promises. `SilverBuild`: `WF` on the build
and on the stream plane coming up, `SF` on the two stock jobs while the plane is in
use. `WarehouseLoad` and `CustomerBase`: `WF` on tasks, that is Airflow's. `OrdersOltp`:
an applier goes on and is run again after it dies.

**Deadlock** is checked except where a run can rightly stop: in `sources`, `landing`,
`silver`, `warehouse`, `customers` and `orders` commands end, the window of days ends and the
bounds run out. In `outbox` the end of the files is a stutter of its own, so an applier that waits
for ever would be found.

## 4. Disagreements with what the repository says

Two have a run of their own:

1. **Two publishers lose an event** (`two_publishers_lose_an_event`).
   `publish_batch` says SKIP LOCKED makes any number of publishers safe (`P/orders_stream.py:373`).
   Batches are cut by `outbox_id`, so a second publisher can hold and send the later
   event of an order first. The projector refuses it as a gap, commits past it, and the publisher
   has marked it: with no fault at all it never reaches the read model unless
   somebody runs `orders-replay`. The rows that are there are still right: that is proved for any
   number of publishers (section 5).
2. **A second landing announces a mixture** (`relanding_announces_a_mixture`).
   "_SUCCESS LAST. An interrupted upload never looks complete" (`P/land.py:13`) is true
   of a first landing. A later edition replaces objects under the earlier one's
   `_SUCCESS`: the mixture is there while it lands, and stays if it dies. `AnnouncedIsWhole` is what
   remains: it holds while one edition was published. `CustomerBase.MixturesHaveACause` has the same of a base.

The others were met while modelling and are stated in the modules as definitions; each
is refuted by TLC when it is added to the configuration named here, with the constants
changed as said.

| Definition | What the code does | What it says |
|---|---|---|
| `OrdersStream.KeysArriveInOrder`, two publishers | event 2 of an order reaches the topic before event 1 | `P/orders_stream.py:31` "per-key order is guaranteed" |
| `OrdersStream.CommittedIsWritten`, one refusal | `_flush` commits the batch's offsets, then raises on its gap; the refused event is behind the offset | `P/orders_stream.py:42` "THE OFFSET IS COMMITTED AFTER THE WRITE" |
| `FoldAgreement.NetAmountIsWhatWasPicked` (`outbox`) | a substituted or removed line sets the OLTP's `net_amount` during picking; `FoldsAgree` excepts exactly that | `P/orders_oltp.py:100` "NULL UNTIL DETERMINED" |
| `OrdersProjection.ReadsNewestSnapshot` (`read_model`) | `load` scans the handle in hand; only a refused commit reloads it. Nothing wrong is committed, for the commit compares again | `P/orders_projection.py:249` "re-read from the newest snapshot" |
| `OrdersProjection.AloneAfterReset` (`read_model`, `InRaw` and a reset) | a stream commit between drop and append makes the append fail; between drop and create it leaves two rows of one order | `P/orders_projection.py:445` "this writer is alone on it" |
| `ProjectorGroup.OffsetsAreWritten`, `Sink = "postgres"` | a member that lost its partition overwrites newer rows with the batch it still holds, behind a committed offset | `P/orders_stream.py:568` "exactly-once effect on the projection" |
| `CatalogExtract.OneLanguage`, without `LeftAlone` (`sources`) | an overwrite in another language that dies is resumed over files of the first | `src/sources/mercadona-catalog-source`: lang is fixed for a partition |
| `CatalogExtract.Immutable`, two processes | an extraction that began before another ended rewrites the complete partition | "a complete partition is immutable" (`partition.py:9`) |
| `CatalogExtract.Complete` and death between manifest and marker | the partition is complete without `_SUCCESS`, and refuses to be run | "_SUCCESS exists if and only if complete: true" |
| `CatalogExtract.Valid`, a killed write | the temporary file stays inside the partition and validation reports it for ever | "can be completed by re-running the same command" |
| `CallejeroIntake.Valid`, a new edition after an incomplete run | the old edition's file is an orphan of a complete partition | `CONTRACT.md:108` "Closed inventory" |
| `GeneratedPartition`, an overwrite that dies | the new log lies under the old manifest and `_SUCCESS` | `S/extract.py:8` "never leaves a partition that announces itself complete without being so" |
| `RawLanding.VerdictIsTrue` and orphans | after an edition with fewer files verification fails for ever | `D/mercadona_catalog_daily.py:190` "the DAG self-heals" |
| `RawLanding.SealGuardsTheBytes` (`landing`) | the seal reads the manifest only; objects replaced under it pass | `P/freeze.py:218` "Changing a single byte of a sealed partition fails it" |
| `LandingDag.SkippedMeansNothingNew` (`landing`) | after `silver` failed, a second run short-circuits everywhere and skips it | `D/mercadona_catalog_daily.py:365`; `D/ine_callejero_on_demand.py:236` says of the same rule that "silver still runs" |
| `LandingDag.LandedIsKept` with `Pruning` on a second run of the day | without the local manifest the gate cannot verify and a new edition lands over the verified one | `P/cli.py:72` calls the local copy redundant |
| `LandingDag.ExtractedOnItsDay`, `Midnight = TRUE` | midnight passes between `guard_date` and `extract` | `D/mercadona_catalog_daily.py:156` |
| `StockLedger.BelowThePointIsOrdered` (`silver`) | the reorder point of a slow series rounds to 0 and it never orders | the premises seed, line 4 |
| `SilverBuild.OptionalPlaneNeverFailsTheBuild` (`silver`) | a day landed and not yet projected can turn every build red | `src/README.md:61` |
| `WarehouseLoad.StandardPathLoads` (`warehouse`, Spark never ran) | the cut wants the stock ledger unconditionally | `src/README.md:59` |
| `WarehouseLoad.StageShape` (`warehouse`, Snowflake) | columns of today's Silver over a parquet of yesterday's | `P/warehouse_cut.py:41` "in sync by construction" |
| `WarehouseLoad.CutIsOneSilver` (`warehouse`) | the cut reads tables of two builds | `D/warehouse_load.py:168` |
| `WarehouseRoles.BootstrapReportsSuccess` (`warehouse`, Snowflake) | before the first load every check fails for want of tables | `src/Makefile:279` "(once, ACCOUNTADMIN)" |
| `CustomerBase.CountedAndAgedAlike`, `CustomerBase.AWholeBaseIsAccepted` (`customers`) | three files of two exports are read together; a base made from yesterday's export is validated with today's | `simulated_oltp_source/reference_data.py:4`, `D/simulated_oltp_customers.py:209` |
| `OrderReference.NoWarehouseIsChosen`, `OrderReference.GroupsAreRechecked` (`orders`) | drift is checked in one query and read in the next; `validate` never reads `demand_group` | `P/orders_reference.py:549`, `S/orders_generator.py:443` |
| `OrderReference.ALaterExportAccepts`, a late catalogue on a carried day | the calendar row turns observed and the untouched partition is rejected | `S/validate.py:7` |
| `OrderCalendar.AFreshOrderIsAccepted`, closing hour 24 and without `CalendarAssumption` | a slot may end at midnight, on the next date | `S/premises.py:110` |
| `OrderCalendar.CancelledInTime`, payment and picking within a minute, without `CalendarAssumption` | the order is cancelled a minute before it is paid; the declared table leaves a night between them | `S/orders_generator.py:502` |

## 5. What is proved

Each theorem holds for every value of the constants under the assumptions its module
declares (`StreamAssumption`, `PremisesAssumption` and so on: bounds are naturals, sets
are what they are sets of, logs are what the source writes) and the hypotheses named here.
An inductive invariant that TLC can evaluate was checked on the run of its component before it was proved.

**The folds** (first part of `OrdersStreamProofs`). `FoldStep`: for every log and every `n`, folding
event `n + 1` into the Silver row of the first `n` events gives the Silver row of the
first `n + 1`. The query counts, maximises and picks a newest event over a set; there is
one lemma for what one more event does to each (`CountStep`, `MaxStep`, `NewestOfPrefix`),
and `NextNeverRaises` says `fold_event` accepts it.

**The outbox** (`OrdersOltpProofs`). `NothingLost`, for any appliers, files, kills and repetitions, also
of different logs under the same order ids: an order is the fold of its own committed outbox rows, these
are its events 1 to `last_sequence_no` in the order of `outbox_id`, and no applier has passed over
an event that is not committed. The argument rests on the unique `event_id`: an applier that
holds the row of an event has passed the earlier events of the order in its file, these are committed,
and the event is not; so it is the next one (`OpenEventIsNext`), nobody else has the order open
(`OneOpenPerOrder`), and what the plan was made of is still there at the commit. Which log the event
comes from plays no part. With the hypothesis `SameLog` (appliers that have an order have the same events of
it) `OutboxImplemented` says that they implement `EventSourcedOrders`: a commit is its `Emit`, every
other step, a rollback included, shows a reader nothing. If the plan accepts the log from its first event on
(`LogIsAccepted`), `NobodyRaises`: a replay skips and is never refused. `OutboxIsAlwaysTheLog` is
about `--verify`, when one day has one log (`OneLogOfADay`, from which `SameLog` follows): a log that was applied to its end comes out of
the outbox as it went in, and one that comes out has left every order of its day where it leaves
it. The rows of a day and the lines of its log that have a row are as many (`AsManyLinesAsRows`), a row whose line is
line `n` has `n - 1` rows before it when no line lacks its row (`PlaceIsLine`), and a check that passes has counted
the lines, so that none lacks it. The run `outbox` evaluates the
hypotheses on its files.

**The three folds** (last part of `OrdersStreamProofs`). `FoldsAlwaysAgree`, for an order of any lines,
prices, substitutes and fate: after every event the streaming row is the Silver row and `reconcile` has nothing
to report, no fold refuses an event, and the money closes on the lines. `LifecycleIsALog` gives the streaming
path what it supposes of its logs. The argument has four parts. A log is written
by position: `LifecycleTells` says which event each position has, that it is legal after the one before it, and
that it says what happened to the order, whatever number `m` of lines changed. `Settled` is what the
lines are while picking has gone through some of them, and `Staged` what the plan makes of them in each
state: untouched, settled so far, closed, or picked. `Agree` sets the two rows side by side; one event more
keeps it (`AgreeMoves`), by the four kinds of event there are (`QuietMoves`, `EndMoves`, `LineMoves`, `PickMoves`),
and `FoldStep` has the row. Money is what makes it hard: `picked_amount` is summed by the source over a set, in
no order, and `LineSum` by the plan over a sequence. Both are recursions over data; `Adds`, `PicksAreTheSum` and
`LineSumIs` give each as the one function `Sums`, by the least counterexample, so that `PickedSum` can compare them.
Assumed: an order has finitely many lines numbered from 1 and prices are natural numbers (`LineAssumption`), and no
state is null (`FoldAssumption`).

**The streaming path, any number of publishers** (`OrdersStreamProofs`).

1. `TypeCorrect`; `RowsCorrect`, `ProjectorCorrect`, `NeverRaises`. `RowsAreSilverPrefixes`
   is about the stored rows and is not inductive: the rows that will be stored next are
   those of the batch in hand. `Invariant` adds that these are prefixes too and not
   older than what is stored, that an order of the batch without a loaded row has
   none stored, and that only committed events are in the outbox, the topic or the
   batch. The one step with content is `FoldNext` (lemma `Turn`): an event that
   `decide` lets through has sequence number `LastSeq + 1`, so it is the next of its
   log whatever came before it, and `FoldStep` applies.
2. `NeverBack`: from the same invariant; only `SaveAndCommit` writes rows.
3. `StreamImplementsReadModel`: each step is an `Emit`, a `Project` or a stutter of
   `LiveOrderState`.

**The streaming path, one publisher** (its second part, hypothesis `\E x : Publisher = {x}`;
with two, all three are false: `two_publishers_lose_an_event` is what comes of it).
`PublishedIsNeverLost` needs nothing else: through any refusals and deaths, what is marked can be
read again. Its invariant says that published rows are a prefix of the outbox, the
batch the next piece, and within a partition the batch is sent from its first row on.
`KeysAreOrdered` and `OffsetsAreSafe` hold until the broker refuses a first message
(after that they are false: section 4); their invariant follows each message from its acknowledgement to
its row: what is polled is folded or pending, and what is pending follows on what is folded.

**The Iceberg read model** (`ReadModelProofs`). `TableSound`
and `NoCommitGoesBack` (the refinement of `MonotonicTable`), for any number of rebuilds. The
catalog compares only the number of a snapshot; the invariant `HandlesAreSnapshots` says that
equal numbers are equal rows, so an accepted commit was merged with what is in the table. While nobody
reset it, every handle is behind the table in every order, and what the consumer polled is in
its handle or its buffer; after a reset only the types, the lengths and the snapshots
remain, and `TableIsSound` says no more than that either.

**The consumer group** (`ReadModelProofs`). `GroupIsAlwaysSound`, for any members, orders, partitions,
batch sizes, evictions and deaths: no offset passes an event the table does not hold, and nobody meets a
gap. A partition can change hands while the member that lost it still writes its batch, so what an owner
holds is not all there is; the invariant says that the events between the offset and what the present
owner has read are in the table or in its hands (`ReadIsHeld`), that what it has not folded follows on what
it folded (`PendingFollows`), that owners are alive and offsets are of the log (`OwnersAreAlive`,
`OffsetsAreInTheLog`) and that the messages of an order are numbered in their order (`NumberedInOrder`).
Hypotheses: the Iceberg sink, whose commit compares with what is there (with the Postgres upsert it is
false: section 4), and a group read from the beginning, as the Makefile does. `GroupNeverGoesBack`: a member
thrown out with a batch in hand takes no order of the table back.

**The landing** (`RawLandingProofs`). `BucketFaithful` for any files, landers, editions,
crashes and damage, and any order in which a landing takes the data files (the model leaves
it open). The invariant ties what a lander carries and what lies on the disk to
editions the Source completed; while there is one edition, landers only add to it. `LandedThere`,
`VerdictTrue` and `PrunedInTheBucket` have the hypothesis `~Concurrent`, one command at a time, as
the properties that the run `landing` checks have: `AloneInvariant` says that a command still finds
the partition it began with.

**The scheduler** (second part of `RawLandingProofs`, about `LandingDag`). For any branches, number of
failures and options. `SilverBuildsOnVerified` needs no hypothesis: `NONE_FAILED_MIN_ONE_SUCCESS`
lets `silver` run over skipped branches, and a branch is skipped from its extraction down, by a gate that has verified the
bucket. Three facts carry it (`DagSound`): a task has a state once those above it have settled
(`InTurn`), what is skipped is below something skipped unless the gate did it, what succeeded is below what
succeeded; so what a task has seen of a partition stays so until the run ends (`Looked`), because
whatever would change it comes before it in the graph. `SchedulerMoves` reduces the tasks to one kind of step,
`Moved(t)` with its effect `Did(t)`. `PricesAreOfTheirDay` has the hypotheses `HasGuard` and
`~Midnight`, `LandedIsNeverReplaced` has `~Pruning` and `~HasOverwrite`, those of the DAGs for which the run
`landing` checks them; section 4 has what happens without.

**The Silver gate** (`SilverProofs`). `BuildsHold`, for any landings, seals, outages and
kills and with the optional planes or without. The gate looks once and the build takes its time; what it saw
is not taken back, a model waits for those it refers to, and round the circle of
consumption and ledger nothing gets ahead of the orders Silver has. For what is red the
invariant follows a build of a source that has not moved since the gate looked: what it has
built of that source is of the version that was seen (`Fresh`), so the models of a test are equal and whole,
and the test, or a model, that failed is of a source that was half landed or has moved.

**The stock ledger** (`SilverProofs`). `LedgerHolds`: conservation over the whole window
and the rest of `LedgerAddsUp`, for any window, demand, lead time and covers that
`PremisesAssumption` admits. Between two days the invariant holds the arrivals, which are
no column of the ledger: each is the order of the row `Lead` days before, the lock is
the only one, and shelf and order stay within the target. The sums over a window need
induction. A theorem with an operator as its parameter cannot be used, but a first-order
argument can: the least number at which a sum fails is not 0, and the one before it holds
(`RunningExists`).

**The warehouse load** (`WarehouseProofs`). `LoadReplaces`, for any tables, columns, numbers
of rows, builds of Silver, runs and faults, on Postgres and on Snowflake. The invariant
follows the lists of tables a task has still to do: what is no longer on them is of
this run, whatever an earlier try left. A parquet lies between the Silver the run began with
and Silver now; so a copy that lacks a column, or a table that is not there, shows
that Silver moved or never was whole, and the recount after a load never fails by itself
(`VerifyLoadKeeps`). Apart from a red test of the build, whose failure says so, every other failure is a
fault, which bounds the tries of the load by the faults.

**The warehouse roles** (`WarehouseProofs`). `RolesAlwaysKeepTheMatrix`, for any number of bootstraps,
dead at any statement, and any writes between their statements. What a Snowflake bootstrap has behind it
holds for good, except on tables replaced since it began: the invariant keeps for each of its
statements that it is still to run or in force (`BootstrapIsInForce`), so at the end
everything is, and what verbs and tables to come need stays granted (`VerbsAreGranted`). No statement takes
anything back, lets a role into a schema it is denied or gives a table to any but the role that writes there
(`ApplyFacts`; for Postgres's transaction as a whole `AllOfFacts`, by the least counterexample).
Hypothesis: on Postgres only the roles write (`P/postgres_load.py:15`), for `bootstrap` there grants
nothing on tables that exist.

**The order reference** (`WarehouseProofs`). `ReferenceStaysTrue`, for any catalogs, customers, seeds, windows
and bounds, whatever lands between two queries or two reads. The invariant is about
every copy of a file there is: on disk, in the memory of a reader, in the payload of an export.
A copy is true of the tables (a row of the catalog was on sale that day at that price, a price is of a
landed day and not a later one, a customer is in the generation his row calls the first), and
stays so because tables only grow; copies of one export are equal, for what an
export is about to write has a number no copy has; the catalog of an export has
the prices of its calendar and the groups of its demand; and a partition follows from five files,
perhaps of five exports, each as it was. So coverage and fresh logs need no
hypothesis (`CoverageAndFreshLogs`). The others need that the tables are what they should be: that an order is
grounded (`OrdersStayGrounded`), that a customer stays as he was (`BaseOnlyGrows`); that a later export accepts
the order (`ReferenceAlwaysHolds`), that besides what lands is later than the days asked for
(`LaterIsLater`: without it section 4 has the late catalogue); that a whole export loads, that every age band has a
buyer in the community of every warehouse (`EveryBandBuys`), since the export makes a vector of each cohort it
counts and the loader asks for one of each band. `GrowthAlwaysKeepsTheDay`: growing the base by a
later generation changes nobody's right to order before it, also where customers move,
if nobody's birth is corrected and generations land in the order of their days. Without that order
it is false, in TLC too: a generation of day 2 is exported, one of day 1 lands between the two queries
for customers, and the next export lets its customers order on day 1. The run `orders` evaluates the hypotheses on its
settings. Assumed: a catalog is finite and has a product once in a category and
subcategory, days are numbers with a last one, a smallest order is above 0
(`ReferenceAssumption`, `CatalogAssumption`, `SeedsAssumption`).

**The Sources** (`SourcesProofs`), for any seeds, categories, languages, tables, provinces, contents
and bounds. Each of the four programs has its own way to keep a partition honest, and its invariant
says which.
The generator writes log, manifest, marker in this order and, without `--overwrite`, never over an
announcement, so what is announced is whole (`GeneratedIsWhole`) and left alone (`GeneratedIsImmutable`).
The population's run declares its partition incomplete before it touches a file, so a death leaves
nothing that calls itself complete (`PopulationIsValid`, `PopulationSteps`).
The Callejero's and the catalogue's runs keep an account of the files they visited; the
invariant is that this account is the disk, and that files nobody visited are declared as
they lie (`CatalogInvariantHolds`, `CatalogIsValid`, `CatalogSteps`; `StreetsAreValid`,
`StreetsAreDecided`). `AnnouncedIsAlwaysValid`, `ManifestIsAlwaysTrue`, `CompleteIsAlwaysLeftAlone` and
`DamageIsAlwaysSettled` state of the four together what the run `sources` checks; a behaviour stays with the
program it is about (`EachMoves`), so the four invariants are one. Hypotheses: extractions of a catalogue
partition are one after the other (`max_active_runs=1`), model values are no manifests and no payloads
(`Hypotheses`), and for what is announced one province and one edition (`OneOfEach`; with two, section 4
has the orphan). The run evaluates both on its constants.

**The customers** (`CustomerProofs`). `ReferenceAlwaysCovers` and `BaseIsAlwaysSound`, for any
country, seeds, warehouses and bounds. The three files of the reference are replaced one by one
while verbs read them, so a base may be drawn from files of three exports, of three editions.
The invariant is about every copy of a file there is, on disk, in the memory of a verb
and in the payload of an export: copies with the number of one export are equal, the candidates
of a copy are addresses of the edition it names, its ages are not below the age it names, and a
base agrees with each copy that has the number of one it was drawn from. What an export
is about to write has a number no copy has. That a row of the ages exists where people are counted,
that a joined sequence is over what its parts are over and that a warehouse's
number in a street is one `validate` takes are lemmas about the operators (the second by the
least counterexample again). Assumed: streets are numbered and people
counted in natural numbers (`EditionsAssumption`), and every age band of the survey has a share
above 0 and one of them is the oldest (`BandsAssumption`), as the seed has. With one command at a time on a partition, what lies in the bucket
is, file by file as far as a landing got, what lies on the disk (`LandingsEndVerified`), and
where data and manifest differ under a mark, a landing is at that point or something was
killed (`MixturesHaveACause`).

**The calendar of an order** (`CustomerProofs`). `CalendarAlwaysKept`, for any table of premises, schedule,
day and change of the clock that `CalendarAssumption` admits: what `_lifecycle` dates `validate.py`
accepts, no draw is refused, a cancellation is between payment and picking, and every stretch of a
cadence has one order of the customer (`CadenceIsKept`: of as many weeks as the cadence has, one
has the remainder that is the phase, and of seven days one has the weekday). The invariant says
that the slot lies on an open day after the order's on which the clock has one offset from the
opening on (`OnADay`, `OneOffsetADay`), so local hours are differences and the checks are
inequalities; that a night lies between payment and picking (`Scheduled`, lemma `NightIsLeft`);
and that a log says nothing of a delivery or a cancellation before its last events (`Running`).
`CalendarAssumption` is about tables the program accepts only. It asks for more than
`Premises._check` does: that closing hour and latest delivery stay within the day, and that the longest draws fit
between midnight UTC and the opening. Without the first a slot may end on the next date, without the
second a draw is refused (section 4 has an example of each). `order_premises_seed.csv`
grants both, the second with 27 minutes to spare when the clock is two hours ahead. Of the clock it asks that it is
moved once, within one local date and before the opening.

Only model-checked:

- liveness everywhere (it needs fairness and ENABLED, which the prover does not handle), that of the
  DAGs and of `EveryLogIsApplied` included;
- that the settings of the runs `landing` and `orders`, side by side in one run, keep the compositions
  `CopiesAreKept`, `DagKeepsItsDays` and `EverySettingHolds`. Their parts are theorems of
  the single component, but for `LandsInOrder`, which the theorem on growth supposes.

Every invariant a passing run checks is stated by a theorem, under the hypotheses its paragraph above names.

## 6. Not modelled

- Indicators, dashboards, evidence pages, `prove_*` and `check_*` scripts, streamlit: queries and
  rendering of finished tables, without state of their own.
- `demand_check.py` and the weights of product choice, iterative proportional
  fitting, name and street draws: numeric algorithms over real numbers, in which the order of
  summation and the tolerance are the question; the models keep which weights are zero.
- dbt models other than `silver_order` as queries, and dbt's tests as predicates of rows; `SilverBuild` has
  models as nodes with inputs and tests as nodes that may be red, `WarehouseLoad` a build that may be.
- HTTP, parsing and politeness of the crawlers; argument parsing and printing of
  the CLI (the guards of `prune-local`, `freeze` and `land` that sit in `cli.py` are in `RawLanding`).
- Spark's execution and Kafka's replication: external.

## 7. Next

What is left to prove is that the files `generate` writes for
several orders, their lifecycles merged by time, are logs in the sense of `LogIsAccepted`.
