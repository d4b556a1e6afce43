----------------------------- MODULE OrderReference -----------------------------
(***************************************************************************)
(* From Silver to the orders of a day and back: the platform exports five  *)
(* reference files (orders_reference.py, demand_profile.py);               *)
(* simulated-orders-source reads them one after the other, generates the   *)
(* orders of a warehouse and a day, and validates a partition against the  *)
(* files of the moment.                                                    *)
(*                                                                         *)
(* Of the orders of a partition one, arbitrary, is kept, with quantity 1.  *)
(* A weight matters only by not being zero.  How a partition is written is *)
(* GeneratedPartition, when its orders happen OrderCalendar, what happens  *)
(* to them OrderLog.                                                       *)
(***************************************************************************)
EXTENDS Integers, Sequences, FiniteSets, FiniteSetsExt

CONSTANTS
    Wh, WhRegion,      \* warehouses and the community of each
    RegionOf,          \* the community of a home
    Day,               \* dates of catalogs, customers and orders
    Year,              \* the year of a day
    Window,            \* << from, to >> of the exports
    Catalog,           \* [Wh -> [Day -> rows]]: rows of silver_product_price, with the
                       \* triple of the category tree as << l1, l2, l3 >>
    Base,              \* generations of customers by name: [customer -> wh, home, birth]
    Mapping,           \* editions of the mapping seed: rules, 0 in a level is the wildcard
    Premise,           \* editions of the premises seed
    AgeBand,           \* AGE_BANDS: << key, ceiling >> in order, None for the open one
    ZeroGroup,         \* groups of a block that weighs nothing
    Target,            \* the warehouses and days extract and validate are asked for
    Landed, Bases,     \* Silver to begin with: catalog pairs, and the generation of a day
    LateCatalog, NextBase,  \* what may land afterwards, a generation once
    None,
    MaxChange, MaxExport, MaxRead, MaxCrash   \* bounds

ASSUME ReferenceAssumption ==
    /\ {MaxChange, MaxExport, MaxRead, MaxCrash} \subseteq Nat
    /\ Day \subseteq Nat /\ \E last \in Day : \A d \in Day : d <= last
    /\ Landed \union LateCatalog \union Target \subseteq Wh \X Day
    /\ \A window \in Window : window[1] .. window[2] \subseteq Day

\* silver_product_price has a product once in a category and subcategory.
ASSUME CatalogAssumption ==
    \A wh \in Wh : \A d \in Day :
        /\ IsFiniteSet(Catalog[wh][d])
        /\ \A r, s \in Catalog[wh][d] :
             /\ r.at[2] \in Nat /\ r.at[3] \in Nat
             /\ r.id = s.id /\ r.at[2] = s.at[2] /\ r.at[3] = s.at[3] => r = s

\* Generations have names, seeds a first edition, and no order may be of nothing.
ASSUME SeedsAssumption ==
    /\ Bases \in [Day -> DOMAIN Base \union {None}] /\ None \notin DOMAIN Base
    /\ NextBase \subseteq Day \X DOMAIN Base
    /\ \A name \in DOMAIN Base : Base[name] # None
    /\ 1 \in DOMAIN Mapping /\ 1 \in DOMAIN Premise
    /\ \A e \in DOMAIN Premise :
         Premise[e].lines[2] \in Nat /\ Premise[e].minOrder \in Nat \ {0}

Files == << "customers", "catalog", "calendar", "premises", "demand" >>

VARIABLES
    tables,     \* catalog pairs and customer generations
    seeds,      \* editions of the premises and the mapping, and demand_model_version
    file,       \* the five reference files
    exp,        \* the export under way
    reader,     \* the extract or validate under way
    partition,  \* per warehouse and day: an order and the manifest
    used        \* what the bounds count

referenceVars == << tables, seeds, file, exp, reader, partition, used >>

Idle == [pc |-> "idle"]
Still == [verb |-> "none"]
Spend(what, bound) == used[what] < bound /\ used' = [used EXCEPT ![what] = @ + 1]

ReferenceInit ==
    /\ tables = [landed |-> Landed,
                 bases |-> [d \in Day |-> IF Bases[d] = None THEN None ELSE Base[Bases[d]]]]
    /\ seeds = [premise |-> 1, mapping |-> 1, version |-> 1]
    /\ file = [f \in {Files[i] : i \in 1 .. 5} |-> None]
    /\ exp = Idle
    /\ reader = Still
    /\ partition = [p \in Target |-> None]
    /\ used = [change |-> 0, export |-> 0, read |-> 0, crash |-> 0]

-----------------------------------------------------------------------------
(* The mapping from the category tree to demand groups (demand_profile.py). *)

Matches(rule, at) == \A i \in 1 .. 3 : rule.at[i] \in {0, at[i]}

Specificity(rule) == MapThenSumSet(LAMBDA i : 2 ^ (i - 1), {i \in 1 .. 3 : rule.at[i] # 0})

Winners(rules, at) ==
    LET able == {r \in rules : Matches(r, at)}
    IN  {r \in able : \A o \in able : Specificity(o) <= Specificity(r)}

Resolves(rules, at) == Cardinality(Winners(rules, at)) = 1
GroupOf(rules, at) == (CHOOSE r \in Winners(rules, at) : TRUE).group

-----------------------------------------------------------------------------
(* What the export computes.                                               *)

Days(window) == window[1] .. window[2]

\* Mutant of PriceAsOf: the snapshot nearest to the order, before or after it.
PriceAsOfNewest(landed, wh, d) ==
    LET dates == {c \in Day : << wh, c >> \in landed}
    IN  IF dates = {} THEN None ELSE Max(dates)

PriceAsOf(landed, wh, d) ==
    LET dates == {c \in Day : << wh, c >> \in landed /\ c <= d}
    IN  IF dates = {} THEN None ELSE Max(dates)

\* _build_calendar
Calendar(landed, days) ==
    [p \in Wh \X days |->
       LET as_of == PriceAsOf(landed, p[1], p[2])
       IN  [price_as_of |-> as_of,
            price_source |-> IF as_of = p[2] THEN "observed" ELSE "carried_forward"]]

\* The rows of the price dates: a priced product once, in its smallest category.
CatalogRows(landed, dates) ==
    LET Priced(p) == {r \in Catalog[p[1]][p[2]] : r.price > 0}
        Before(a, b) == a[2] < b[2] \/ (a[2] = b[2] /\ a[3] <= b[3])
    IN  UNION {{[wh |-> p[1], price_as_of |-> p[2], id |-> r.id, at |-> r.at,
                 price |-> r.price] :
                  r \in {r \in Priced(p) :
                           \A o \in Priced(p) : o.id = r.id => Before(r.at, o.at)}} :
                 p \in {p \in landed : p[2] \in dates}}

Tree(landed, dates) ==
    UNION {{r.at : r \in Catalog[p[1]][p[2]]} : p \in {p \in landed : p[2] \in dates}}

\* _stamp_demand_group refuses a triple without one winner and a rule without a triple.
TreeHolds(rules, tree) ==
    /\ \A at \in tree : Resolves(rules, at)
    /\ \A r \in rules : \E at \in tree : r \in Winners(rules, at)

Generations(bases) == {d \in Day : bases[d] # None}
KnownIn(bases, c) == {d \in Generations(bases) : c \in DOMAIN bases[d]}
CustomersIn(bases) == UNION {DOMAIN bases[d] : d \in Generations(bases)}

\* _CUSTOMER_WAREHOUSE_DRIFT_SQL
Drifts(bases) ==
    \E c \in CustomersIn(bases) : \E d, e \in KnownIn(bases, c) :
        bases[d][c].wh # bases[e][c].wh

\* _CUSTOMERS_SQL: the latest version, and the first date.
CustomerRows(bases) ==
    [c \in CustomersIn(bases) |->
       LET last == bases[Max(KnownIn(bases, c))][c]
       IN  [wh |-> last.wh, home |-> last.home, birth |-> last.birth,
            first |-> Min(KnownIn(bases, c))]]

AgeOn(birth, d) == Year[d] - birth

\* age_band_of, and band_of of the Source.
BandOf(age) ==
    AgeBand[Min({i \in DOMAIN AgeBand :
                   IF AgeBand[i][2] = None THEN TRUE ELSE age <= AgeBand[i][2]})][1]

\* _cohort_counts: who may buy on the first day of the window.
Cohorts(rows, minAge, d) ==
    {<< BandOf(AgeOn(rows[c].birth, d)), RegionOf[rows[c].home] >> :
        c \in {c \in DOMAIN rows : AgeOn(rows[c].birth, d) >= minAge}}

Served == {WhRegion[wh] : wh \in Wh}
Weighted(groups) == groups \ ZeroGroup

\* _build_cohorts and build: everybody is served by some warehouse, something has a weight.
ProfileHolds(cohorts, groups) ==
    cohorts # {} /\ (\A c \in cohorts : c[2] \in Served) /\ Weighted(groups) # {}

PairsOf(rows) == {<< r.wh, r.price_as_of >> : r \in rows}
RowsOf(rows, wh, as_of) == {r \in rows : r.wh = wh /\ r.price_as_of = as_of}
GroupsOf(rows) == {r.group : r \in rows}

\* Mutant of Covered: a group without a product in some pair is let through.
CoveredByCount(e, weighted) ==
    /\ {e.customers.rows[c].wh : c \in DOMAIN e.customers.rows} = Wh
    /\ {<< p[1], e.calendar[p].price_as_of >> : p \in DOMAIN e.calendar} \subseteq PairsOf(e.catalog)
    /\ \A p \in PairsOf(e.catalog) :
         Cardinality(RowsOf(e.catalog, p[1], p[2])) >= Premise[e.premise].lines[2]

\* _assert_coverage
Covered(e, weighted) ==
    /\ {e.customers.rows[c].wh : c \in DOMAIN e.customers.rows} = Wh
    /\ {<< p[1], e.calendar[p].price_as_of >> : p \in DOMAIN e.calendar} \subseteq PairsOf(e.catalog)
    /\ \A p \in PairsOf(e.catalog) :
         /\ Cardinality(RowsOf(e.catalog, p[1], p[2])) >= Premise[e.premise].lines[2]
         /\ weighted \subseteq GroupsOf(RowsOf(e.catalog, p[1], p[2]))

-----------------------------------------------------------------------------
(* The export: one query after the other, on the Silver of the moment.     *)

\* A catalog or a generation of customers lands, or a seed is edited.
Change ==
    /\ Spend("change", MaxChange)
    /\ \/ \E p \in LateCatalog \ tables.landed :
            tables' = [tables EXCEPT !.landed = @ \union {p}] /\ UNCHANGED seeds
       \/ \E n \in NextBase :
            /\ tables.bases[n[1]] = None
            /\ tables' = [tables EXCEPT !.bases[n[1]] = Base[n[2]]]
            /\ UNCHANGED seeds
       \/ /\ seeds.premise + 1 \in DOMAIN Premise
          /\ seeds' = [seeds EXCEPT !.premise = @ + 1] /\ UNCHANGED tables
       \/ /\ seeds.mapping + 1 \in DOMAIN Mapping
          /\ \E bump \in {0, 1} :
               seeds' = [seeds EXCEPT !.mapping = @ + 1, !.version = @ + bump]
          /\ UNCHANGED tables
    /\ UNCHANGED << file, exp, reader, partition >>

ExportStep(pc) == exp.pc = pc /\ UNCHANGED << tables, seeds, file, reader, partition, used >>

\* The premises and the warehouses come from the seeds.
StartExport(window) ==
    /\ exp = Idle
    /\ Spend("export", MaxExport)
    /\ exp' = [pc |-> "calendar", window |-> window, premise |-> seeds.premise,
               made |-> used.export + 1]
    /\ UNCHANGED << tables, seeds, file, reader, partition >>

\* Mutant of QueryCalendar: a day before every snapshot gets no price.
QueryCalendarUnchecked ==
    /\ ExportStep("calendar")
    /\ LET rows == Calendar(tables.landed, Days(exp.window)) IN
       exp' = [pc |-> "catalog", window |-> exp.window, premise |-> exp.premise,
               made |-> exp.made, calendar |-> rows,
               dates |-> {rows[p].price_as_of : p \in DOMAIN rows}]

QueryCalendar ==
    /\ ExportStep("calendar")
    /\ LET rows == Calendar(tables.landed, Days(exp.window)) IN
       exp' = IF \E p \in DOMAIN rows : rows[p].price_as_of = None THEN Idle
              ELSE [pc |-> "catalog", window |-> exp.window, premise |-> exp.premise,
                    made |-> exp.made, calendar |-> rows,
                    dates |-> {rows[p].price_as_of : p \in DOMAIN rows}]

\* The rows, and the mapping they are stamped with.
QueryCatalog ==
    /\ ExportStep("catalog")
    /\ LET rows == CatalogRows(tables.landed, exp.dates)
           rules == Mapping[seeds.mapping]
       IN  exp' = IF \E r \in rows : ~Resolves(rules, r.at) THEN Idle
                  ELSE [pc |-> "tree", window |-> exp.window, premise |-> exp.premise,
                        made |-> exp.made, calendar |-> exp.calendar, dates |-> exp.dates,
                        rules |-> rules,
                        catalog |-> {[wh |-> r.wh, price_as_of |-> r.price_as_of, id |-> r.id,
                                      price |-> r.price, sub |-> r.at[3], category |-> r.at[2],
                                      group |-> GroupOf(rules, r.at)] : r \in rows}]

QueryTree ==
    /\ ExportStep("tree")
    /\ exp' = IF TreeHolds(exp.rules, Tree(tables.landed, exp.dates))
              THEN [exp EXCEPT !.pc = "drift"] ELSE Idle

QueryDrift ==
    /\ ExportStep("drift")
    /\ exp' = IF Drifts(tables.bases) THEN Idle ELSE [exp EXCEPT !.pc = "customers"]

QueryCustomers ==
    /\ ExportStep("customers")
    /\ LET rows == CustomerRows(tables.bases) IN
       exp' = IF DOMAIN rows = {} THEN Idle
              ELSE [pc |-> "profile", window |-> exp.window, premise |-> exp.premise,
                    made |-> exp.made, calendar |-> exp.calendar, catalog |-> exp.catalog,
                    rows |-> rows]

\* The generations, then cohorts, profile and coverage from the seeds.
QueryGenerations ==
    /\ ExportStep("profile")
    /\ LET customers == [made |-> exp.made, rows |-> exp.rows,
                         generations |-> Generations(tables.bases)]
           cohorts == Cohorts(exp.rows, Premise[exp.premise].minAge, exp.window[1])
           groups == GroupsOf(exp.catalog)
           whole == [customers |-> customers, catalog |-> exp.catalog,
                     calendar |-> exp.calendar, premise |-> exp.premise]
       IN  exp' = IF ~ProfileHolds(cohorts, groups) \/ ~Covered(whole, Weighted(groups))
                  THEN Idle
                  ELSE [pc |-> "write", left |-> Files,
                        payload |->
                          [customers |-> customers,
                           catalog |-> [made |-> exp.made, rows |-> exp.catalog],
                           calendar |-> [made |-> exp.made, window |-> exp.window,
                                         rows |-> exp.calendar],
                           premises |-> [made |-> exp.made, edition |-> exp.premise],
                           demand |-> [made |-> exp.made, version |-> seeds.version,
                                       groups |-> groups, weighted |-> Weighted(groups),
                                       vectors |-> cohorts]]]

\* Each file is replaced at once, the five of them one by one.
WriteFile ==
    /\ exp.pc = "write"
    /\ file' = [file EXCEPT ![Head(exp.left)] = exp.payload[Head(exp.left)]]
    /\ exp' = IF Len(exp.left) = 1 THEN Idle ELSE [exp EXCEPT !.left = Tail(@)]
    /\ UNCHANGED << tables, seeds, reader, partition, used >>

KillExport ==
    /\ exp # Idle
    /\ Spend("crash", MaxCrash)
    /\ exp' = Idle
    /\ UNCHANGED << tables, seeds, file, reader, partition >>

-----------------------------------------------------------------------------
(* The Source: the reference in memory.                                    *)

Read(name) == reader.read[CHOOSE i \in 1 .. 5 : Files[i] = name]

\* Reference.__init__: a vector for every cohort a draw may reach, a weight for
\* every group of a pair.
Usable(catalog, demand) ==
    \A p \in PairsOf(catalog.rows) :
        /\ \A b \in DOMAIN AgeBand : << AgeBand[b][1], WhRegion[p[1]] >> \in demand.vectors
        /\ GroupsOf(RowsOf(catalog.rows, p[1], p[2])) \subseteq demand.groups
        /\ GroupsOf(RowsOf(catalog.rows, p[1], p[2])) \intersect demand.weighted # {}

\* Mutant of VersionAt: a customer exists as soon as there is a generation.
VersionAtAnyTime(customers, first, d) ==
    LET past == {g \in customers.generations : g <= d} IN IF past = {} THEN None ELSE Max(past)

\* customer_version_at
VersionAt(customers, first, d) ==
    LET past == {g \in customers.generations : g <= d}
    IN  IF d < first \/ past = {} THEN None ELSE Max(past)

Eligible(customers, minAge, wh, d) ==
    {c \in DOMAIN customers.rows :
        /\ customers.rows[c].wh = wh
        /\ VersionAt(customers, customers.rows[c].first, d) # None
        /\ AgeOn(customers.rows[c].birth, d) >= minAge}

Worth(lines) == MapThenSumSet(LAMBDA r : r.price, lines)

\* _basket: without replacement, and topped up to the smallest order.
Baskets(rows, weighted, premise) ==
    LET drawable == {r \in rows : r.group \in weighted}
        Wanted(n) == Min({n, Cardinality(rows), Cardinality(drawable)})
    IN  {b \in SUBSET drawable :
           /\ Worth(b) >= premise.minOrder
           /\ Cardinality(b) <= premise.lines[2]
           /\ \E n \in premise.lines[1] .. premise.lines[2] :
                \/ Cardinality(b) = Wanted(n)
                \/ /\ Cardinality(b) > Wanted(n)
                   /\ \E last \in b : Worth(b \ {last}) < premise.minOrder}

\* Mutant of Substitutes: from the whole reference.
SubstitutesAnywhere(all, wh, as_of, line, taken) == {r \in all : r.id \notin taken}

\* _substitute_for: the subgroup, else the category, else the demand group.
Substitutes(all, wh, as_of, line, taken) ==
    LET free == {r \in RowsOf(all, wh, as_of) : r.id \notin taken}
        sub == {r \in free : r.sub = line.sub}
        category == {r \in free : r.category = line.category}
    IN  IF sub # {} THEN sub ELSE IF category # {} THEN category
        ELSE {r \in free : r.group = line.group}

\* Mutant of Orders: the band is that of the first day of the window.
OrdersOfTheWindow(customers, catalog, calendar, premise, demand, wh, d) ==
    LET row == calendar.rows[<< wh, d >>]
        rows == RowsOf(catalog.rows, wh, row.price_as_of)
    IN  {[customer |-> c, version |-> VersionAt(customers, customers.rows[c].first, d),
          home |-> customers.rows[c].home,
          band |-> BandOf(AgeOn(customers.rows[c].birth, calendar.window[1])),
          price_as_of |-> row.price_as_of, price_source |-> row.price_source,
          lines |-> lines, substitute |-> None] :
            c \in Eligible(customers, premise.minAge, wh, d),
            lines \in Baskets(rows, demand.weighted, premise)}

\* One order of those _lifecycle may make, with at most one line substituted.
Orders(customers, catalog, calendar, premise, demand, wh, d) ==
    LET row == calendar.rows[<< wh, d >>]
        rows == RowsOf(catalog.rows, wh, row.price_as_of)
        Swaps(lines) ==
            {None} \union UNION {Substitutes(catalog.rows, wh, row.price_as_of, l,
                                             {o.id : o \in lines}) : l \in lines}
    IN  UNION {{[customer |-> c, version |-> VersionAt(customers, customers.rows[c].first, d),
                 home |-> customers.rows[c].home,
                 band |-> BandOf(AgeOn(customers.rows[c].birth, d)),
                 price_as_of |-> row.price_as_of, price_source |-> row.price_source,
                 lines |-> lines, substitute |-> swap] :
                   c \in Eligible(customers, premise.minAge, wh, d), swap \in Swaps(lines)} :
                 lines \in Baskets(rows, demand.weighted, premise)}

-----------------------------------------------------------------------------
(* extract and validate.                                                   *)

\* assert_writable
StartExtract(p, overwrite) ==
    /\ reader = Still
    /\ partition[p] = None \/ overwrite
    /\ Spend("read", MaxRead)
    /\ reader' = [verb |-> "extract", p |-> p, read |-> << >>]
    /\ UNCHANGED << tables, seeds, file, exp, partition >>

StartValidate(p) ==
    /\ reader = Still
    /\ partition[p] # None
    /\ Spend("read", MaxRead)
    /\ reader' = [verb |-> "validate", p |-> p, read |-> << >>]
    /\ UNCHANGED << tables, seeds, file, exp, partition >>

\* load: one file after the other, then the indexes.
ReadFile ==
    /\ reader # Still
    /\ Len(reader.read) < 5
    /\ LET next == file[Files[Len(reader.read) + 1]]
           read == Append(reader.read, next)
       IN  reader' = IF next = None \/ (Len(read) = 5 /\ ~Usable(read[2], read[5])) THEN Still
                     ELSE [reader EXCEPT !.read = read]
    /\ UNCHANGED << tables, seeds, file, exp, partition, used >>

Loaded(verb) == reader.verb = verb /\ Len(reader.read) = 5

\* generate; the draws of the seed may also leave the day without an order, or a basket
\* under the smallest order, and then nothing is written.
Extract ==
    /\ Loaded("extract")
    /\ LET p == reader.p
           premise == Premise[Read("premises").edition]
       IN  \/ /\ p \in DOMAIN Read("calendar").rows
              /\ \E order \in Orders(Read("customers"), Read("catalog"), Read("calendar"),
                                     premise, Read("demand"), p[1], p[2]) :
                   partition' = [partition EXCEPT ![p] =
                     [order |-> order,
                      manifest |-> [premises |-> Read("premises").edition,
                                    version |-> Read("demand").version,
                                    reference |-> [i \in 1 .. 5 |-> reader.read[i].made]]]]
           \/ UNCHANGED partition
    /\ reader' = Still
    /\ UNCHANGED << tables, seeds, file, exp, used >>

\* A line's product is in the catalog of the warehouse and the day at its price.
LineHolds(rows, line) == \E r \in rows : r.id = line.id /\ r.price = line.price

\* The last half of validate.run, with _check_orders.
Accepts(p, customers, catalog, calendar, premises, demand) ==
    LET order == partition[p].order
        manifest == partition[p].manifest
        premise == Premise[premises.edition]
        row == calendar.rows[p]
        rows == RowsOf(catalog.rows, p[1], row.price_as_of)
        customer == customers.rows[order.customer]
    IN  /\ manifest.version = demand.version /\ manifest.premises = premises.edition
        /\ p \in DOMAIN calendar.rows /\ rows # {}
        /\ order.customer \in DOMAIN customers.rows /\ customer.wh = p[1]
        /\ order.version = VersionAt(customers, customer.first, p[2]) /\ order.version # None
        /\ order.home = customer.home
        /\ AgeOn(customer.birth, p[2]) >= premise.minAge
        /\ order.band = BandOf(AgeOn(customer.birth, p[2]))
        /\ order.price_as_of = row.price_as_of /\ order.price_source = row.price_source
        /\ \A line \in order.lines : LineHolds(rows, line)
        /\ order.substitute # None => LineHolds(rows, order.substitute)
        /\ Worth(order.lines) >= premise.minOrder

Accepted ==
    Accepts(reader.p, Read("customers"), Read("catalog"), Read("calendar"),
            Read("premises"), Read("demand"))

\* The verdict is printed; nothing is written.
Judge ==
    /\ Loaded("validate")
    /\ reader' = Still
    /\ UNCHANGED << tables, seeds, file, exp, partition, used >>

ReferenceNext ==
    \/ Change \/ KillExport
    \/ \E window \in Window : StartExport(window)
    \/ QueryCalendar \/ QueryCatalog \/ QueryTree \/ QueryDrift \/ QueryCustomers
    \/ QueryGenerations \/ WriteFile
    \/ \E p \in Target : StartValidate(p) \/ \E overwrite \in BOOLEAN : StartExtract(p, overwrite)
    \/ ReadFile \/ Extract \/ Judge

ReferenceSpec == ReferenceInit /\ [][ReferenceNext]_referenceVars

-----------------------------------------------------------------------------
(* What the files and the orders are worth.                                *)

OneExport ==
    /\ \A f \in DOMAIN file : file[f] # None
    /\ \A f \in DOMAIN file : file[f].made = file.demand.made

\* Every file of the reference comes from a begun export, prices from landed dates, and a
\* partition names the files it was generated from.
ReferenceTypeOK ==
    /\ tables.landed \subseteq Wh \X Day /\ DOMAIN tables.bases = Day
    /\ seeds.premise \in DOMAIN Premise /\ seeds.mapping \in DOMAIN Mapping
    /\ \A f \in DOMAIN file : file[f] # None => file[f].made \in 1 .. used.export
    /\ exp.pc \in {"idle", "calendar", "catalog", "tree", "drift", "customers", "profile",
                   "write"}
    /\ exp.pc \in {"catalog", "tree"} => exp.dates \subseteq Day
    /\ reader.verb \in {"none", "extract", "validate"}
    /\ \A p \in Target : partition[p] # None =>
         \A i \in 1 .. 5 : partition[p].manifest.reference[i] \in 1 .. used.export

\* What an export is about to write is enough to order from: every warehouse and day has a
\* price that is not of a later day, every catalog fills the largest basket and holds every
\* group the profile weighs, whatever landed between two queries (_assert_coverage).
PayloadsCover ==
    exp.pc = "write" =>
      LET out == exp.payload IN
      \A wh \in Wh : \A d \in Days(out.calendar.window) :
        LET as_of == out.calendar.rows[<< wh, d >>].price_as_of
            rows == {r \in out.catalog.rows : r.wh = wh /\ r.price_as_of = as_of}
        IN  /\ as_of <= d /\ << wh, as_of >> \in tables.landed
            /\ Cardinality({r.id : r \in rows}) = Cardinality(rows)
            /\ Cardinality(rows) >= Premise[out.premises.edition].lines[2]
            /\ \A g \in out.demand.weighted : \E r \in rows : r.group = g
            /\ \E c \in DOMAIN out.customers.rows : out.customers.rows[c].wh = wh

\* The golden rule: the customer of an order is in the generation it names, which is not of
\* a later day, lives where it says and is old enough; the product of every line and of a
\* substitute was on sale in that warehouse at that price on the day it names.  Also with
\* the files of two exports.
OrdersAreGrounded ==
    \A p \in Target : partition[p] # None =>
      LET order == partition[p].order
          premise == Premise[partition[p].manifest.premises]
          Sold(line) == \E r \in Catalog[p[1]][order.price_as_of] :
                          r.id = line.id /\ r.price = line.price /\ r.price > 0
      IN  /\ order.version <= p[2] /\ tables.bases[order.version] # None
          /\ order.customer \in DOMAIN tables.bases[order.version]
          /\ LET who == tables.bases[order.version][order.customer]
             IN  who.wh = p[1] /\ who.home = order.home /\ Year[p[2]] - who.birth >= premise.minAge
          /\ order.price_as_of <= p[2] /\ << p[1], order.price_as_of >> \in tables.landed
          /\ \A line \in order.lines : Sold(line)
          /\ order.substitute # None => Sold(order.substitute)

\* As long as no file of the reference was replaced, validate accepts what extract wrote:
\* the band, the version and the price basis are computed twice (orders_generator.py,
\* validate.py).
AFreshLogIsAccepted ==
    \A p \in Target :
      /\ partition[p] # None
      /\ \A i \in 1 .. 5 : file[Files[i]].made = partition[p].manifest.reference[i]
      => Accepts(p, file.customers, file.catalog, file.calendar, file.premises, file.demand)

\* The files of one export load into a usable reference: what _assert_coverage let through
\* is what Reference.__init__ demands.
AWholeExportLoads == OneExport => Usable(file.catalog, file.demand)

\* A partition of one export is accepted with the files of a later one, whose days may have
\* been observed since then and whose customers may have grown, under the same premises and
\* demand model (validate.py).
ALaterExportAccepts ==
    Loaded("validate") =>
      LET manifest == partition[reader.p].manifest
          Whole(made) == \A i \in 1 .. 5 : made[i] = made[1]
      IN  /\ Whole(manifest.reference)
          /\ Whole([i \in 1 .. 5 |-> reader.read[i].made])
          /\ manifest.premises = Read("premises").edition
          /\ manifest.version = Read("demand").version
          /\ reader.p \in DOMAIN Read("calendar").rows
          => Accepted

\* An export that passes its own check loads; what an order names existed on its day;
\* validate.py accepts the order with this export and with later ones.
ReferenceHolds ==
    /\ ReferenceTypeOK
    /\ PayloadsCover
    /\ AWholeExportLoads
    /\ OrdersAreGrounded
    /\ AFreshLogIsAccepted
    /\ ALaterExportAccepts

\* Growing the base by a later generation changes nobody's right to order on a day before
\* it (customer_version_at, first_ingestion_date).  Left out: a file that names a generation
\* which landed after its rows were read, and a customer with two warehouses.
KeepsTheDay ==
    \A wh \in Wh : \A d \in Day : \A age \in {Premise[i].minAge : i \in DOMAIN Premise} :
         /\ file.customers # None /\ ~Drifts(tables.bases)
         /\ \A g \in file.customers.generations :
              DOMAIN tables.bases[g] \subseteq DOMAIN file.customers.rows
         /\ file.customers.generations \subseteq file'.customers.generations
         /\ \A g \in file'.customers.generations \ file.customers.generations : g > d
         => Eligible(file'.customers, age, wh, d) = Eligible(file.customers, age, wh, d)
GrowthKeepsTheDay == [][KeepsTheDay]_file

\* Customers are read only while none of them has two warehouses: the export refuses instead
\* of choosing (_CUSTOMER_WAREHOUSE_DRIFT_SQL).
NoWarehouseIsChosen ==
    [][exp.pc = "customers" /\ exp'.pc = "profile" => ~Drifts(tables.bases)]_referenceVars

\* An accepted line carries the demand group the reference gives its product.
GroupsAreRechecked ==
    Loaded("validate") /\ Accepted =>
      \A line \in partition[reader.p].order.lines :
        \E r \in Read("catalog").rows :
          /\ r.wh = reader.p[1] /\ r.price_as_of = partition[reader.p].order.price_as_of
          /\ r.id = line.id /\ r.group = line.group

-----------------------------------------------------------------------------
(* What an order takes for granted of the tables.                          *)

Landing == {<< d, Bases[d] >> : d \in {d \in Day : Bases[d] # None}} \union NextBase

\* A later generation keeps everybody as he was.
BaseOnlyGrows ==
    \A g, h \in Landing : g[1] <= h[1] =>
        \A c \in DOMAIN Base[g[2]] :
            c \in DOMAIN Base[h[2]] /\ Base[h[2]][c] = Base[g[2]][c]

\* What lands while the program runs is later than the days it is asked for.
LaterIsLater ==
    \A p \in Target :
        /\ \A n \in NextBase : p[2] < n[1]
        /\ \A late \in LateCatalog : late[1] = p[1] => p[2] < late[2]

\* In the community of every warehouse somebody of every age band may buy.
EveryBandBuys ==
    \A window \in Window : \A e \in DOMAIN Premise : \A wh \in Wh : \A b \in DOMAIN AgeBand :
        \E d \in {d \in Day : Bases[d] # None} : \E c \in DOMAIN Base[Bases[d]] :
            LET who == Base[Bases[d]][c]
                age == AgeOn(who.birth, window[1])
            IN  /\ RegionOf[who.home] = WhRegion[wh]
                /\ age >= Premise[e].minAge /\ BandOf(age) = AgeBand[b][1]

\* Nobody's year of birth is corrected by another generation.
BirthsAreKept ==
    \A g, h \in Landing : \A c \in DOMAIN Base[g[2]] \intersect DOMAIN Base[h[2]] :
        Base[h[2]][c].birth = Base[g[2]][c].birth

\* A generation lands when those of earlier days have.
LandsInOrder ==
    \A d \in Day : tables.bases[d] = None /\ tables'.bases[d] # None =>
        \A g \in Generations(tables.bases) : g < d
=============================================================================
