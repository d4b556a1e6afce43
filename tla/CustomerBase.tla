----------------------------- MODULE CustomerBase -----------------------------
(***************************************************************************)
(* The synthetic customers, from Silver to RAW: the platform exports three *)
(* reference files (customers_reference.py); simulated-oltp-source reads   *)
(* them one after the other, generates the customers of a warehouse,       *)
(* writes the partition and validates it against the files of the moment;  *)
(* the DAG simulated_oltp_customers chains the verbs for every warehouse.  *)
(*                                                                         *)
(* Everything a customer is drawn from is kept, and of the customers of a  *)
(* partition one, arbitrary: what holds of it holds of all.  Proportions   *)
(* are integer weights, and a weight matters only by not being zero.  The  *)
(* distribution warnings of validate --strict need all the customers and   *)
(* are left out.                                                           *)
(***************************************************************************)
EXTENDS Integers, Sequences, FiniteSets, FiniteSetsExt, SequencesExt

CONSTANTS
    Warehouse,     \* the warehouses, in the order of their names
    Municipality, Province,
    ProvinceOf,    \* the province of a municipality
    Age,           \* single ages, in years
    Area,          \* editions of the service area seed: sets of << wh, municipality >>
    Callejero,     \* editions of the Callejero in Silver: sequences of tramos
    Population,    \* editions of table 29005: the series of each municipality
    Pyramid,       \* editions of table 31304: people by province and age
    MinAge,        \* values min_customer_age takes in its seed
    Percent,       \* penetration rate, in hundredths
    Habitat, AgeBand,  \* ine_online_propensity_seed: [low, high, pct]
    Count,         \* values of --count
    Branches,      \* warehouses the DAG runs
    ByHand,        \* warehouses whose verbs are typed as well, in any order
    None,
    MaxChange, MaxExport, MaxExtract, MaxCrash   \* bounds

ASSUME CustomerAssumption ==
    /\ {MaxChange, MaxExport, MaxExtract, MaxCrash} \subseteq Nat
    /\ Branches \union ByHand \subseteq Range(Warehouse)

\* Every table has a first edition; streets are numbered, and people counted,
\* in whole numbers.
ASSUME EditionsAssumption ==
    /\ Warehouse \in Seq(Range(Warehouse))
    /\ 1 \in DOMAIN Area /\ 1 \in DOMAIN Callejero
    /\ 1 \in DOMAIN Population /\ 1 \in DOMAIN Pyramid
    /\ \A e \in DOMAIN Callejero :
         /\ Callejero[e] \in Seq(Range(Callejero[e]))
         /\ \A t \in Range(Callejero[e]) : {t.from, t.to} \subseteq Nat
    /\ \A e \in DOMAIN Pyramid : \A p \in DOMAIN Pyramid[e] : Pyramid[e][p] \in [Age -> Nat]
    /\ Age \union MinAge \subseteq Nat

\* ine_online_propensity_seed: somebody of every age band buys online, and one of
\* the bands is the oldest.
ASSUME BandsAssumption ==
    /\ \A b \in AgeBand : b.pct \in Nat \ {0} /\ {b.low, b.high} \subseteq Nat
    /\ \E b \in AgeBand : \A c \in AgeBand : c.low <= b.low

Files == << "candidates", "weights", "ages" >>   \* in the order write() writes them
Wh == Range(Warehouse)

VARIABLES
    silver,    \* edition of each table and seed
    file,      \* the three reference files
    exp,       \* the export under way
    dag,       \* the DAG run
    branch,    \* per warehouse: the verb under way
    data, manifest, success,   \* per warehouse: the partition
    landed,    \* per warehouse: the objects the bucket holds
    used       \* what the bounds count

partition == << data, manifest, success >>
vars == << silver, file, exp, dag, branch, partition, landed, used >>

Idle == [pc |-> "idle"]
Still == [pc |-> "idle", chain |-> FALSE, overwrite |-> FALSE, count |-> None, read |-> << >>,
          made |-> None]

Spend(what, bound) == used[what] < bound /\ used' = [used EXCEPT ![what] = @ + 1]

Init ==
    /\ silver \in [area : {1}, callejero : {1}, population : {1}, pyramid : {1},
                   minAge : MinAge]
    /\ file = [f \in Range(Files) |-> None]
    /\ exp = Idle
    /\ dag = [phase |-> "idle", overwrite |-> FALSE]
    /\ branch = [wh \in Wh |-> Still]
    /\ data = [wh \in Wh |-> None]
    /\ manifest = [wh \in Wh |-> None]
    /\ success = [wh \in Wh |-> FALSE]
    /\ landed = [wh \in Wh |-> [data |-> None, manifest |-> None, success |-> FALSE]]
    /\ used = [change |-> 0, export |-> 0, extract |-> 0, crash |-> 0]

-----------------------------------------------------------------------------
(* What the export computes.                                               *)

\* Rows of address_candidates.json: the position of a row is its candidate_index.
CandidateRows(s) ==
    LET streets == Callejero[s.callejero]
        Row(wh, t) == IF << wh, t.municipality >> \in Area[s.area] /\ t.named
                      THEN << [wh |-> wh, tramo |-> t] >> ELSE << >>
    IN  FlattenSeq([i \in DOMAIN Warehouse |->
            FlattenSeq([j \in DOMAIN streets |-> Row(Warehouse[i], streets[j])])])

\* Rows of municipality_population_weights.json, before the propensity.
WeightRows(s) ==
    {[wh |-> a[1], municipality |-> a[2], population |-> Population[s.population][a[2]][1]] :
        a \in {a \in Area[s.area] : Population[s.population][a[2]] # << >>}}

\* _duplicates_sql
Duplicated(s) == \E a \in Area[s.area] : Len(Population[s.population][a[2]]) > 1

People(pyramid, p, from) ==
    MapThenSumSet(LAMBDA a : pyramid[p][a], {a \in Age : a >= from})
Whole(pyramid, p) == People(pyramid, p, 0)

\* The adult share of a province is outside (0, 1).
Degenerate(pyramid, from) ==
    \E p \in DOMAIN pyramid : ~(0 < People(pyramid, p, from)
                                /\ People(pyramid, p, from) < Whole(pyramid, p))

InBand(b, value) == b.low <= value /\ value <= b.high
PctOf(bands, value) == (CHOOSE b \in bands : InBand(b, value)).pct

\* Mutant of AgePct: an age no band covers buys nothing.
AgePctOrNothing(a) == IF \E b \in AgeBand : InBand(b, a) THEN PctOf(AgeBand, a) ELSE 0

\* The survey ends at 74: the oldest band stands for what lies beyond.
AgePct(a) ==
    IF \E b \in AgeBand : InBand(b, a) THEN PctOf(AgeBand, a)
    ELSE (CHOOSE b \in AgeBand : \A c \in AgeBand : c.low <= b.low).pct

AgeRows(pyramid, from) ==
    {[province |-> p, age |-> a, weight |-> pyramid[p][a] * AgePct(a)] :
        p \in DOMAIN pyramid, a \in {a \in Age : a >= from}}

\* floor(n / d + 1/2)
RoundHalfUp(n, d) == (2 * n + d) \div (2 * d)

\* Mutant of Customers: ten customers, split by population.
CustomersQuota(rows, pyramid, from, wh) ==
    RoundHalfUp(10 * MapThenSumSet(LAMBDA r : r.population, {r \in rows : r.wh = wh}),
                MapThenSumSet(LAMBDA r : r.population, rows))

\* _build_customer_allocation: adults of each municipality times the rate.
Customers(rows, pyramid, from, wh) ==
    LET whole == MapThenFoldSet(LAMBDA x, y : x * y, 1, LAMBDA p : Whole(pyramid, p),
                                LAMBDA S : CHOOSE p \in S : TRUE, DOMAIN pyramid)
        Adults(r) == LET p == ProvinceOf[r.municipality]
                     IN  r.population * People(pyramid, p, from) * (whole \div Whole(pyramid, p))
    IN  RoundHalfUp(Percent * MapThenSumSet(Adults, {r \in rows : r.wh = wh}), 100 * whole)

Places(rows) == {<< r.wh, r.municipality >> : r \in rows}
PlacesOf(candidates) == {<< r.wh, r.tramo.municipality >> : r \in Range(candidates)}

\* Mutant of Covered: the municipalities of the two files are not compared.
CoveredByProvince(candidates, rows, pyramid) ==
    \A r \in rows : ProvinceOf[r.municipality] \in DOMAIN pyramid

\* _assert_coverage
Covered(candidates, rows, pyramid) ==
    /\ PlacesOf(candidates) = Places(rows)
    /\ \A r \in rows : ProvinceOf[r.municipality] \in DOMAIN pyramid

\* _apply_online_propensity on the weights: after the allocation.
Reshaped(rows) ==
    {[wh |-> r.wh, municipality |-> r.municipality, population |-> r.population,
      weight |-> r.population * PctOf(Habitat, r.population)] : r \in rows}

-----------------------------------------------------------------------------
(* The export: one query after the other, on the Silver of the moment.     *)

\* Silver is rebuilt from a later edition, or a seed is edited.
Change ==
    /\ Spend("change", MaxChange)
    /\ \/ \E a \in DOMAIN Area : silver' = [silver EXCEPT !.area = a]
       \/ \E m \in MinAge : silver' = [silver EXCEPT !.minAge = m]
       \/ /\ silver.callejero + 1 \in DOMAIN Callejero
          /\ silver' = [silver EXCEPT !.callejero = @ + 1]
       \/ /\ silver.population + 1 \in DOMAIN Population
          /\ silver' = [silver EXCEPT !.population = @ + 1]
       \/ /\ silver.pyramid + 1 \in DOMAIN Pyramid
          /\ silver' = [silver EXCEPT !.pyramid = @ + 1]
    /\ UNCHANGED << file, exp, dag, branch, partition, landed >>

\* The premises are read first.
StartExport ==
    /\ exp = Idle
    /\ ByHand # {} \/ dag.phase = "export"
    /\ Spend("export", MaxExport)
    /\ exp' = [pc |-> "candidates", minAge |-> silver.minAge, made |-> used.export + 1]
    /\ UNCHANGED << silver, file, dag, branch, partition, landed >>

\* The export task of the DAG is over; its branches run only if it succeeded.
ExportEnds(ok) ==
    IF dag.phase # "export" THEN UNCHANGED << dag, branch >>
    ELSE IF ok
    THEN /\ dag' = [dag EXCEPT !.phase = "branches"]
         /\ branch' = [wh \in Wh |-> IF wh \in Branches /\ branch[wh] = Still
                                     THEN [Still EXCEPT !.pc = "gate", !.chain = TRUE,
                                                        !.overwrite = dag.overwrite]
                                     ELSE branch[wh]]
    ELSE dag' = [dag EXCEPT !.phase = "idle"] /\ UNCHANGED branch

RefuseExport ==
    /\ exp' = Idle
    /\ ExportEnds(FALSE)

QueryCandidates ==
    /\ exp.pc = "candidates"
    /\ LET rows == CandidateRows(silver) IN
       IF rows = << >> THEN RefuseExport
       ELSE /\ exp' = [pc |-> "weights", minAge |-> exp.minAge, made |-> exp.made,
                       candidates |-> [date |-> silver.callejero, rows |-> rows,
                                       made |-> exp.made]]
            /\ UNCHANGED << dag, branch >>
    /\ UNCHANGED << silver, file, partition, landed, used >>

QueryWeights ==
    /\ exp.pc = "weights"
    /\ IF Duplicated(silver) \/ WeightRows(silver) = {} THEN RefuseExport
       ELSE /\ exp' = [pc |-> "ages", minAge |-> exp.minAge, made |-> exp.made,
                       candidates |-> exp.candidates, rows |-> WeightRows(silver),
                       population |-> silver.population]
            /\ UNCHANGED << dag, branch >>
    /\ UNCHANGED << silver, file, partition, landed, used >>

\* The ages, and what follows them without a query: coverage, allocation, propensity.
QueryAges ==
    /\ exp.pc = "ages"
    /\ LET pyramid == Pyramid[silver.pyramid]
           allocation == [wh \in {r.wh : r \in exp.rows} |->
                            Customers(exp.rows, pyramid, exp.minAge, wh)]
       IN  IF \/ Degenerate(pyramid, exp.minAge)
              \/ ~Covered(exp.candidates.rows, exp.rows, pyramid)
              \/ \E wh \in DOMAIN allocation : allocation[wh] < 1
              \/ \E r \in exp.rows : ~\E b \in Habitat : InBand(b, r.population)
           THEN RefuseExport
           ELSE /\ exp' = [pc |-> "write",
                     left |-> Files,
                     payload |->
                       [candidates |-> exp.candidates,
                        weights |-> [date |-> exp.population, rows |-> Reshaped(exp.rows),
                                     minAge |-> exp.minAge, customers |-> allocation,
                                     made |-> exp.made],
                        ages |-> [date |-> silver.pyramid, minAge |-> exp.minAge,
                                  rows |-> AgeRows(pyramid, exp.minAge), made |-> exp.made]]]
                /\ UNCHANGED << dag, branch >>
    /\ UNCHANGED << silver, file, partition, landed, used >>

\* _write_json: each file is replaced at once, the three of them one by one.
WriteFile ==
    /\ exp.pc = "write"
    /\ file' = [file EXCEPT ![Head(exp.left)] = exp.payload[Head(exp.left)]]
    /\ IF Len(exp.left) = 1 THEN exp' = Idle /\ ExportEnds(TRUE)
       ELSE exp' = [exp EXCEPT !.left = Tail(@)] /\ UNCHANGED << dag, branch >>
    /\ UNCHANGED << silver, partition, landed, used >>

\* The process dies between two queries or two files.
KillExport ==
    /\ exp # Idle
    /\ Spend("crash", MaxCrash)
    /\ RefuseExport
    /\ UNCHANGED << silver, file, partition, landed >>

-----------------------------------------------------------------------------
(* extract: assert_writable, load, generate, then data, manifest, _SUCCESS. *)

To(wh, pc) == branch' = [branch EXCEPT ![wh].pc = pc]
Ends(wh) == branch' = [branch EXCEPT ![wh] = Still]

StartExtract(wh, overwrite, count) ==
    /\ wh \in ByHand
    /\ branch[wh] = Still
    /\ Spend("extract", MaxExtract)
    /\ branch' = [branch EXCEPT ![wh] = [Still EXCEPT !.pc = "extract", !.count = count,
                                                      !.overwrite = overwrite]]
    /\ UNCHANGED << silver, file, exp, dag, partition, landed >>

\* Mutant of Loads: it does not wait for the whole set.
LoadsTwo(read) == Len(read) = 2

\* All three files are in memory.
Loads(read) == Len(read) = 3

\* assert_writable; the DAG skips the task instead, and goes on to validate.
Open(wh) ==
    /\ branch[wh].pc = "extract"
    /\ IF branch[wh].overwrite \/ (~success[wh] /\ manifest[wh] = None)
       THEN To(wh, "load")
       ELSE IF branch[wh].chain /\ success[wh] THEN To(wh, "reread") ELSE Ends(wh)
    /\ UNCHANGED << silver, file, exp, dag, partition, landed, used >>

\* _load_file, in the order of load(); for extract and for validate.
ReadFile(wh) ==
    /\ branch[wh].pc \in {"load", "reread"}
    /\ Len(branch[wh].read) < 3
    /\ LET f == Files[Len(branch[wh].read) + 1] IN
       IF file[f] = None THEN Ends(wh)
       ELSE branch' = [branch EXCEPT ![wh].read = Append(@, file[f])]
    /\ UNCHANGED << silver, file, exp, dag, partition, landed, used >>

\* Mutant of HouseNumbers: the parity of the street is not looked at.
HouseNumbersAny(t) ==
    LET low == Max({1, Min({t.from, t.to})})
    IN  IF t.numbering \notin {"odd", "even"} \/ low > Max({t.from, t.to}) THEN {None}
        ELSE low .. Max({t.from, t.to})

\* pick_house_number
HouseNumbers(t) ==
    LET parity == IF t.numbering = "odd" THEN 1 ELSE 0
        range == {n \in Max({1, Min({t.from, t.to})}) .. Max({t.from, t.to}) : n % 2 = parity}
    IN  IF t.numbering \notin {"odd", "even"} \/ range = {} THEN {None} ELSE range

\* What one of the customers generate draws is drawn from: a municipality of the
\* warehouse, one of its addresses, a number in the street, an age of its province.
\* Where one of them is missing no draw is possible, and the seed decides whether
\* it is met.
Draw(wh, row, r, x) ==
    /\ r.wh = wh /\ r.weight > 0
    /\ row.wh = wh /\ row.tramo.municipality = r.municipality
    /\ x.weight > 0 /\ x.province = ProvinceOf[r.municipality]

Customer(wh, tramo, i, n, x) ==
    [wh |-> wh, index |-> i, municipality |-> tramo.municipality,
     numbering |-> tramo.numbering, street |-> tramo.street, number |-> n, age |-> x.age]

\* generate may meet a municipality or a province the other files do not have.
Unsupported(wh, c, w, a) ==
    \E r \in {r \in w.rows : r.wh = wh /\ r.weight > 0} :
        \/ << wh, r.municipality >> \notin PlacesOf(c.rows)
        \/ \A x \in a.rows : x.province # ProvinceOf[r.municipality]

Generate(wh) ==
    /\ branch[wh].pc = "load" /\ Loads(branch[wh].read)
    /\ LET c == branch[wh].read[1]
           w == branch[wh].read[2]
           a == branch[wh].read[3]
           count == IF branch[wh].count = None THEN w.customers[wh] ELSE branch[wh].count
       IN  \/ /\ wh \in DOMAIN w.customers
              /\ \E i \in DOMAIN c.rows, r \in w.rows, x \in a.rows :
                 \E n \in HouseNumbers(c.rows[i].tramo) :
                    /\ Draw(wh, c.rows[i], r, x)
                    /\ branch' = [branch EXCEPT ![wh].pc = "data", ![wh].read = << >>,
                         ![wh].made = [data |-> [count |-> count,
                                                 one |-> Customer(wh, c.rows[i].tramo, i, n, x)],
                                       callejero |-> c.date, minAge |-> a.minAge,
                                       sizedFor |-> w.minAge,
                                       reference |-> << c.made, w.made, a.made >>]]
           \/ (wh \notin DOMAIN w.customers \/ Unsupported(wh, c, w, a)) /\ Ends(wh)
    /\ UNCHANGED << silver, file, exp, dag, partition, landed, used >>

WriteData(wh) ==
    /\ branch[wh].pc = "data"
    /\ data' = [data EXCEPT ![wh] = branch[wh].made.data]
    /\ To(wh, "manifest")
    /\ UNCHANGED << silver, file, exp, dag, manifest, success, landed, used >>

\* Mutant of WriteManifest: it names the age the weights were made for.
WriteManifestOfTheWeights(wh) ==
    /\ branch[wh].pc = "manifest"
    /\ manifest' = [manifest EXCEPT ![wh] =
                      [branch[wh].made EXCEPT !.minAge = branch[wh].made.sizedFor]]
    /\ To(wh, "mark")
    /\ UNCHANGED << silver, file, exp, dag, data, success, landed, used >>

WriteManifest(wh) ==
    /\ branch[wh].pc = "manifest"
    /\ manifest' = [manifest EXCEPT ![wh] = branch[wh].made]
    /\ To(wh, "mark")
    /\ UNCHANGED << silver, file, exp, dag, data, success, landed, used >>

\* Mutant of Mark: the verb stays in its last phase.
MarkMisnamed(wh) ==
    /\ branch[wh].pc = "mark"
    /\ success' = [success EXCEPT ![wh] = TRUE]
    /\ To(wh, "done")
    /\ UNCHANGED << silver, file, exp, dag, data, manifest, landed, used >>

\* In the DAG the next task validates.
Mark(wh) ==
    /\ branch[wh].pc = "mark"
    /\ success' = [success EXCEPT ![wh] = TRUE]
    /\ IF branch[wh].chain
       THEN branch' = [branch EXCEPT ![wh].pc = "reread", ![wh].made = None]
       ELSE Ends(wh)
    /\ UNCHANGED << silver, file, exp, dag, data, manifest, landed, used >>

Kill(wh) ==
    /\ branch[wh] # Still
    /\ Spend("crash", MaxCrash)
    /\ Ends(wh)
    /\ UNCHANGED << silver, file, exp, dag, partition, landed >>

-----------------------------------------------------------------------------
(* validate, and the rest of a branch of the DAG.                          *)

StartValidate(wh) ==
    /\ wh \in ByHand
    /\ branch[wh] = Still
    /\ manifest[wh] # None
    /\ Spend("extract", MaxExtract)
    /\ branch' = [branch EXCEPT ![wh] = [Still EXCEPT !.pc = "reread"]]
    /\ UNCHANGED << silver, file, exp, dag, partition, landed >>

\* Mutant of HouseNumberOk: it takes the range as written in the Callejero.
HouseNumberOkAsWritten(number, t) ==
    \/ number = None
    \/ /\ number >= 1 /\ t.numbering # "none"
       /\ number % 2 = (IF t.numbering = "odd" THEN 1 ELSE 0)
       /\ t.from <= number /\ number <= t.to

\* _check_house_number
HouseNumberOk(number, t) ==
    \/ number = None
    \/ /\ number >= 1 /\ t.numbering # "none"
       /\ number % 2 = (IF t.numbering = "odd" THEN 1 ELSE 0)
       /\ Min({t.from, t.to}) <= number /\ number <= Max({t.from, t.to})

\* Mutant of Intact: the checksums are not recomputed.
IntactByMarker(wh) == success[wh] /\ manifest[wh] # None /\ data[wh] # None

\* The integrity half of validate.run.
Intact(wh) ==
    /\ success[wh] /\ manifest[wh] # None
    /\ data[wh] = manifest[wh].data

\* _check_minimum_age and _check_reference, for one customer.
Coherent(wh, one, c, w, a) ==
    /\ one.age >= a.minAge
    /\ one.wh = wh /\ one.index \in DOMAIN c.rows
    /\ LET row == c.rows[one.index] IN
       /\ row.wh = wh /\ row.tramo.municipality = one.municipality
       /\ row.tramo.street = one.street /\ row.tramo.numbering = one.numbering
       /\ HouseNumberOk(one.number, row.tramo)
    /\ << wh, one.municipality >> \in Places(w.rows)

Accepts(wh, c, w, a) ==
    /\ Intact(wh)
    /\ manifest[wh].callejero = c.date
    /\ Coherent(wh, data[wh].one, c, w, a)

Judge(wh) ==
    /\ branch[wh].pc = "reread" /\ Loads(branch[wh].read)
    /\ IF branch[wh].chain /\ Accepts(wh, branch[wh].read[1], branch[wh].read[2],
                                      branch[wh].read[3])
       THEN branch' = [branch EXCEPT ![wh].pc = "land", ![wh].read = << >>]
       ELSE Ends(wh)
    /\ UNCHANGED << silver, file, exp, dag, partition, landed, used >>

StartRun(overwrite) ==
    /\ dag.phase = "idle"
    /\ Branches # {}
    /\ used.export < MaxExport
    /\ \A wh \in Branches : branch[wh] = Still
    /\ exp = Idle
    /\ dag' = [phase |-> "export", overwrite |-> overwrite]
    /\ UNCHANGED << silver, file, exp, branch, partition, landed, used >>

\* verify: what the local manifest declares, the manifest itself and the mark.
Verified(wh) ==
    /\ success[wh] /\ manifest[wh] # None
    /\ landed[wh] = [data |-> manifest[wh].data, manifest |-> manifest[wh], success |-> TRUE]

\* already_landed
Gate(wh) ==
    /\ branch[wh].pc = "gate"
    /\ IF ~branch[wh].overwrite /\ Verified(wh) THEN Ends(wh) ELSE To(wh, "extract")
    /\ UNCHANGED << silver, file, exp, dag, partition, landed, used >>

\* land: one object after the other, in place of the one the bucket holds, under
\* the mark of an earlier landing if there is one.  A file that is not as the
\* manifest declares it is refused; Kill stands for a put that fails.
LandData(wh) ==
    /\ branch[wh].pc = "land"
    /\ IF Intact(wh)
       THEN landed' = [landed EXCEPT ![wh].data = data[wh]] /\ To(wh, "land_manifest")
       ELSE Ends(wh) /\ UNCHANGED landed
    /\ UNCHANGED << silver, file, exp, dag, partition, used >>

LandManifest(wh) ==
    /\ branch[wh].pc = "land_manifest"
    /\ landed' = [landed EXCEPT ![wh].manifest = manifest[wh]]
    /\ To(wh, "land_mark")
    /\ UNCHANGED << silver, file, exp, dag, partition, used >>

LandMark(wh) ==
    /\ branch[wh].pc = "land_mark"
    /\ landed' = [landed EXCEPT ![wh].success = TRUE]
    /\ To(wh, "verify")
    /\ UNCHANGED << silver, file, exp, dag, partition, used >>

\* verify-landing: red or green, it is the last task of the branch.
VerifyLanding(wh) ==
    /\ branch[wh].pc = "verify"
    /\ Ends(wh)
    /\ UNCHANGED << silver, file, exp, dag, partition, landed, used >>

EndRun ==
    /\ dag.phase = "branches"
    /\ \A wh \in Branches : ~branch[wh].chain
    /\ dag' = [phase |-> "idle", overwrite |-> FALSE]
    /\ UNCHANGED << silver, file, exp, branch, partition, landed, used >>

-----------------------------------------------------------------------------
ExportStep == StartExport \/ QueryCandidates \/ QueryWeights \/ QueryAges \/ WriteFile

BranchStep(wh) ==
    \/ Gate(wh) \/ Open(wh) \/ ReadFile(wh) \/ Generate(wh)
    \/ WriteData(wh) \/ WriteManifest(wh) \/ Mark(wh) \/ Judge(wh)
    \/ LandData(wh) \/ LandManifest(wh) \/ LandMark(wh) \/ VerifyLanding(wh)

Next ==
    \/ Change \/ ExportStep \/ KillExport
    \/ \E wh \in Wh :
         \/ BranchStep(wh) \/ Kill(wh) \/ StartValidate(wh)
         \/ \E overwrite \in BOOLEAN, count \in Count \union {None} :
              StartExtract(wh, overwrite, count)
    \/ \E overwrite \in BOOLEAN : StartRun(overwrite)
    \/ EndRun

Spec == Init /\ [][Next]_vars

\* A task that has started goes on; people and Silver owe nothing.
FairSpec ==
    /\ Spec
    /\ WF_vars(dag.phase = "export" /\ ExportStep)
    /\ \A wh \in Wh : WF_vars(branch[wh].chain /\ BranchStep(wh))
    /\ WF_vars(EndRun)

-----------------------------------------------------------------------------
(* Properties.                                                             *)

\* Every variable keeps its shape.
TypeOK ==
    /\ silver.area \in DOMAIN Area /\ silver.callejero \in DOMAIN Callejero
    /\ silver.population \in DOMAIN Population /\ silver.pyramid \in DOMAIN Pyramid
    /\ silver.minAge \in MinAge
    /\ exp.pc \in {"idle", "candidates", "weights", "ages", "write"}
    /\ dag.phase \in {"idle", "export", "branches"}
    /\ \A wh \in Wh :
         /\ branch[wh].pc \in {"idle", "gate", "extract", "load", "data", "manifest", "mark",
                               "reread", "land", "land_manifest", "land_mark", "verify"}
         /\ landed[wh].success \in BOOLEAN
         /\ Len(branch[wh].read) \in 0 .. 3
         /\ success[wh] \in BOOLEAN
    /\ \A what \in DOMAIN used : used[what] \in Nat

\* customers_reference.py, coherence across the three files: what an export
\* writes covers every municipality and province in all three, although Silver and
\* the seeds may change between its queries.
PayloadsCover ==
    exp.pc = "write" =>
        LET p == exp.payload IN
        /\ PlacesOf(p.candidates.rows) = Places(p.weights.rows)
        /\ DOMAIN p.weights.customers = {r.wh : r \in p.weights.rows}
        /\ \A wh \in DOMAIN p.weights.customers :
             ~Unsupported(wh, p.candidates, p.weights, p.ages)

\* customers_reference.py: the propensity reshapes who the customers are; no adult
\* age of the pyramid drops out of the draw, not even beyond the survey's 74 years.
NoAdultIsLeftOut ==
    exp.pc = "write" =>
        LET pyramid == Pyramid[exp.payload.ages.date] IN
        \A p \in DOMAIN pyramid, a \in Age :
            a >= exp.payload.ages.minAge /\ pyramid[p][a] > 0 =>
                \E x \in exp.payload.ages.rows :
                    x.province = p /\ x.age = a /\ x.weight > 0

PeopleAged(w, wh) == {r \in w.rows : r.wh = wh}

\* customers_reference.py: the total is a consequence and not a quota.  From one
\* export to the next, with the same population, pyramid and minimum age, a warehouse
\* that keeps its municipalities keeps its number of customers, and one that gains
\* some does not lose customers.
KeepsItsCustomers ==
    LET old == file.weights  new == file'.weights IN
    old # None /\ new # None
    /\ old.date = new.date /\ old.minAge = new.minAge /\ Len(Pyramid) = 1 =>
      \A wh \in DOMAIN old.customers \intersect DOMAIN new.customers :
        /\ PeopleAged(old, wh) = PeopleAged(new, wh)
             => new.customers[wh] = old.customers[wh]
        /\ PeopleAged(old, wh) \subseteq PeopleAged(new, wh)
             => new.customers[wh] >= old.customers[wh]
NobodyPaysForANewMunicipality == [][KeepsItsCustomers]_vars

\* customers_generator.py, the golden rule: zero geographic randomness.  A customer
\* lives at a tramo of the Callejero edition its manifest names, in a municipality of
\* its warehouse, at a number the street has; also when the three files it was drawn
\* from are not of one export.
HomesAreReal ==
    \A wh \in Wh : Intact(wh) =>
        LET one == data[wh].one IN
        /\ \E area \in Range(Area) : << wh, one.municipality >> \in area
        /\ \E t \in Range(Callejero[manifest[wh].callejero]) :
             /\ t.municipality = one.municipality /\ t.street = one.street
             /\ one.number # None =>
                  /\ t.numbering \in {"odd", "even"}
                  /\ (one.number % 2 = 1) = (t.numbering = "odd")
                  /\ one.number \in Min({t.from, t.to}) .. Max({t.from, t.to})
                  /\ one.number # 0

\* CONTRACT.md of simulated-oltp-source: the age is always at least the
\* min_customer_age the manifest records, whatever is exported meanwhile.
NoMinorIsACustomer ==
    \A wh \in Wh : Intact(wh) => data[wh].one.age >= manifest[wh].minAge

\* validate.py rereads what extract.py read: while no file of the reference is
\* replaced, a base that was generated whole is accepted.
AFreshBaseIsAccepted ==
    \A wh \in Wh :
        /\ Intact(wh)
        /\ \A i \in 1 .. 3 : /\ file[Files[i]] # None
                             /\ file[Files[i]].made = manifest[wh].reference[i]
        => Accepts(wh, file.candidates, file.weights, file.ages)

\* simulated_oltp_customers.py, land >> verify: a landing nothing interrupts ends
\* with the partition it validated, object for object, also over one that died
\* before it.
LandingsEndVerified == \A wh \in Wh : branch[wh].pc = "verify" => Verified(wh)

\* land.py:124-135: a bucket that announces the data of one generation under the
\* manifest of another is being landed on at this moment, or something died.
MixturesHaveACause ==
    \A wh \in Wh :
        landed[wh].success /\ landed[wh].data # landed[wh].manifest.data =>
            branch[wh].pc = "land_manifest" \/ used.crash > 0

\* customers_reference.py: the three files of an export cover one another, though
\* Silver moved between its queries, and no adult age is without a band.
ReferenceCovers ==
    /\ TypeOK
    /\ PayloadsCover
    /\ NoAdultIsLeftOut

\* customers_generator.py: homes exist and nobody is a minor, even from files of
\* two exports; a base fresh from one export is accepted; and the objects of a
\* base land one by one, so that only one that died leaves two bases mixed.
BaseIsSound ==
    /\ HomesAreReal
    /\ NoMinorIsACustomer
    /\ AFreshBaseIsAccepted
    /\ LandingsEndVerified
    /\ MixturesHaveACause

\* simulated_oltp_customers.py: a run of the DAG ends, whatever is refused or dies.
RunsEnd == dag.phase # "idle" ~> dag.phase = "idle"

\* reference_data.py:4-6: the file is distrusted, and a truncated export fails the
\* generation.  A base is as large as the adults of the very age its customers have
\* reached, as CONTRACT.md derives it.
CountedAndAgedAlike ==
    \A wh \in Wh : Intact(wh) => manifest[wh].sizedFor = manifest[wh].minAge

\* simulated_oltp_customers.py:167-170 and 208-210: a complete partition is not
\* extracted again, which is no failure, and is validated against the reference that
\* generated it; so a whole base is accepted whenever it is judged.
AWholeBaseIsAccepted ==
    \A wh \in Wh :
        LET read == branch[wh].read IN
        branch[wh].pc = "reread" /\ Len(read) = 3 /\ Intact(wh) =>
            Accepts(wh, read[1], read[2], read[3])
=============================================================================
