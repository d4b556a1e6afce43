--------------------------- MODULE MCOrderReference ---------------------------
(* Where the orders of a day come from and when they happen, side by side: a *)
(* behaviour is of one setting.  OrderReference has two warehouses of two    *)
(* communities, the last two days of a year and the first two of the next.   *)
(*   exports   what the export makes of Silver while it changes              *)
(*   orders    one extraction or validation among two exports                *)
(*   again     a partition validated with the files of a later export        *)
(*   calendar  OrderCalendar: the days around a Sunday on which the clock is *)
(*             moved, and every schedule over a turn of the year with odd    *)
(*             premises; day 0 is a Monday, so day 6 is a Sunday             *)
EXTENDS OrderReference, OrderCalendar

TwoWh == {"mad", "vlc"}
Communities == [wh \in TwoWh |-> IF wh = "mad" THEN "centre" ELSE "east"]
Homes == [h \in {"mad_home", "vlc_home"} |-> IF h = "mad_home" THEN "centre" ELSE "east"]
FourDays == 0 .. 3
NewYear == [d \in FourDays |-> IF d < 2 THEN 2025 ELSE 2026]

Row(id, l1, l2, l3, price) == [id |-> id, at |-> << l1, l2, l3 >>, price |-> price]

\* Cheese is in two categories, tripe has no price to buy at, soap belongs to a block that
\* weighs nothing.
Shelf(milk) ==
    {Row("milk", 1, 1, 1, milk), Row("cheese", 1, 1, 2, 3), Row("cheese", 1, 2, 4, 3),
     Row("bread", 1, 2, 3, 2), Row("tripe", 1, 2, 4, 0), Row("soap", 2, 3, 5, 1)}

\* On day 2 vlc sells only soaps.
Shelves ==
    [wh \in TwoWh |-> [d \in FourDays |->
        IF wh = "vlc" /\ d = 2 THEN {Row("soap", 2, 3, 5, 1), Row("soda", 2, 3, 5, 2)}
        ELSE Shelf(IF wh = "mad" THEN d + 2 ELSE d + 6)]]

Rule(l1, l2, l3, group) == [at |-> << l1, l2, l3 >>, group |-> group]

\* The second edition puts cheese in a group of its own.
Rules1 == {Rule(1, 0, 0, "food"), Rule(0, 2, 0, "bakery"), Rule(2, 0, 0, "home")}
Rules2 == Rules1 \union {Rule(0, 0, 2, "dairy")}
TwoMappings == << Rules1, Rules2 >>

Premise1 == [minAge |-> 18, lines |-> << 1, 2 >>, minOrder |-> 3]
Premise2 == [minAge |-> 18, lines |-> << 2, 3 >>, minOrder |-> 3]
OnePremise == << Premise1 >>
TwoPremises == << Premise1, Premise2 >>

Bands == << << "young", 19 >>, << "old", None >> >>
NonFood == {"home"}

Who(wh, birth) == [wh |-> wh, home |-> IF wh = "mad" THEN "mad_home" ELSE "vlc_home",
                   birth |-> birth]

\* m1 and v2 grow out of the young band and m4 into it when the year turns.
Steady == [c \in {"m1", "m2", "m3", "m4", "v1", "v2"} |->
            CASE c = "m1" -> Who("mad", 2006) [] c = "m2" -> Who("mad", 2007)
              [] c = "m3" -> Who("mad", 1960) [] c = "m4" -> Who("mad", 2008)
              [] c = "v1" -> Who("vlc", 1960) [] c = "v2" -> Who("vlc", 2006)]
Grown == [c \in DOMAIN Steady \union {"v3"} |->
            IF c = "v3" THEN Who("vlc", 1970) ELSE Steady[c]]
\* m1 lives in the other warehouse's area.
Moved == [Steady EXCEPT !["m1"] = Who("vlc", 2006)]

OneGeneration == [d \in FourDays |-> IF d = 0 THEN "steady" ELSE None]
AllBases == [n \in {"steady", "grown", "moved"} |->
               CASE n = "steady" -> Steady [] n = "grown" -> Grown [] n = "moved" -> Moved]

\* A short shelf and baskets of one line, for the runs that read the reference twice.
FewProducts == [wh \in TwoWh |-> [d \in FourDays |->
    {Row("milk", 1, 1, 1, IF wh = "mad" THEN d + 3 ELSE d + 7), Row("cheese", 1, 1, 2, 3)}]]
FoodRule == << {Rule(1, 0, 0, "food")} >>
OneLine == << [minAge |-> 18, lines |-> << 1, 1 >>, minOrder |-> 3] >>
EndOfYear == {<< "mad", 1 >>, << "vlc", 2 >>}
EndOfYearMad == {<< "mad", 1 >>}

FirstDays == TwoWh \X {0}
VlcLate == {<< "mad", 0 >>, << "vlc", 1 >>}
GrowsOnDay2 == {<< 2, "grown" >>}
GrowsOnDay3 == {<< 3, "grown" >>}
MovesOnDay2 == {<< 2, "grown" >>, << 2, "moved" >>}
\* Day 1 of mad is observed late, day 3 in time.
LateDay1 == {<< "mad", 1 >>}
Day2 == {<< "vlc", 2 >>, << "mad", 2 >>}
Day3 == {<< "mad", 3 >>}
LateAndSoaps == LateDay1 \union Day2 \union {<< "vlc", 0 >>}
AcrossTheYear == {<< 0, 1 >>, << 1, 2 >>}
EveryWindow == {<< 0, 1 >>, << 1, 2 >>, << 0, 3 >>}

-----------------------------------------------------------------------------
\* order_premises_seed.csv, with the hours that bound the day.
Declared ==
    [minutes_to_payment |-> << 1, 12 >>, minutes_to_cancel |-> << 3, 180 >>,
     minutes_dispatch_before_slot |-> << 30, 120 >>,
     minutes_picked_before_dispatch |-> << 10, 60 >>,
     minutes_to_return |-> << 60, 2880 >>, basket_lines |-> << 3, 40 >>,
     minutes_per_line_picked |-> 2,
     delivery_open_hour |-> 7, delivery_close_hour |-> 22, slot_hours |-> 1,
     delivery_closed_isoweekday |-> 7, slot_lead_days |-> {1, 2, 3},
     delivery_early_max_minutes |-> 15, delivery_late_max_minutes |-> 45,
     order_hour_weight |-> [h \in 0 .. 23 |-> IF h \in {0, 1, 2, 3, 12, 23} THEN 1 ELSE 0],
     slot_hour_weight |-> [h \in 0 .. 23 |-> IF h \in {7, 21} THEN 1 ELSE 0]]

DeclaredPremise == {Declared}

\* Tables the checks refuse, and one with weight only in hours nobody may order at.
OddPremise ==
    {[Declared EXCEPT !.basket_lines = << 4, 3 >>],
     [Declared EXCEPT !.delivery_close_hour = 7],
     [Declared EXCEPT !.order_hour_weight = [h \in 0 .. 23 |-> IF h = 0 THEN 1 ELSE 0],
                      !.slot_lead_days = {2}, !.basket_lines = << 3, 3 >>]}

EverySchedule ==
    UNION {{c} \X (1 .. 7) \X (0 .. c \div 7 - 1) : c \in {7, 14, 21, 28}}
Weekly == {7} \X (1 .. 7) \X {0}

\* The days before and after the Sunday of the change, and a turn of the year.
ChangeDays == 4 .. 7
YearDays == 357 .. 378

\* The clock is moved at one o'clock of that Sunday, forward or back.
AtOneOnSunday == 6 * 2880 + 120
Spring == [switch |-> AtOneOnSunday, before |-> 120, after |-> 240]
Autumn == [switch |-> AtOneOnSunday, before |-> 240, after |-> 120]

\* Both changes of the clock, and every schedule over a turn of the year.
Settings ==
    [premise : DeclaredPremise, schedule : Weekly, day : ChangeDays, clock : {Spring, Autumn}]
    \union
    [premise : OddPremise, schedule : EverySchedule, day : YearDays, clock : {Spring}]

-----------------------------------------------------------------------------
VARIABLES
    moves,   \* which setting this behaviour is of
    otherTables, otherSeeds, otherFile, otherExp, otherReader, otherPartition, otherUsed

otherVars ==
    << otherTables, otherSeeds, otherFile, otherExp, otherReader, otherPartition, otherUsed >>

Exports == INSTANCE OrderReference
    WITH Window <- EveryWindow, Catalog <- Shelves, Mapping <- TwoMappings,
         Premise <- TwoPremises, Target <- EndOfYear, Landed <- VlcLate,
         LateCatalog <- LateAndSoaps, NextBase <- MovesOnDay2, MaxChange <- 2, MaxRead <- 0,
         MaxCrash <- 1,
         tables <- otherTables, seeds <- otherSeeds, file <- otherFile, exp <- otherExp,
         reader <- otherReader, partition <- otherPartition, used <- otherUsed

Made == INSTANCE OrderReference
    WITH Catalog <- Shelves, Mapping <- TwoMappings, Premise <- OnePremise,
         Target <- EndOfYear, LateCatalog <- LateDay1, NextBase <- GrowsOnDay2, MaxRead <- 1,
         tables <- otherTables, seeds <- otherSeeds, file <- otherFile, exp <- otherExp,
         reader <- otherReader, partition <- otherPartition, used <- otherUsed

\* What the theorems on the reference suppose of the tables holds of these.
ASSUME ReferenceHypotheses ==
    /\ BaseOnlyGrows /\ LaterIsLater /\ EveryBandBuys
    /\ Made!BaseOnlyGrows /\ Made!EveryBandBuys /\ Exports!BirthsAreKept

OrderAtRest == CalendarInit /\ schedule = << 7, 1, 0 >> /\ day = 4 /\ clock = Spring

AllInit ==
    /\ ReferenceInit
    /\ \/ moves = "exports" /\ Exports!ReferenceInit /\ OrderAtRest
       \/ moves = "orders" /\ Made!ReferenceInit /\ OrderAtRest
       \/ moves = "again" /\ Made!ReferenceInit /\ OrderAtRest
       \/ moves = "calendar" /\ Made!ReferenceInit /\ CalendarInit

AllNext ==
    \/ /\ \/ moves = "exports" /\ Exports!ReferenceNext
          \/ moves = "orders" /\ Made!ReferenceNext
       /\ UNCHANGED << moves, referenceVars, calendarVars >>
    \/ /\ moves = "again" /\ ReferenceNext
       /\ UNCHANGED << moves, otherVars, calendarVars >>
    \/ /\ moves = "calendar" /\ CalendarNext
       /\ UNCHANGED << moves, referenceVars, otherVars >>

AllSpec == AllInit /\ [][AllNext]_<< moves, referenceVars, otherVars, calendarVars >>

-----------------------------------------------------------------------------
\* customer_version_at: growing the base changes nobody's right to order on an
\* earlier day.
GrowthKeepsEveryDay == [][(moves = "exports") => Exports!KeepsTheDay]_otherFile

\* What the theorem on growth supposes of the order in which generations land.
OrderIsKept == [][(moves = "exports") => Exports!LandsInOrder]_otherTables

\* The reference holds of every setting, and of the one with the most exports that
\* growth keeps the day; the variables of the calendar keep their shape.
EverySettingHolds ==
    /\ [](moves = "exports" => Exports!ReferenceHolds)
    /\ [](moves = "orders" => Made!ReferenceHolds)
    /\ GrowthKeepsEveryDay
    /\ OrderIsKept
    /\ []CalendarTypeOK
=============================================================================
