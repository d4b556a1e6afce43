--------------------------- MODULE MCCustomerBase ---------------------------
(* A small country for CustomerBase: two warehouses, three municipalities, *)
(* two provinces.  m2 is in the area of mad in one edition of the seed     *)
(* only, and lies in the province of vlc.  Four settings side by side; a   *)
(* behaviour is of one of them.                                            *)
(*   export   the tables of Silver change between the queries of exports   *)
(*   area     the service area is edited, and nothing else of the weights  *)
(*   by hand  exports, extractions and validations typed in any order      *)
(*   dag      the run of the DAG, killed and repeated                      *)
EXTENDS CustomerBase

CONSTANTS mad, vlc, m1, m2, m3, pa, pb

MCWarehouse == << mad, vlc >>
MCMunicipality == {m1, m2, m3}
MCProvince == {pa, pb}
MCProvinceOf == [m \in MCMunicipality |-> IF m = m1 THEN pa ELSE pb]
MCAge == {10, 20, 80}
MCArea == << {<< mad, m1 >>, << vlc, m3 >>}, {<< mad, m1 >>, << mad, m2 >>, << vlc, m3 >>} >>

Tramo(m, street, numbering, from, to) ==
    [municipality |-> m, street |-> street, numbering |-> numbering, from |-> from,
     to |-> to, named |-> TRUE]

\* A range written backwards, one with no number of its parity, one without numbers,
\* one that starts at zero; in the second edition the first street is gone,
\* in the third the street of the last tramo is not found.
Streets == << Tramo(m1, "a", "odd", 5, 2), Tramo(m1, "b", "even", 3, 3), Tramo(m1, "e", "even", 0, 2),
              Tramo(m2, "c", "none", 1, 9), Tramo(m3, "d", "even", 0, 2) >>
MCCallejero == << Streets, Tail(Streets), [Streets EXCEPT ![5] = [@ EXCEPT !.named = FALSE]] >>
OneCallejero == << Streets >>
TwoCallejero == << Streets, Tail(Streets) >>

PeopleIn(n1, n2, n3) == [m \in MCMunicipality |-> IF m = m1 THEN n1 ELSE IF m = m2 THEN n2 ELSE n3]
MCPopulation == << PeopleIn(<< 40 >>, << 9 >>, << 25 >>), PeopleIn(<< 40 >>, << 9 >>, << 25, 3 >>),
                   PeopleIn(<< 45 >>, << >>, << 2 >>) >>
OnePopulation == << PeopleIn(<< 40 >>, << 9 >>, << 25 >>) >>

Aged(n, o, p) == [a \in MCAge |-> IF a = 10 THEN n ELSE IF a = 20 THEN o ELSE p]
MCPyramid == << [p \in MCProvince |-> IF p = pa THEN Aged(2, 5, 3) ELSE Aged(4, 4, 2)],
                [p \in {pa} |-> Aged(2, 5, 3)],
                [p \in MCProvince |-> Aged(0, 5, 3)] >>
OnePyramid == << MCPyramid[1] >>

MCHabitat == {[low |-> 0, high |-> 10, pct |-> 30], [low |-> 11, high |-> 44, pct |-> 40]}
MCAgeBand == {[low |-> 16, high |-> 44, pct |-> 50], [low |-> 45, high |-> 74, pct |-> 12]}

VARIABLE moves  \* which setting this behaviour is of

AreaEdited == INSTANCE CustomerBase
    WITH Callejero <- OneCallejero, Population <- OnePopulation, Pyramid <- OnePyramid,
         MaxChange <- 3, MaxExport <- 3

Typed == INSTANCE CustomerBase
    WITH Callejero <- TwoCallejero, Population <- OnePopulation, Pyramid <- OnePyramid,
         Count <- {1}, MaxChange <- 1, MaxExtract <- 2

Dag == INSTANCE CustomerBase
    WITH Callejero <- TwoCallejero, Population <- OnePopulation, Pyramid <- OnePyramid,
         MinAge <- {15}, Branches <- {mad}, ByHand <- {},
         MaxChange <- 1, MaxExport <- 3, MaxCrash <- 1

AllInit == Init /\ moves \in {"export", "area", "by hand", "dag"}

AllNext ==
    /\ \/ moves = "export" /\ Next
       \/ moves = "area" /\ AreaEdited!Next
       \/ moves = "by hand" /\ Typed!Next
       \/ moves = "dag" /\ Dag!Next
    /\ UNCHANGED moves

\* A task of the DAG that has started goes on.
AllSpec ==
    /\ AllInit /\ [][AllNext]_<< moves, vars >>
    /\ WF_vars(moves = "dag" /\ dag.phase = "export" /\ Dag!ExportStep)
    /\ \A wh \in Wh : WF_vars(moves = "dag" /\ branch[wh].chain /\ Dag!BranchStep(wh))
    /\ WF_vars(moves = "dag" /\ Dag!EndRun)

\* customers_reference.py: the total is a consequence and not a quota.  A warehouse
\* that gains a municipality does not lose customers, and others keep theirs.
NobodyPaysForANewArea == [][(moves = "area") => AreaEdited!KeepsItsCustomers]_vars

\* The two promises to who works with a base: an area gained elsewhere leaves it as
\* it is, and a run of the DAG that makes one ends, whatever is refused or dies.
AreasAndRunsSettle ==
    /\ NobodyPaysForANewArea
    /\ RunsEnd
=============================================================================
