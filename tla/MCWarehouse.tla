----------------------------- MODULE MCWarehouse -----------------------------
(* The load of the warehouse and its roles, on Postgres and on Snowflake,  *)
(* side by side.  They share no state, so a behaviour moves one of them:   *)
(* what holds of each alone holds of all.  The cut has two tables, of      *)
(* which only Spark computes the second; the second build of Silver adds a *)
(* column, and has as many rows.                                           *)
EXTENDS WarehouseLoad, WarehouseRoles

CONSTANTS catalog, ledger

VARIABLE moves   \* what this behaviour is about

MCSpecs == << catalog, ledger >>
MCColumns == [v \in 1..2 |-> IF v = 1 THEN {"id"} ELSE {"id", "added"}]
MCRowCount == [v \in 1..2 |-> 1]

\* The roles again, on Postgres.
Postgres == INSTANCE WarehouseRoles
    WITH Snowflake <- FALSE, AdminWrites <- FALSE, MaxBoots <- 3, MaxWrites <- 12

AtRest == Init /\ Transactional /\ ~sparkRan

AllInit ==
    \/ moves = "load" /\ Init /\ Postgres!RolesInit
    \/ moves = "roles" /\ AtRest /\ Postgres!RolesInit
    \/ moves = "snowflake roles" /\ AtRest /\ RolesInit

AllNext ==
    \/ moves = "load" /\ Next /\ UNCHANGED << moves, roleVars >>
    \/ moves = "roles" /\ Postgres!RolesNext /\ UNCHANGED << moves, vars >>
    \/ moves = "snowflake roles" /\ RolesNext /\ UNCHANGED << moves, vars >>

AllVars == << moves, vars, roleVars >>

AllSpec ==
    /\ AllInit /\ [][AllNext]_AllVars
    /\ WF_vars(moves = "load" /\ Task)
    /\ WF_vars(moves = "load" /\ \E t \in Cut : RebuildTable(t))
=============================================================================
