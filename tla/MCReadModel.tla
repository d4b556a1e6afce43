----------------------------- MODULE MCReadModel -----------------------------
(* The two ways into live_order_state that have more than one process: the *)
(* Iceberg table and its writers, and several members of the consumer      *)
(* group, side by side.  The two share no state, so a behaviour moves one  *)
(* of them: what holds of each alone holds of both.  The members meet both *)
(* a partition for each order and one for all of them.                     *)
EXTENDS OrdersProjection, ProjectorGroup

CONSTANTS r1, m1, m2

VARIABLE moves   \* what this behaviour is about

MCLogLength == [o \in Order |-> IF o = 1 THEN 2 ELSE 1]
TwoLogs == [o \in {1, 2} |-> MCLogLength[o]]
Each == [o \in {1, 2} |-> o]
Together == [o \in {1, 2} |-> 1]

\* The group again, with both orders in one of the partitions.
OneForAll == INSTANCE ProjectorGroup WITH PartitionOf <- Together

OneLane == moves = "group of one partition"
Faults == faults.evict + faults.crash

AllInit ==
    /\ moves \in {"table", "group", "group of one partition"}
    /\ Init
    /\ GroupInit

\* Where the orders have a partition each members are thrown out and none is
\* killed; where they share one, there is one fault of either kind.
AllNext ==
    \/ moves = "table" /\ Next /\ UNCHANGED << moves, groupVars >>
    \/ moves = "group" /\ GroupNext /\ faults'.crash = 0 /\ UNCHANGED << moves, vars >>
    \/ OneLane /\ OneForAll!GroupNext /\ Faults' <= 1 /\ UNCHANGED << moves, vars >>

AllSpec ==
    /\ AllInit /\ [][AllNext]_<< moves, vars, groupVars >>
    /\ \A o \in Order : WF_vars(moves = "table" /\ Emit(o))
    /\ \A o \in Key : WF_groupVars(OneLane /\ OneForAll!Produce(o))
    /\ WF_vars(moves = "table" /\ Stream)
    /\ \A r \in Rebuild : WF_vars(moves = "table" /\ Batch(r))
    /\ WF_groupVars(OneLane /\ OneForAll!Rebalance)
    /\ \A m \in Member : WF_groupVars(OneLane /\ OneForAll!Work(m))

\* IcebergProjection.commit: the table reaches the end of every log, whoever
\* loses the race for a commit on the way.
TableConverges == moves = "table" => Converges
\* project: once the group is settled every order reaches the end of its log.
GroupConverges == OneLane => ConvergesOnceSettled

\* No member of a group thrown out with a batch in hand takes an order back; and
\* every order reaches the end of its log in the table, whoever loses the race
\* for a commit, and in a group once it has settled.
ReadModelAdvances ==
    /\ RowsNeverGoBack
    /\ TableConverges
    /\ GroupConverges
=============================================================================
