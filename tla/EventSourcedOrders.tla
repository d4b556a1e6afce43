------------------------ MODULE EventSourcedOrders ------------------------
(***************************************************************************)
(* What the transactional outbox promises: an order changes by exactly one *)
(* event at a time, and the change and the event become visible together.  *)
(***************************************************************************)
EXTENDS OltpFold, Sequences

CONSTANTS
    Order,   \* order ids
    Log      \* [Order -> Seq(event)]: the events the source wrote per order

VARIABLES
    state,    \* state[o]: the order as the OLTP tables show it
    events    \* events[o]: its outbox rows, in the order a publisher reads them

vars == << state, events >>

Init ==
    /\ state = [o \in Order |-> Null]
    /\ events = [o \in Order |-> << >>]

Emit(o) ==
    /\ Len(events[o]) < Len(Log[o])
    /\ LET event == Log[o][Len(events[o]) + 1]
       IN  /\ events' = [events EXCEPT ![o] = Append(@, event)]
           /\ state' = [state EXCEPT ![o] = PlanEffect(@, event)]

Next == \E o \in Order : Emit(o)

Spec == Init /\ [][Next]_vars
=============================================================================
