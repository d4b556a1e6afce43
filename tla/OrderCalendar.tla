----------------------------- MODULE OrderCalendar -----------------------------
(***************************************************************************)
(* When a simulated order happens: the cadence of its customer and the     *)
(* instants of one order (orders_generator.py), the premises that are let  *)
(* through (premises.py), and the calendar half of validate.py.            *)
(*                                                                         *)
(* Time is counted in half minutes from a Monday 00:00 UTC; the local clock *)
(* is moved once.  A draw from a range takes one of its ends.              *)
(***************************************************************************)
EXTENDS Integers, Sequences, FiniteSets, FiniteSetsExt

CONSTANT Setting   \* what an order may be generated from: a premises table (a record of
                   \* order_premises_seed.csv), the << cadence, weekday, phase >> of a
                   \* customer, a day (day 0 is a Monday) and a local clock

Minute == 2
Hour == 60 * Minute
FullDay == 24 * Hour

VARIABLES
    premise, schedule, day,   \* what the order is generated from
    clock,                    \* the instant the clock is moved, its offset before and after
    stage,                    \* the statement of _lifecycle reached
    plan,                     \* its local variables
    log                       \* its events: type and instant

given == << premise, schedule, day, clock >>
calendarVars == << given, stage, plan, log >>

Weekday(d) == (d % 7) + 1

is_scheduled(s, d) == Weekday(d) = s[2] /\ (d \div 7 - s[3]) % (s[1] \div 7) = 0

\* _local(day, hour): an hour that does not exist, or exists twice, has the offset before.
ToUtc(d, hour, ticks) ==
    LET local == d * FullDay + hour * Hour + ticks
    IN  IF local - clock.before < clock.switch \/ local - clock.after < clock.switch
        THEN local - clock.before ELSE local - clock.after

Local(utc) == IF utc < clock.switch THEN utc + clock.before ELSE utc + clock.after
DateOf(t) == t \div FullDay
HourOf(t) == (t % FullDay) \div Hour

PlacementHours(d) ==
    {h \in 0 .. 23 : DateOf(ToUtc(d, h, 0)) = d /\ DateOf(ToUtc(d, h, Hour - 1)) = d}

\* _pick_relative: weights that are all zero leave the last key.
Drawn(keys, weight) ==
    LET able == {k \in keys : weight[k] > 0} IN IF able = {} THEN {Max(keys)} ELSE able

\* _delivery_day
DeliveryDay(d, nth, closed) ==
    CHOOSE e \in d + 1 .. d + 2 * nth + 1 :
        /\ Weekday(e) # closed
        /\ Cardinality({o \in d + 1 .. e : Weekday(o) # closed}) = nth

slot_hours(p) == p.delivery_open_hour .. p.delivery_close_hour - p.slot_hours

\* Premises._check, on the premises the instants of an order depend on.
PremisesHold(p) ==
    /\ \A pair \in {p.minutes_to_payment, p.minutes_to_cancel, p.minutes_dispatch_before_slot,
                    p.minutes_picked_before_dispatch, p.minutes_to_return, p.basket_lines} :
         pair[1] <= pair[2]
    /\ p.basket_lines[1] >= 1
    /\ 0 <= p.delivery_open_hour /\ p.delivery_open_hour < p.delivery_close_hour
    /\ p.delivery_close_hour <= 24
    /\ p.slot_hours >= 1 /\ p.delivery_open_hour + p.slot_hours <= p.delivery_close_hour
    /\ p.delivery_closed_isoweekday \in 1 .. 7
    /\ \E h \in 0 .. 23 : p.order_hour_weight[h] > 0
    /\ \E h \in slot_hours(p) : p.slot_hour_weight[h] > 0

-----------------------------------------------------------------------------
(* What is taken of a setting.  PremisesHold asks neither that the closing  *)
(* hour leaves room for the latest delivery of the day, nor that the draws  *)
(* of a day fit in the night before it; order_premises_seed.csv grants both. *)

\* Whole minutes and hours; LEAD_DAYS.
IsTable(p) ==
    /\ \A pair \in {p.minutes_to_payment, p.minutes_to_cancel, p.minutes_dispatch_before_slot,
                    p.minutes_picked_before_dispatch, p.minutes_to_return, p.basket_lines} :
         pair[1] \in Nat /\ pair[2] \in Nat
    /\ p.delivery_open_hour \in Nat /\ p.delivery_close_hour \in Nat /\ p.slot_hours \in Nat
    /\ p.minutes_per_line_picked \in Nat
    /\ p.delivery_early_max_minutes \in Nat /\ p.delivery_late_max_minutes \in Nat
    /\ p.slot_lead_days \subseteq 1 .. 3

\* CADENCE_DAYS, and customer_schedule.
IsSchedule(s) == s[1] \in {7, 14, 21, 28} /\ s[2] \in 1 .. 7 /\ s[3] \in 0 .. s[1] \div 7 - 1

\* East of Greenwich, by less than half a day.
IsClock(c) == c.switch \in Nat /\ c.before \in 0 .. 11 * Hour /\ c.after \in 0 .. 11 * Hour

\* The two local times of the change are of one morning, before the opening.
MovedAtNight(p, c) ==
    /\ DateOf(c.switch + c.before) = DateOf(c.switch + c.after)
    /\ \A offset \in {c.before, c.after} :
         /\ (c.switch + offset) % FullDay <= p.delivery_open_hour * Hour
         /\ (c.switch + offset) % FullDay <= 12 * Hour

\* After midnight UTC there is time to pay, pick and dispatch before the opening, and after
\* the closing for a late delivery.
LeavesANight(p, c) ==
    /\ p.delivery_close_hour * 60 + p.delivery_late_max_minutes < 24 * 60
    /\ \A offset \in {c.before, c.after} :
         offset + Minute * (1 + p.minutes_to_payment[2] + p.minutes_dispatch_before_slot[2]
                              + p.minutes_picked_before_dispatch[2]
                              + p.minutes_per_line_picked * p.basket_lines[2])
           <= p.delivery_open_hour * Hour

ASSUME CalendarAssumption ==
    \A s \in Setting :
        /\ IsTable(s.premise) /\ IsSchedule(s.schedule) /\ IsClock(s.clock) /\ s.day \in Nat
        /\ PremisesHold(s.premise) =>
             MovedAtNight(s.premise, s.clock) /\ LeavesANight(s.premise, s.clock)

CalendarInit ==
    /\ \E s \in Setting :
         premise = s.premise /\ schedule = s.schedule /\ day = s.day /\ clock = s.clock
    /\ stage = "premises"
    /\ plan = << >>
    /\ log = << >>

-----------------------------------------------------------------------------
Emit(type, at) == log' = Append(log, [type |-> type, at |-> at])
Bounds(pair) == {pair[1] * Minute, pair[2] * Minute}

\* extract reads the premises, generate asks who is scheduled.
Start ==
    /\ stage = "premises"
    /\ stage' = IF PremisesHold(premise) /\ is_scheduled(schedule, day) THEN "place" ELSE "none"
    /\ UNCHANGED << given, plan, log >>

\* The placement hour, the delivery day and the slot.
Place ==
    /\ stage = "place"
    /\ \E hour \in Drawn(PlacementHours(day), premise.order_hour_weight),
          second \in {0, Hour - 1}, lead \in premise.slot_lead_days,
          slot \in Drawn(slot_hours(premise), premise.slot_hour_weight),
          lines \in {premise.basket_lines[1], premise.basket_lines[2]} :
         LET delivery == DeliveryDay(day, lead, premise.delivery_closed_isoweekday)
             start == ToUtc(delivery, slot, 0)
         IN  /\ Emit("order_placed", ToUtc(day, hour, second))
             /\ plan' = [start |-> start, end |-> start + premise.slot_hours * Hour,
                         opening |-> ToUtc(delivery, premise.delivery_open_hour, 0),
                         lines |-> lines]
    /\ stage' = "pay"
    /\ UNCHANGED given

Pay ==
    /\ stage = "pay"
    /\ \E wait \in Bounds(premise.minutes_to_payment) :
         LET at == log[1].at + wait IN
         \/ Emit("order_payment_failed", at) /\ stage' = "done"
         \/ Emit("order_payment_authorized", at) /\ stage' = "schedule"
    /\ UNCHANGED << given, plan >>

\* Backwards from the slot; a picking that starts before the payment is refused.
Plan ==
    /\ stage = "schedule"
    /\ \E before \in Bounds(premise.minutes_dispatch_before_slot),
          gap \in Bounds(premise.minutes_picked_before_dispatch) :
         LET dispatch == plan.start - before
             picked == dispatch - gap
             picking == picked - premise.minutes_per_line_picked * Minute * plan.lines
         IN  /\ plan' = [start |-> plan.start, end |-> plan.end, opening |-> plan.opening,
                         lines |-> plan.lines, dispatch |-> dispatch, picked |-> picked,
                         picking |-> picking]
             /\ stage' = IF picking <= log[2].at THEN "refused" ELSE "confirmed"
    /\ UNCHANGED << given, log >>

\* Mutant of CancelDraws: the start of picking is not looked at.
CancelDrawsAnyTime(p, room) == {p.minutes_to_cancel[1], p.minutes_to_cancel[2]}

CancelDraws(p, room) == {Min({p.minutes_to_cancel[1], room}), Min({p.minutes_to_cancel[2], room})}

Cancel ==
    /\ stage = "confirmed"
    /\ LET payment == log[2].at
           room == (plan.picking - payment) \div Minute - 1
       IN  \E minutes \in CancelDraws(premise, room) :
             Emit("order_cancelled", payment + minutes * Minute)
    /\ stage' = "done"
    /\ UNCHANGED << given, plan >>

\* Picking, the first or the last line changed or none, and dispatch.
Pick ==
    /\ stage = "confirmed"
    /\ \E changed \in {{}, {1}, {plan.lines}} :
         log' = log
           \o << [type |-> "order_picking_started", at |-> plan.picking] >>
           \o (IF changed = {} THEN << >>
               ELSE << [type |-> "order_line_removed",
                        at |-> plan.picking + premise.minutes_per_line_picked * Minute
                                                * (CHOOSE l \in changed : TRUE)] >>)
           \o << [type |-> "order_picked", at |-> plan.picked],
                 [type |-> "order_dispatched", at |-> plan.dispatch] >>
    /\ stage' = "dispatched"
    /\ UNCHANGED << given, plan >>

\* On time, early or late.
DeliveryInstants(p, r) ==
    {r.start, r.end - Minute}
    \union {Max({r.start - m * Minute, r.opening, r.dispatch + Minute}) :
              m \in {1, p.delivery_early_max_minutes}}
    \union {r.end + m * Minute : m \in {1, p.delivery_late_max_minutes}}

Deliver ==
    /\ stage = "dispatched"
    /\ \E at \in DeliveryInstants(premise, plan) :
         \/ Emit("order_delivery_failed", at) /\ stage' = "done"
         \/ Emit("order_delivered", at) /\ stage' \in {"done", "return"}
    /\ UNCHANGED << given, plan >>

Return ==
    /\ stage = "return"
    /\ \E wait \in Bounds(premise.minutes_to_return) :
         Emit("order_returned", log[Len(log)].at + wait)
    /\ stage' = "done"
    /\ UNCHANGED << given, plan >>

CalendarNext == Start \/ Place \/ Pay \/ Plan \/ Cancel \/ Pick \/ Deliver \/ Return

CalendarSpec == CalendarInit /\ [][CalendarNext]_calendarVars

-----------------------------------------------------------------------------
(* validate.py, on the instants of one order.                              *)

\* _check_calendar
CalendarHolds ==
    LET placed == DateOf(Local(log[1].at))
        start == Local(plan.start)
        end == Local(plan.end)
        closed == premise.delivery_closed_isoweekday
    IN  /\ DateOf(start) > placed /\ Weekday(DateOf(start)) # closed
        /\ HourOf(start) >= premise.delivery_open_hour
        /\ end % FullDay <= premise.delivery_close_hour * Hour
        /\ DateOf(end) = DateOf(start)
        /\ \A i \in DOMAIN log :
             log[i].type \in {"order_delivered", "order_delivery_failed"} =>
                 /\ DateOf(Local(log[i].at)) > placed
                 /\ Weekday(DateOf(Local(log[i].at))) # closed

\* _check_envelope and the last check of _check_orders.
LogAccepted ==
    /\ DateOf(log[1].at) = day
    /\ CalendarHolds
    /\ \A i \in DOMAIN log : i > 1 => log[i - 1].at <= log[i].at

-----------------------------------------------------------------------------
(* Properties.                                                             *)

\* Every variable keeps its shape.
CalendarTypeOK ==
    /\ \E s \in Setting :
         premise = s.premise /\ schedule = s.schedule /\ day = s.day /\ clock = s.clock
    /\ stage \in {"premises", "none", "place", "pay", "schedule", "refused", "confirmed",
                  "dispatched", "return", "done"}
    /\ \A i \in DOMAIN log : log[i].at \in Int

\* orders_generator.py:700: a customer reorders every 7, 14, 21 or 28 days, across the
\* turn of a year as well: every stretch of that many days has exactly one of theirs.
OneOrderPerCadence ==
    Cardinality({d \in day .. day + schedule[1] - 1 : is_scheduled(schedule, d)}) = 1

\* validate.py rereads what extract.py wrote: every order the generator finishes is
\* accepted, on the nights the clock is moved as well.
AFreshOrderIsAccepted == stage = "done" => LogAccepted

\* orders_generator.py:494-497: the calendar leaves a night between the payment and the
\* start of picking, so no draw of the declared ranges makes a day impossible.
NoDrawIsRefused == stage # "refused"

\* orders_generator.py:502: between the confirmation and the start of picking, the only
\* time a customer can cancel.
CancelledInTime ==
    \A i \in DOMAIN log : log[i].type = "order_cancelled" =>
        log[i - 1].at <= log[i].at /\ log[i].at < plan.picking

\* _lifecycle and is_scheduled: across changes of the clock and turns of the year an
\* order's instants are in the order and the hours validate.py demands.
CalendarIsKept ==
    /\ AFreshOrderIsAccepted
    /\ NoDrawIsRefused
    /\ CancelledInTime
    /\ OneOrderPerCadence
=============================================================================
