----------------------------- MODULE Connections -----------------------------
(***************************************************************************)
(* The time arithmetic of the routing engine: a scheduled flight is a      *)
(* wall-clock departure and arrival on the days it operates; resolved for  *)
(* a date it becomes an instance with two instants, unless one of its      *)
(* clock times does not exist or exists twice on that day; two instances   *)
(* make a connection when the layover between the instants is in bounds.   *)
(*                                                                         *)
(* A date is an integer, a clock time a number of ticks in a day of        *)
(* DayLength ticks, a local time DayLength * date + clock time.  A tick is *)
(* a second of the code, or coarser.  An airport's zone has one change of  *)
(* its offset, the one near the dates of the search.                       *)
(***************************************************************************)
EXTENDS Integers, FiniteSets

CONSTANTS DayLength,  \* ticks in a day
          Minute,     \* ticks in a minute
          None        \* Python's None

ASSUME TimeAssumption == /\ DayLength \in Nat \ {0}
                         /\ Minute \in Nat \ {0}
                         /\ None \notin Int

-----------------------------------------------------------------------------
(* Zones.                                                                  *)

Zone == [before : Int, after : Int, change : Int]

\* A zone's largest jump: the length of its gap or of its fold.
Shift(zone) == IF zone.before <= zone.after THEN zone.after - zone.before
               ELSE zone.before - zone.after

\* The local time an instant is shown as in a zone.
LocalTime(zone, instant) ==
    instant + (IF instant < zone.change THEN zone.before ELSE zone.after)

\* The instants shown as that local time: none in a gap, two in a fold.
Instants(zone, local) ==
    {t \in {local - zone.before, local - zone.after} : LocalTime(zone, t) = local}

\* Mutant: a time the clock skips is taken for the instant it would have been.
Localize_Gap(zone, local) ==
    IF Instants(zone, local) = {} THEN local - zone.before
    ELSE IF \E t \in Instants(zone, local) : Instants(zone, local) = {t}
    THEN CHOOSE t \in Instants(zone, local) : TRUE
    ELSE None

\* _localize: the only instant with that local time, if there is just one.
Localize(zone, local) ==
    IF \E t \in Instants(zone, local) : Instants(zone, local) = {t}
    THEN CHOOSE t \in Instants(zone, local) : TRUE
    ELSE None

-----------------------------------------------------------------------------
(* Flights and their instances.                                            *)

Weekday(date) == date % 7

OperatesOn(flight, date) ==
    /\ flight.start <= date
    /\ flight.end = None \/ date <= flight.end
    /\ Weekday(date) \in flight.days

DepartsLocal(flight, date) == DayLength * date + flight.departs
ArrivesLocal(flight, date) == DayLength * (date + flight.dayOffset) + flight.arrives

\* resolve_instance, None for a ResolutionSkip.  Python compares two datetimes
\* of one zone by their clocks, and of two zones by their instants.
Resolve(flight, date, origin, destination) ==
    LET departure == Localize(origin.zone, DepartsLocal(flight, date))
        arrival   == Localize(destination.zone, ArrivesLocal(flight, date))
    IN IF /\ OperatesOn(flight, date)
          /\ departure # None /\ arrival # None
          /\ IF origin.zone = destination.zone
             THEN DepartsLocal(flight, date) < ArrivesLocal(flight, date)
             ELSE departure < arrival
       THEN [flight |-> flight, date |-> date,
             departure |-> departure, arrival |-> arrival]
       ELSE None

-----------------------------------------------------------------------------
(* Connections.                                                            *)

\* Mutant: a connection may leave on the day of arrival only.
CandidateDates_SameDay(first) == {first.date + first.flight.dayOffset}

\* The dates on which the second flight is looked for.
CandidateDates(first) ==
    LET arrivalDate == first.date + first.flight.dayOffset
    IN {arrivalDate, arrivalDate + 1}

\* Whole minutes, rounded down.
Layover(first, second) == (second.departure - first.arrival) \div Minute
TotalDuration(first, second) == (second.arrival - first.departure) \div Minute

\* validate_connection.
ValidConnection(first, second, origin, policy) ==
    /\ second.flight.origin = first.flight.destination
    /\ Cardinality({origin, first.flight.destination,
                    second.flight.destination}) = 3
    /\ second.flight.id # first.flight.id
    /\ Layover(first, second) > 0
    /\ Layover(first, second) >= policy.minConnection
    /\ Layover(first, second) <= policy.maxConnection
    /\ TotalDuration(first, second) > 0
    /\ TotalDuration(first, second) <= policy.maxDuration
=============================================================================
