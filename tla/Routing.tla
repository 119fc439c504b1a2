------------------------------- MODULE Routing -------------------------------
(***************************************************************************)
(* search_itineraries: what a search answers for one schedule, one airports *)
(* table and one set of criteria.  The operators follow the engine: which  *)
(* rows its queries select, which airports it has loaded, how it pairs,    *)
(* filters, deduplicates and sorts.  The engine keeps no state and nothing *)
(* interrupts it; the state machine only ranges over its inputs.           *)
(*                                                                         *)
(* Airport codes, carrier and flight numbers and row ids are integers,     *)
(* compared as the code compares strings.  A list of itineraries is a set  *)
(* with the order of their Places; what an itinerary's id is a hash of     *)
(* stands for the id.                                                      *)
(***************************************************************************)
EXTENDS Connections, SequencesExt

CONSTANTS Inputs,       \* of searches: the rows of the active source, the
                        \* airports table, a validated SearchCriteria
          SegmentPrice, \* domestic_estimated_segment_price_usd
          PriceAbroad,  \* international_estimation_enabled
          MaxResults,   \* search_max_results
          UnknownPrice  \* _MAX_PRICE

ASSUME RoutingAssumption ==
    /\ SegmentPrice \in Nat /\ UnknownPrice \in Nat
    /\ MaxResults \in Nat \ {0}
    /\ PriceAbroad \in BOOLEAN
    /\ None \notin {"DATE_OUTSIDE_SCHEDULE_RANGE", "UNKNOWN_ORIGIN", "INTERNAL_ERROR"}

-----------------------------------------------------------------------------
(* What the database's constraints and the request's validation let through. *)

ClockTimes == 0..(DayLength - 1)

\* The rows of scheduled_flights.
Flight == [id : Int, carrier : Int, number : Int, origin : Int, destination : Int,
           departs : ClockTimes, arrives : ClockTimes, dayOffset : 0..2,
           start : Int, end : Int \cup {None}, days : SUBSET (0..6)]

\* A row on a date.
Instance == [flight : Flight, date : Int, departure : Int, arrival : Int]

ASSUME NoneAssumption == None \notin Instance

SortModes == {"PRICE", "TOTAL_DURATION", "EARLIEST_DEPARTURE", "LATEST_DEPARTURE",
              "DESTINATION"}

\* A search's rows: each under its own id, between two different airports that
\* the table has.  The longest layover, at most a quarter of a day, leaves room
\* in a day for a change of the clock.
IsInput(rows, table, c) ==
    /\ IsFiniteSet(rows) /\ rows \subseteq Flight
    /\ \A f, g \in rows : f.id = g.id => f = g
    /\ \A f \in rows : /\ f.origin # f.destination
                       /\ {f.origin, f.destination} \subseteq DOMAIN table
    /\ \A a \in DOMAIN table :
         /\ table[a].zone \in Zone
         /\ Minute * c.maxConnection + Minute + Shift(table[a].zone) <= DayLength
    /\ c.date \in Int /\ c.maxConnections \in Nat /\ c.maxConnection \in Nat
    /\ c.sort \in SortModes

ASSUME InputsAssumption ==
    \A input \in Inputs : IsInput(input.schedule, input.airports, input.criteria)

VARIABLES schedule, airports, criteria, response

routingVars == <<schedule, airports, criteria, response>>

-----------------------------------------------------------------------------
(* ScheduleRepository.                                                     *)

\* The rows from an origin in effect on some date of a span.
Departures(rows, origin, first, last) ==
    {f \in rows : /\ f.origin = origin
                  /\ f.start <= last
                  /\ f.end = None \/ f.end >= first}

FindDepartures(rows, origin, date) == Departures(rows, origin, date, date)

\* Each row in effect within the span of the dates, with each of the dates.
FindDeparturesForDates(rows, origin, dates) ==
    Departures(rows, origin, Min(dates), Max(dates)) \X dates

-----------------------------------------------------------------------------
(* get_active_schedule_status, as far as the coverage goes.                *)

\* Mutant: a flight without an end date does not open the coverage's end.
WithinCoverage_Closed(rows, date) ==
    rows # {} => /\ \E f \in rows : f.start <= date
                 /\ \/ \A f \in rows : f.end = None
                    \/ \E f \in rows : f.end # None /\ date <= f.end

\* From the first effective start to the last effective end, if all have one;
\* without rows the status names no bound, and no date is refused.
WithinCoverage(rows, date) ==
    rows # {} => /\ \E f \in rows : f.start <= date
                 /\ \E f \in rows : f.end = None \/ date <= f.end

-----------------------------------------------------------------------------
(* Generation.                                                             *)

\* The airports whose metadata is loaded before the itineraries are built.
Prefetched(rows, c) ==
    LET mids   == {f.destination : f \in FindDepartures(rows, c.origin, c.date)}
        onward == IF c.maxConnections < 1 THEN {}
                  ELSE UNION {FindDeparturesForDates(rows, m, c.date..(c.date + 3)) :
                                m \in mids}
    IN {c.origin} \cup mids \cup {pair[1].destination : pair \in onward}

\* _resolve_all: rows whose airports are not loaded are skipped.
ResolveAll(pairs, table) ==
    {Resolve(pair[1], pair[2], table[pair[1].origin], table[pair[1].destination]) :
       pair \in {p \in pairs : {p[1].origin, p[1].destination} \subseteq DOMAIN table}}
    \ {None}

\* ItineraryFactory and PriceEstimator.
Price(codes, count, table) ==
    IF Cardinality({table[a].country : a \in codes}) > 1 /\ ~PriceAbroad
    THEN None
    ELSE SegmentPrice * count

Direct(x, table) ==
    [segments |-> <<x>>,
     price |-> Price({x.flight.origin, x.flight.destination}, 1, table)]

OneStop(x, y, table) ==
    [segments |-> <<x, y>>,
     price |-> Price({x.flight.origin, x.flight.destination,
                      y.flight.destination}, 2, table)]

Policy(c) == [minConnection |-> c.minConnection,
              maxConnection |-> c.maxConnection,
              maxDuration |-> IF c.maxDuration = None THEN DayLength \div Minute
                              ELSE c.maxDuration]

\* generate_itineraries: each first segment, then its connections.
Generate(rows, table, c) ==
    LET first == {x \in ResolveAll(FindDepartures(rows, c.origin, c.date) \X {c.date},
                                   table) :
                    x.flight.origin # x.flight.destination}
        Onward(x) ==
            {y \in ResolveAll(FindDeparturesForDates(rows, x.flight.destination,
                                                     CandidateDates(x)), table) :
               ValidConnection(x, y, c.origin, Policy(c))}
        oneStops == IF c.maxConnections < 1 THEN {}
                    ELSE UNION {{OneStop(x, y, table) : y \in Onward(x)} : x \in first}
    IN {Direct(x, table) : x \in first} \cup oneStops

-----------------------------------------------------------------------------
(* Itineraries.                                                            *)

FirstOf(it) == it.segments[1]
LastOf(it) == it.segments[Len(it.segments)]
Destination(it) == LastOf(it).flight.destination
ConnectionCount(it) == Len(it.segments) - 1
Duration(it) == TotalDuration(FirstOf(it), LastOf(it))

\* Itinerary.__post_init__ raises unless the clock at the connection advances.
Chronological(it) ==
    \A i \in 1..ConnectionCount(it) :
        ArrivesLocal(it.segments[i].flight, it.segments[i].date)
            < DepartsLocal(it.segments[i + 1].flight, it.segments[i + 1].date)

\* FlightInstance.duration_minutes raises unless it is a whole number.
WholeMinutes(it) ==
    \A i \in DOMAIN it.segments :
        (it.segments[i].arrival - it.segments[i].departure) % Minute = 0

\* What is said of its one or two segments, one after the other.
Along(it, ofFirst, ofLast) ==
    IF ConnectionCount(it) = 0 THEN ofFirst ELSE ofFirst \o ofLast

\* What the itinerary id is a hash of.
Signature(x) == <<x.flight.carrier, x.flight.number, x.flight.origin,
                  x.flight.destination, x.departure, x.arrival>>
Identity(it) ==
    <<FirstOf(it).date>> \o Along(it, Signature(FirstOf(it)), Signature(LastOf(it)))

\* Where in the lists an itinerary is: the queries order the rows by time,
\* number and id, then come the dates, and the engine keeps their order.
RowPlace(x) == <<x.flight.departs, x.flight.number, x.flight.id, x.date>>
Place(it) == Along(it, RowPlace(FirstOf(it)), RowPlace(LastOf(it)))

\* filters.matches, on the clock times of the two airports.
Matches(it, c, table) ==
    LET departs == FirstOf(it).flight.departs
        arrives == LastOf(it).flight.arrives
        abroad  == table[c.origin].country # table[Destination(it)].country
    IN /\ ConnectionCount(it) <= c.maxConnections
       /\ c.departAfter = None \/ departs >= c.departAfter
       /\ c.departBefore = None \/ departs <= c.departBefore
       /\ c.arriveBefore = None \/ arrives <= c.arriveBefore
       /\ c.maxDuration = None \/ Duration(it) <= c.maxDuration
       /\ c.maxPrice = None \/ it.price = None \/ it.price <= c.maxPrice
       /\ c.domesticOnly => ~abroad
       /\ c.internationalOnly => abroad

\* The order of tuples of integers: a shorter one is before its continuations.
Less(a, b) ==
    \/ \E i \in DOMAIN a \cap DOMAIN b :
         a[i] < b[i] /\ \A j \in 1..(i - 1) : a[j] = b[j]
    \/ Len(a) < Len(b) /\ \A i \in DOMAIN a : a[i] = b[i]

WinnerKey(it) == [i \in DOMAIN it.segments |-> it.segments[i].flight.id]

\* deduplicate: where an identity is first seen, its winner.
Deduplicate(found) ==
    LET Same(it) == {other \in found : Identity(other) = Identity(it)}
        firstSeen == {it \in found :
                        \A other \in Same(it) : ~Less(Place(other), Place(it))}
    IN [it \in firstSeen |->
          CHOOSE winner \in Same(it) :
            \A other \in Same(it) : ~Less(WinnerKey(other), WinnerKey(winner))]

Primary(it, mode) ==
    CASE mode = "PRICE" -> IF it.price = None THEN UnknownPrice ELSE it.price
      [] mode = "TOTAL_DURATION" -> Duration(it)
      [] mode = "EARLIEST_DEPARTURE" -> FirstOf(it).departure
      [] mode = "LATEST_DEPARTURE" -> -FirstOf(it).departure
      [] mode = "DESTINATION" -> Destination(it)

\* The id is the last of the tie breakers.
SortKey(it, mode) ==
    [rank |-> <<Primary(it, mode), ConnectionCount(it), Duration(it),
                FirstOf(it).departure, Destination(it)>>,
     id |-> Identity(it)]

KeyLess(a, b) == Less(a.rank, b.rank) \/ (a.rank = b.rank /\ Less(a.id, b.id))

\* sorted(): by SortKey, stable.
SortItineraries(kept, mode) ==
    LET key == [seen \in DOMAIN kept |-> SortKey(kept[seen], mode)]
        Before(s, t) == KeyLess(key[s], key[t])
                        \/ (key[s] = key[t] /\ Less(Place(s), Place(t)))
        rank == [seen \in DOMAIN kept |->
                   Cardinality({s \in DOMAIN kept : Before(s, seen)})]
    IN [i \in 1..Cardinality(DOMAIN kept) |->
          kept[CHOOSE seen \in DOMAIN kept : rank[seen] = i - 1]]

-----------------------------------------------------------------------------
(* search_itineraries and build_search_response.                           *)

Failure(code) == [error |-> code, results |-> <<>>]

\* Mutant: the results are cut before they are sorted.
Respond_CutFirst(kept, mode) ==
    LET rank == [seen \in DOMAIN kept |->
                   Cardinality({s \in DOMAIN kept : Less(Place(s), Place(seen))})]
        cut == {seen \in DOMAIN kept : rank[seen] < MaxResults}
    IN SortItineraries([seen \in cut |-> kept[seen]], mode)

\* The results of a response: sorted, then cut.
Respond(kept, mode) ==
    SubSeq(SortItineraries(kept, mode), 1,
           Min({MaxResults, Cardinality(DOMAIN kept)}))

SearchItineraries(rows, table, c) ==
    IF ~WithinCoverage(rows, c.date) THEN Failure("DATE_OUTSIDE_SCHEDULE_RANGE")
    ELSE IF c.origin \notin DOMAIN table THEN Failure("UNKNOWN_ORIGIN")
    ELSE IF ~table[c.origin].active THEN Failure("UNKNOWN_ORIGIN")
    ELSE LET loaded   == [a \in Prefetched(rows, c) \cap DOMAIN table |-> table[a]]
             raw      == Generate(rows, loaded, c)
             filtered == {it \in raw : Matches(it, c, loaded)}
             results  == Respond(Deduplicate(filtered), c.sort)
         IN IF /\ \A it \in raw : Chronological(it)
               /\ \A it \in ToSet(results) : WholeMinutes(it)
            THEN [error |-> None, results |-> results]
            ELSE Failure("INTERNAL_ERROR")

RoutingInit ==
    /\ \E input \in Inputs : /\ schedule = input.schedule
                             /\ airports = input.airports
                             /\ criteria = input.criteria
    /\ response = None

Search ==
    /\ response = None
    /\ response' = SearchItineraries(schedule, airports, criteria)
    /\ UNCHANGED <<schedule, airports, criteria>>

RoutingSpec == RoutingInit /\ [][Search]_routingVars

-----------------------------------------------------------------------------
(* What a search should answer, without its queries, candidate dates,      *)
(* prefetched airports and lists.                                          *)

\* Instances of any date near the search's: longer than any journey.
Resolved(rows, table, c) ==
    {Resolve(f, d, table[f.origin], table[f.destination]) :
       f \in rows, d \in (c.date - 3)..(c.date + 6)} \ {None}

Journeys(rows, table, c) ==
    LET instances == Resolved(rows, table, c)
        first == {x \in instances : x.flight.origin = c.origin /\ x.date = c.date}
    IN {Direct(x, table) : x \in first} \cup
       {OneStop(xy[1], xy[2], table) :
          xy \in {p \in first \X instances :
                    /\ c.maxConnections >= 1
                    /\ ValidConnection(p[1], p[2], c.origin, Policy(c))}}

\* The sort keys of the itineraries to choose from: one for each identity.
Choice(rows, table, c) ==
    {SortKey(it, c.sort) : it \in {j \in Journeys(rows, table, c) : Matches(j, c, table)}}

\* The best of a choice, as many as a response may hold, in order.
Best(results, choice, mode) ==
    LET keys  == [i \in DOMAIN results |-> SortKey(results[i], mode)]
        shown == ToSet(keys)
    IN /\ shown \subseteq choice
       /\ Len(keys) = Min({MaxResults, Cardinality(choice)})
       /\ \A i, j \in DOMAIN keys : i < j => KeyLess(keys[i], keys[j])
       /\ \A k \in choice \ shown : \A s \in shown : KeyLess(s, k)

Shown(answer) ==
    [i \in DOMAIN answer.results |->
       <<Identity(answer.results[i]), answer.results[i].price>>]

Answered == response # None /\ response.error = None

-----------------------------------------------------------------------------
(* Properties.                                                             *)

\* A search answers with the best MaxResults of all the itineraries there are,
\* each once and in order: no date it does not look at, airport it has not
\* loaded, or row its queries leave out hides a connection (engine.py).
AnswersBest ==
    Answered => Best(response.results, Choice(schedule, airports, criteria),
                     criteria.sort)

\* A date is refused as outside the schedule only if nothing departs on it.
RefusedDatesAreEmpty ==
    (response # None /\ response.error = "DATE_OUTSIDE_SCHEDULE_RANGE")
    => Choice(schedule, airports, criteria) = {}

\* A search ends with results or with one of the engine's typed errors, never
\* with an exception of the domain model (itinerary.py, flight_instance.py):
\* not even at a clock change, where the engine orders a connection by instants
\* and the itinerary checks it by clocks.
SearchAnswers ==
    response # None =>
    response.error \in {None, "DATE_OUTSIDE_SCHEDULE_RANGE", "UNKNOWN_ORIGIN"}

\* Importing the same rows again gives them new random ids; no client can tell
\* (sorting.py: the same dataset and criteria give the same ordering).
Renumbered == {[f EXCEPT !.id = -f.id] : f \in schedule}

SameAfterReimport ==
    Answered =>
    Shown(response) = Shown(SearchItineraries(Renumbered, airports, criteria))
=============================================================================
