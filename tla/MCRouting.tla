------------------------------ MODULE MCRouting ------------------------------
(* Finite instances of Routing for TLC.  A day has 8 ticks of three hours:  *)
(* a layover may last up to 2 ticks, a quarter of a day as in the code, and *)
(* a change of offset moves the clock by 2.  Searches are for date 10.      *)
EXTENDS Routing

\* Airport 1 is the origin, 2 the connection, 3 and 4 the destinations.
Steady == [before |-> 0, after |-> 0, change |-> 0]
Airport(zone, country) == [zone |-> zone, country |-> country, active |-> TRUE]

Row(id, carrier, number, origin, destination, departs, arrives, dayOffset) ==
    [id |-> id, carrier |-> carrier, number |-> number, origin |-> origin,
     destination |-> destination, departs |-> departs, arrives |-> arrives,
     dayOffset |-> dayOffset, start |-> 0, end |-> None, days |-> 0..6]

Plain == [origin |-> 1, date |-> 10, maxConnections |-> 1,
          minConnection |-> 1, maxConnection |-> 2, maxDuration |-> None,
          departAfter |-> None, departBefore |-> None, arriveBefore |-> None,
          maxPrice |-> None, domesticOnly |-> FALSE, internationalOnly |-> FALSE,
          sort |-> "PRICE"]

-----------------------------------------------------------------------------
\* Times: a first flight that arrives at any hour up to two days later, a
\* second that leaves at any hour, in effect from or up to days around it, and
\* a clock change at the connection around the midnights of these days.
First(arrives, dayOffset) == Row(1, 1, 1, 1, 2, 4, arrives, dayOffset)

Effective == {<<0, None>>, <<0, 11>>, <<0, 12>>, <<11, 11>>, <<12, None>>, <<13, None>>}
Seconds == {[Row(2, 1, 2, 2, 3, h, (h + 1) % 8, IF h = 7 THEN 1 ELSE 0)
               EXCEPT !.start = e[1], !.end = e[2]] : h \in 0..7, e \in Effective}

TimesSchedules == {{First(a, o), s} : a \in 0..7, o \in 0..2, s \in Seconds}

Changes == {[before |-> b, after |-> 2 - b, change |-> t] :
              b \in {0, 2}, t \in (86..98) \cup (103..105)}
TimesAirports == {<<Airport(Steady, 1), Airport(z, 1), Airport(Steady, 1)>> :
                    z \in Changes \cup {Steady}}
TimesCriteria == {Plain}

-----------------------------------------------------------------------------
\* Choices: several ways to the same airports, some with the same times under
\* another carrier or effective range, one of them abroad.
Pool == {Row(1, 1, 1, 1, 2, 1, 3, 0),
         Row(2, 2, 1, 1, 2, 1, 3, 0),
         [Row(3, 1, 1, 1, 2, 1, 3, 0) EXCEPT !.start = 5, !.days = {3}],
         Row(4, 1, 2, 1, 3, 2, 4, 0),
         Row(5, 1, 3, 2, 3, 4, 5, 0),
         Row(6, 1, 4, 2, 1, 4, 6, 0),
         [Row(7, 1, 5, 2, 4, 5, 7, 0) EXCEPT !.end = 10],
         [Row(8, 1, 6, 1, 4, 2, 7, 0) EXCEPT !.start = 11]}

ChoiceSchedules == SUBSET Pool \ {{}}
Closed(airport) == [airport EXCEPT !.active = FALSE]
ChoiceAirports == {<<Airport(Steady, 1), Airport(Steady, 1),
                     Closed(Airport(Steady, 1)), Airport(Steady, 2)>>}
ChoiceCriteria ==
    {[Plain EXCEPT !.sort = s] : s \in {"PRICE", "TOTAL_DURATION",
        "EARLIEST_DEPARTURE", "LATEST_DEPARTURE", "DESTINATION"}} \cup
    {[Plain EXCEPT !.maxConnections = 0], [Plain EXCEPT !.domesticOnly = TRUE],
     [Plain EXCEPT !.internationalOnly = TRUE], [Plain EXCEPT !.maxPrice = 15],
     [Plain EXCEPT !.departAfter = 2, !.arriveBefore = 6],
     [Plain EXCEPT !.departBefore = 1, !.maxDuration = 4],
     [Plain EXCEPT !.date = 12], [Plain EXCEPT !.origin = 9],
     [Plain EXCEPT !.origin = 3]}
-----------------------------------------------------------------------------
Searches(schedules, tables, all) ==
    {[schedule |-> s, airports |-> t, criteria |-> c] :
       s \in schedules, t \in tables, c \in all}

TimesAndChoices ==
    Searches(TimesSchedules, TimesAirports, TimesCriteria) \cup
    Searches(ChoiceSchedules, ChoiceAirports, ChoiceCriteria)
=============================================================================
