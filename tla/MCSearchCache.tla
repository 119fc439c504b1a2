--------------------------- MODULE MCSearchCache ----------------------------
(* A finite instance of SearchCache for TLC.                               *)
EXTENDS SearchCache, TLC

CONSTANTS r1, r2, p1, p2, b1, b2

\* A process each.
Workers == [r \in Requests |-> IF r = r1 THEN p1 ELSE p2]

\* Imported datasets never clash here: ScheduleImport rules it out.
Same(a, b) == a = b
=============================================================================
