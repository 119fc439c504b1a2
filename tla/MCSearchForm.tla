---------------------------- MODULE MCSearchForm -----------------------------
(* A finite instance of SearchForm for TLC.  Every number field has its     *)
(* default, another value, and one off its bound; 60 is both a shortest and *)
(* a longest connection.                                                    *)
EXTENDS SearchForm

\* In the order of their texts.
yearZero == 0    \* 0000-01-01
longYear == 1    \* 12026-08-04
earlier == 2     \* 2025-08-04
impossible == 3  \* 2026-02-30
supported == 4   \* 2026-08-04

MCDates == {yearZero, longYear, earlier, impossible, supported}
MCCalendar == {yearZero, earlier, supported}
MCFormDates == {longYear, earlier, supported}
MCApiDates == {earlier, supported}
MCPrices == {-1, 0}
MCRanges == {[first |-> supported, last |-> supported]}
=============================================================================
