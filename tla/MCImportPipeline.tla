-------------------------- MODULE MCImportPipeline ---------------------------
(* A finite instance of ImportPipeline for TLC: files that differ in order, *)
(* case and repetition only, files on either side of each gate, and files   *)
(* with rows that fail at each stage.                                       *)
EXTENDS ImportPipeline, SequencesExt

CONSTANTS i1, i2

MCUpper == [t \in {"F9", "f9", "1", "2", "ATL", "atl", "DEN", "XXX", "A1", "F-9"} |->
               CASE t = "f9" -> "F9" [] t = "atl" -> "ATL" [] OTHER -> t]
MCClockOf == [t \in {"06:00", "06:00:00", "09:00", "09:00+01:00"} |->
                 CASE t = "09:00" -> 9 [] t = "09:00+01:00" -> 10 [] OTHER -> 6]
MCOffsetOf == [t \in {"0", "3"} |-> IF t = "0" THEN 0 ELSE 3]
MCDaysOf == [t \in {"1,2", "2,1,2", "1,8", Blank} |->
                CASE t = "1,2" -> <<1, 2>> [] t = "2,1,2" -> <<2, 1, 2>>
                  [] t = "1,8" -> <<1, 8>> [] OTHER -> <<>>]
\* Days 1..20; the import asks for days up to 19.
Days20 == <<"d1", "d2", "d3", "d4", "d5", "d6", "d7", "d8", "d9", "d10",
            "d11", "d12", "d13", "d14", "d15", "d16", "d17", "d18", "d19", "d20">>
MCDateOf == [t \in ToSet(Days20) |-> CHOOSE i \in 1..20 : Days20[i] = t]
MCRange == [first |-> 1, last |-> 19]

out == [cells |-> "all", carrier |-> "F9", number |-> "1", origin |-> "ATL",
        destination |-> "DEN", departs |-> "06:00", arrives |-> "09:00",
        offset |-> "0", start |-> "d1", end |-> Blank, days |-> "1,2", equipment |-> "320"]
back == [out EXCEPT !.number = "2", !.origin = "DEN", !.destination = "ATL"]
outRewritten == [out EXCEPT !.cells = "surplus", !.carrier = "f9", !.origin = "atl",
                            !.departs = "06:00:00", !.days = "2,1,2"]

\* One for each reason to turn a row down.
rejects == <<[out EXCEPT !.offset = "x"], [out EXCEPT !.start = "x"], [out EXCEPT !.end = "x"],
             [out EXCEPT !.start = "d20"], [out EXCEPT !.departs = "x"],
             [out EXCEPT !.arrives = "09:00+01:00"], [out EXCEPT !.days = "x"],
             [out EXCEPT !.origin = "XXX"], [out EXCEPT !.destination = "A1"],
             [out EXCEPT !.carrier = "F-9"], [out EXCEPT !.number = "F-9"],
             [out EXCEPT !.destination = "atl"], [out EXCEPT !.days = "1,8", !.start = "d4"],
             [out EXCEPT !.days = Blank, !.start = "d5"], [out EXCEPT !.offset = "3", !.start = "d3"],
             [out EXCEPT !.start = "d2", !.end = "d1"]>>

Daily(n) == [i \in 1..n |-> [out EXCEPT !.start = Days20[i]]]

MCRowsOf ==
    [plain      |-> <<out, back>>,
     shuffled   |-> <<back, outRewritten>>,
     messy      |-> rejects \o <<out, back>>,
     changed    |-> <<out>>,
     daily      |-> Daily(19),
     repeated   |-> <<outRewritten>> \o Daily(19),
     frequent   |-> <<outRewritten>> \o Daily(18),
     contrary   |-> <<back>> \o Daily(19) \o <<[out EXCEPT !.arrives = "06:00"]>>,
     twoEnds    |-> <<out, [out EXCEPT !.end = "d2"]>>,
     wide       |-> <<out, [back EXCEPT !.equipment = "320 or 321neo"]>>,
     unreadable |-> SubSeq(rejects, 1, 7),
     unaccepted |-> SubSeq(rejects, 8, 10),
     raising    |-> <<out, [back EXCEPT !.cells = "missing"]>>,
     surplus    |-> <<out, [back EXCEPT !.cells = "surplus", !.offset = "x"]>>]
MCFiles == DOMAIN MCRowsOf
MCNameOf == [f \in MCFiles |-> IF f = "changed" THEN "plain" ELSE f]

ASSUME Outcomes ==
    \A q \in Qualities : \E d \in Datasets : d.quality = q

MCDatasets == Datasets
Ids == 1..2
=============================================================================
