----------------------------- MODULE QualityGate -----------------------------
(***************************************************************************)
(* What the import makes of the rows of a file: StaticCsvScheduleProvider, *)
(* normalize_flight_record, validate_flight_record, check_batch_quality    *)
(* and _canonical_checksum; and what the tables ask of a row.              *)
(*                                                                         *)
(* A text is a member of a set; what the conversions make of one is a      *)
(* constant function, whose domain is the texts they do not raise on.      *)
(* Equal texts stand for equal cells after the provider's own strip().     *)
(*                                                                         *)
(* A file is the sequence of its rows.  What a stage keeps of it is the    *)
(* set of their places, and a list of records is a function from the       *)
(* places of the rows they come from: its order is the order of the file.  *)
(***************************************************************************)
EXTENDS Integers, FiniteSets, Sequences, Functions

CONSTANTS Upper,     \* text -> the text in upper case
          ClockOf,   \* texts that are a time -> the time
          Zoned,     \* those times that carry an offset
          DateOf,    \* texts that are a date -> the date
          OffsetOf,  \* texts that are an integer -> the integer
          DaysOf,    \* texts that list integers -> the list; the blank text: <<>>
          Blank,     \* the blank text
          Carriers, FlightNumbers, AirportCodes, \* texts of the right pattern
          Airports,  \* codes of the active airports
          AirportRows, \* codes of all the airports the database knows
          Equipments,  \* texts of at most ten characters
          Range_     \* [first, last]: the requested dates

\* A row is a record of texts named as in Normalize, and of cells: whether
\* it has a cell for each column of the header ("all", "missing", "surplus").

ASSUME GateAssumption ==
    /\ \A t \in DOMAIN Upper : Upper[t] \in DOMAIN Upper /\ Upper[Upper[t]] = Upper[t]
    /\ \A t \in DOMAIN DateOf : DateOf[t] \in Int
    /\ \A t \in DOMAIN OffsetOf : OffsetOf[t] \in Int
    /\ \A t \in DOMAIN DaysOf : DaysOf[t] \in Seq(Int)
    /\ Blank \notin DOMAIN DateOf /\ Airports \subseteq AirportCodes \cap AirportRows
    /\ {Range_.first, Range_.last} \subseteq Int

-----------------------------------------------------------------------------
(* The provider.                                                           *)

EndsKnown(row) == row.end \in {Blank} \cup DOMAIN DateOf

Readable(row) ==
    /\ row.offset \in DOMAIN OffsetOf
    /\ row.start \in DOMAIN DateOf /\ EndsKnown(row)

\* A missing cell is None, which has no strip(): that is not among the errors
\* the loop catches.  A surplus cell is kept under no name, and no rejected row
\* can be built with it.
Raises(row) ==
    \/ row.cells = "missing" /\ row.offset \in DOMAIN OffsetOf
    \/ row.cells = "surplus" /\ ~Readable(row)

InRange(row) ==
    /\ row.end # Blank => DateOf[row.end] >= Range_.first
    /\ DateOf[row.start] <= Range_.last

\* batch.records; rows outside the requested dates are neither read nor rejected.
Read(file) == {i \in DOMAIN file : Readable(file[i]) /\ InRange(file[i])}

-----------------------------------------------------------------------------
(* Records.                                                                *)

Normalizable(row) ==
    /\ {row.departs, row.arrives} \subseteq DOMAIN ClockOf
    /\ {ClockOf[row.departs], ClockOf[row.arrives]} \cap Zoned = {}
    /\ row.days \in DOMAIN DaysOf

Normalize(row) ==
    [carrier |-> Upper[row.carrier], number |-> Upper[row.number],
     origin |-> Upper[row.origin], destination |-> Upper[row.destination],
     departs |-> ClockOf[row.departs], arrives |-> ClockOf[row.arrives],
     offset |-> OffsetOf[row.offset], start |-> DateOf[row.start],
     end |-> IF row.end = Blank THEN Blank ELSE DateOf[row.end],
     days |-> Range(DaysOf[row.days]), equipment |-> row.equipment]

\* Mutant: the arrival may be any number of days after the departure.
Acceptable_AnyOffset(r) ==
    /\ {r.origin, r.destination} \subseteq AirportCodes \cap Airports
    /\ r.carrier \in Carriers /\ r.number \in FlightNumbers
    /\ r.origin # r.destination
    /\ r.days # {} /\ r.days \subseteq 1..7
    /\ r.end # Blank => r.end >= r.start

\* validate_flight_record does not raise.
Acceptable(r) ==
    /\ {r.origin, r.destination} \subseteq AirportCodes \cap Airports
    /\ r.carrier \in Carriers /\ r.number \in FlightNumbers
    /\ r.origin # r.destination
    /\ r.days # {} /\ r.days \subseteq 1..7
    /\ r.offset \in 0..2
    /\ r.end # Blank => r.end >= r.start

Normalized(file) ==
    [i \in {j \in Read(file) : Normalizable(file[j])} |-> Normalize(file[i])]

Accepted(file) ==
    LET records == Normalized(file)
    IN [i \in {j \in DOMAIN records : Acceptable(records[j])} |-> records[i]]

-----------------------------------------------------------------------------
(* The batch.                                                              *)

Identity(r) == <<r.carrier, r.number, r.origin, r.destination, r.start, r.end>>
Payload(r) == <<r.departs, r.arrives, r.offset, r.days, r.equipment>>

Contradict(r, s) == Identity(r) = Identity(s) /\ Payload(r) # Payload(s)

\* Mutant: a record is compared with the one before it only.
Contradictory_Adjacent(records) ==
    \E i, j \in DOMAIN records :
        /\ i < j /\ \A k \in DOMAIN records : k <= i \/ j <= k
        /\ Contradict(records[i], records[j])

\* Two records of one identity differ in the rest.
Contradictory(records) ==
    \E i, j \in DOMAIN records : Contradict(records[i], records[j])

\* seen: the record is the first of its identity.
FirstOfIdentity(records, i) ==
    \A j \in DOMAIN records : j < i => Identity(records[j]) # Identity(records[i])

\* unique_records.
Deduplicate(records) ==
    [i \in {j \in DOMAIN records : FirstOfIdentity(records, j)} |-> records[i]]

Size(records) == Cardinality(DOMAIN records)

Duplicates(records) == Size(records) - Size(Deduplicate(records))

\* More than 5% of the records are duplicates.
TooManyDuplicates(records) == 20 * Duplicates(records) > Size(records)

\* Mutant: the checksum of the records as they come.
Canonical_Unsorted(records) ==
    {<<Cardinality({j \in DOMAIN records : j < i}), records[i]>> : i \in DOMAIN records}

\* The sorted JSON texts: each record as often as it comes, in no order.
Canonical(records) ==
    [r \in Range(records) |-> Cardinality({i \in DOMAIN records : records[i] = r})]

-----------------------------------------------------------------------------
(* The tables.                                                             *)

\* uq_flights_source_identity, which knows nothing of the end.
UniqueKey(r) == <<r.carrier, r.number, r.origin, r.destination, r.start>>

\* The CHECK constraints and foreign keys of scheduled_flights; a row of routes
\* takes its values from one of the flights and is under some of them.
Checked(r) ==
    /\ r.carrier \in Carriers /\ r.number \in FlightNumbers
    /\ {r.origin, r.destination} \subseteq AirportRows /\ r.origin # r.destination
    /\ r.offset \in 0..2
    /\ r.end # Blank => r.end >= r.start
    /\ r.days # {}

\* And the width of equipment_code, which no stage before looks at.
Storable(flights) ==
    /\ \A r \in Range(flights) : Checked(r) /\ r.equipment \in Equipments
    /\ \A i, j \in DOMAIN flights : i # j => UniqueKey(flights[i]) # UniqueKey(flights[j])

\* How far import_schedule gets with the file, whatever else is imported.
Verdict(file) ==
    LET records == Accepted(file)
        flights == Deduplicate(records)
    IN CASE DOMAIN Normalized(file) = {} -> "noneNormalized"
         [] DOMAIN Normalized(file) # {} /\ DOMAIN records = {} -> "noneAccepted"
         [] DOMAIN records # {} /\ (Contradictory(records) \/ TooManyDuplicates(records)) ->
                "gateFails"
         [] OTHER -> IF Storable(flights) THEN "good" ELSE "unstorable"
=============================================================================
