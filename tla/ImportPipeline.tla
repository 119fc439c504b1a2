--------------------------- MODULE ImportPipeline ----------------------------
(***************************************************************************)
(* The import command with its files: ScheduleImport whose datasets are    *)
(* what QualityGate makes of a file.  A file the provider raises on is no  *)
(* dataset; the run ends as in FetchFails.                                 *)
(***************************************************************************)
EXTENDS ScheduleImport, QualityGate

CONSTANTS Files,   \* paths
          RowsOf,  \* file -> its rows
          NameOf   \* file -> its name, the version of the source

ASSUME FilesAssumption ==
    /\ DOMAIN NameOf = Files /\ DOMAIN RowsOf = Files
    /\ \A f \in Files : DOMAIN RowsOf[f] = 1..Len(RowsOf[f])

\* The flights an import of the file inserts.
Flights(f) == Deduplicate(Accepted(RowsOf[f]))

\* SHA-256, as injective: one representative of the files of equal content.
Checksum(f) == CHOOSE g \in Files : Canonical(Flights(g)) = Canonical(Flights(f))

Dataset(f) == [identity |-> NameOf[f], checksum |-> Checksum(f),
               quality |-> Verdict(RowsOf[f]), file |-> f]

Datasets == {Dataset(f) : f \in {g \in Files : \A row \in Range(RowsOf[g]) : ~Raises(row)}}

\* The datasets of ScheduleImport are those of the files.
ASSUME BatchesAreDatasets == Batches = Datasets

-----------------------------------------------------------------------------
(* Properties.                                                             *)

FlightsOf(k) == Range(Flights(contentOf[k].file))

\* README.md: importing identical content again is a no-op.  No two stored
\* sources hold the same flights, whatever the files' order of rows, their
\* upper and lower case, their repetitions and the rows rejected in one only.
SameScheduleOnce ==
    \A k, m \in stored : k # m => FlightsOf(k) # FlightsOf(m)

\* The gate never settles a contradiction by dropping a record: all that was
\* accepted from the file of a stored source is in it, and of one flight on one
\* route from one date there is one record, which the engine relies on.
StoredIsWhole ==
    \A k \in stored :
        /\ Range(Accepted(RowsOf[contentOf[k].file])) = FlightsOf(k)
        /\ \A r, s \in FlightsOf(k) : r # s => UniqueKey(r) # UniqueKey(s)

\* A record the gate lets through and a constraint of the tables refuses takes
\* the whole file with it, after schedule-validate has called the file valid.
\* The gate and the constraints are written twice, and what reaches the tables
\* satisfies them, but for the unique key and the width of the equipment.
GateCoversConstraints ==
    \A i \in Importers : pc[i] \in InTransaction \ {"validate"} =>
        \A r \in Range(Flights(batch[i].file)) : Checked(r)
=============================================================================
