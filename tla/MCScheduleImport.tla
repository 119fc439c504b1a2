-------------------------- MODULE MCScheduleImport --------------------------
(* Finite instances of ScheduleImport for TLC.                             *)
EXTENDS ScheduleImport, TLC

CONSTANTS i1, i2, i3

\* v1 is imported, replaced by v2; v3 re-imports the content of v1; v2x claims
\* the version of v2 for content of its own.
v1  == [identity |-> "v1", checksum |-> "c1", quality |-> "good"]
v2  == [identity |-> "v2", checksum |-> "c2", quality |-> "good"]
v3  == [identity |-> "v3", checksum |-> "c1", quality |-> "good"]
v2x == [identity |-> "v2", checksum |-> "c3", quality |-> "good"]

GoodBatches == {v1, v2, v3, v2x}
RestoreBatches == {v1, v2, v3}

Ids == 1..3
Symmetry == Permutations(Importers)
=============================================================================
