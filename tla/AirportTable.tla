---------------------------- MODULE AirportTable ----------------------------
(***************************************************************************)
(* What the airports table promises its readers of the imports that fill   *)
(* it.  An import takes effect at once or not at all.  If no other one     *)
(* committed meanwhile, every airport of its file is afterwards what the   *)
(* file says last of it, and the others are as they were.  If one did, the *)
(* import still adds whole rows only and writes nothing but its own file's *)
(* values, but it may leave single columns as the other has set them.  No  *)
(* airport is ever removed.                                                *)
(*                                                                         *)
(* AirportImport shows that concurrent, failing and crashing imports       *)
(* implement this module.                                                  *)
(***************************************************************************)
CONSTANTS Imports,     \* runs of the import command
          Codes,       \* airport codes
          Rows,        \* what the other columns of a row may hold
          Columns,     \* those columns
          Absent,      \* no row
          NoImport     \* no import under way

VARIABLES table,       \* the row of each code, or Absent
          running,     \* the rows each import under way asks for
          late         \* the imports under way another one has overtaken

tableVars == <<table, running, late>>

Tables == [Codes -> Rows \cup {Absent}]

Init ==
    /\ table \in Tables
    /\ running = [i \in Imports |-> NoImport]
    /\ late = {}

Begin(i, asked) ==
    /\ running[i] = NoImport
    /\ running' = [running EXCEPT ![i] = asked]
    /\ UNCHANGED <<table, late>>

Abandon(i) ==
    /\ running[i] # NoImport
    /\ running' = [running EXCEPT ![i] = NoImport]
    /\ late' = late \ {i}
    /\ UNCHANGED table

\* The row of an airport is the one asked for, or that one in some columns.
Whole(asked, c) == table'[c] = IF asked[c] = Absent THEN table[c] ELSE asked[c]

Merged(asked, c) ==
    \/ table'[c] = table[c]
    \/ asked[c] # Absent /\ table[c] = Absent /\ table'[c] = asked[c]
    \/ /\ asked[c] # Absent /\ table[c] # Absent /\ table'[c] \in Rows
       /\ \A col \in Columns : table'[c][col] \in {table[c][col], asked[c][col]}

Commit(i) ==
    /\ running[i] # NoImport
    /\ table' \in Tables
    /\ \A c \in Codes : IF i \in late THEN Merged(running[i], c)
                                      ELSE Whole(running[i], c)
    /\ running' = [running EXCEPT ![i] = NoImport]
    /\ late' = {j \in Imports : running'[j] # NoImport}

Next == \E i \in Imports :
            \/ \E asked \in Tables : Begin(i, asked)
            \/ Abandon(i) \/ Commit(i)

Spec == Init /\ [][Next]_tableVars
=============================================================================
