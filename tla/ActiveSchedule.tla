--------------------------- MODULE ActiveSchedule ---------------------------
(***************************************************************************)
(* What the schedule store promises its readers: a catalog of imported     *)
(* datasets that only grows, no two of which share an identity or a        *)
(* content checksum, and one dataset of it in force.  A dataset comes into *)
(* force in the same step that adds it to the catalog, and the dataset in  *)
(* force is only ever replaced, never withdrawn.                           *)
(*                                                                         *)
(* ScheduleImport shows that concurrent, failing and crashing import       *)
(* transactions implement this module; SearchCache reads the schedule      *)
(* through it.                                                             *)
(***************************************************************************)

CONSTANTS Batches,      \* datasets an operator may import
          NoBatch,      \* no dataset
          Clashes(_, _) \* two datasets share an identity or a checksum

ASSUME BatchAssumption == /\ NoBatch \notin Batches
                          /\ \A b \in Batches : Clashes(b, b)

VARIABLES catalog,      \* the imported datasets
          current       \* the dataset in force, or NoBatch

vars == <<catalog, current>>

TypeOK == /\ catalog \subseteq Batches
          /\ current \in catalog \cup {NoBatch}

Init == /\ catalog = {}
        /\ current = NoBatch

\* Mutant: a dataset is activated again after it was replaced.
Activate_Again(b) ==
    /\ catalog' = catalog \cup {b}
    /\ current' = b

Activate(b) ==
    /\ \A c \in catalog : ~Clashes(b, c)
    /\ catalog' = catalog \cup {b}
    /\ current' = b

Next == \E b \in Batches : Activate(b)

Spec == Init /\ [][Next]_vars
=============================================================================
